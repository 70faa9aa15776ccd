----------------------------- MODULE MCStratum ------------------------------
(* Values for the model checker: the requests miners send, and which       *)
(* connections are interchangeable.                                        *)
EXTENDS Stratum, TLC

ConnSymmetry == Permutations(Conns)

(* Two miners share the first templates, the last ones are for one alone.  *)
Few == \/ node.pre_pow < MaxTemplates - 1
       \/ node.pre_pow < MaxTemplates /\ restarts = 0
       \/ Cardinality({c \in Conns : worker[c] # Gone}) <= 1
=============================================================================
