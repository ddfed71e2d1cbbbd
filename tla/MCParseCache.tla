----------------------------- MODULE MCParseCache ------------------------------
(* ParseCache with three paths and room for two, and two getters.            *)
EXTENDS ParseCache, TLC

MCSymmetry == Permutations(Paths) \cup Permutations(Getters) \cup Permutations(Values)
================================================================================
