-------------------------------- MODULE MCGraph --------------------------------
(* Graph with a few IDs and edges.                                           *)
EXTENDS Graph

MCIDs == 1..3
================================================================================
