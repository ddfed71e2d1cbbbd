------------------------------- MODULE MCScanner -------------------------------
(* Scanner on one small tree:                                                *)
(*                                                                           *)
(*   root: a/ (b/ (f1), c/ (f2)), d/ (f4), e/ (ignored; f5), f6              *)
(*                                                                           *)
(* where f4 and f6 have a name that a pattern with a trailing slash is for:  *)
(* f6 is kept in the root, f4 is ignored below it.                           *)
EXTENDS Scanner

MCDirs == {"a", "b", "c", "d", "e"}

MCFiles == {"f1", "f2", "f4", "f5", "f6"}

MCListing == [d \in MCDirs \cup {"root"} |->
    CASE d = "root" -> {"a", "d", "e", "f6"}
      [] d = "a" -> {"b", "c"}
      [] d = "b" -> {"f1"}
      [] d = "c" -> {"f2"}
      [] d = "d" -> {"f4"}
      [] d = "e" -> {"f5"}]
================================================================================
