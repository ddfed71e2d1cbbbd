------------------------------- MODULE MCWatcher -------------------------------
(* Watcher with a few changes of two paths and an ignored one.               *)
EXTENDS Watcher

MCTimers == 1..3
================================================================================
