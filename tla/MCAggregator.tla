---------------------------- MODULE MCAggregator ----------------------------
(* Two updaters and two providers; any updater may speak for any provider. *)
EXTENDS Aggregator

CONSTANTS u1, u2, file, docker
=============================================================================
