----------------------------- MODULE MCAppShell -----------------------------
(* An instance of AppShell, and with it of PollingResource, for TLC. *)
EXTENDS AppShell

\* A page with the diagram and one without.
MCPages == {"dashboard", "activity"}
=============================================================================
