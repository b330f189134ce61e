------------------------------ MODULE MCPlugin ------------------------------
(* An instance of Plugin for TLC.                                          *)
EXTENDS Plugin

CONSTANTS h1, h2

Awake == {s \in Settings : s.prevent}
Both == {"darwin", "piped"}
=============================================================================
