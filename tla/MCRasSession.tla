---------------------------- MODULE MCRasSession ----------------------------
(* Small instances of RasSession for TLC. *)
EXTENDS RasSession

\* With an "exit" at the end, in the middle, and without one.
SomeScripts == {<<"command", "exit">>, <<"exit", "command">>, <<"command">>}
=============================================================================
