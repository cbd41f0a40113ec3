-------------------------- MODULE MCTerminalAccess --------------------------
(* TerminalAccess on a small instance.                                      *)
EXTENDS TerminalAccess

Settings == {{"participant", "invite"}, {"dashboard", "card"}, {"command", "private", "end"},
             {"dashboard", "elsewhere"}, {"dashboard", "invite", "leave"},
             {"participant", "private", "stop"}, {"command", "stop", "elsewhere"}}
=============================================================================
