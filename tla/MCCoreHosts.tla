----------------------------- MODULE MCCoreHosts -----------------------------
(* A Core, the tray and a terminal session on a small instance.              *)
EXTENDS CoreHosts
CONSTANTS c1, c2, r1, r2
Rest == [admin |-> {}, admins |-> 0, hooks |-> 0, clicks |-> 0, crashes |-> 0, up |-> TRUE, sessions |-> "none"]
\* A Core that is up, its sessions and an MCP server, with restarts in one step.
Sessions == [Rest EXCEPT !.sessions = "alone"]
\* The tray restarts a Core that has a terminal session.
Under == [Rest EXCEPT !.clicks = 1, !.sessions = "under"]
\* The tray starts and restarts Cores while a session hook does as well.
Supervised == [Rest EXCEPT !.clicks = 1, !.hooks = 1, !.up = FALSE]
\* Two requests at a time to a Core, which may be killed and started again.
Switched == [Rest EXCEPT !.admin = {"pause", "resume", "stop"}, !.admins = 3]
Moved == [Rest EXCEPT !.admin = {"pause", "lan", "local"}, !.admins = 2, !.hooks = 1]
Killed == [Rest EXCEPT !.admin = {"pause", "lan", "stop"}, !.admins = 2, !.hooks = 1, !.crashes = 1]
Scenes == {Sessions, Under, Supervised, Switched, Moved, Killed}
=============================================================================
