----------------------------- MODULE RunControl -----------------------------
(***************************************************************************)
(* What a debug adapter promises its client about execution: the program   *)
(* is started once, every command to run is answered by exactly one event  *)
(* (a stop or the end of the session), and nothing runs and nothing is     *)
(* reported while the client believes the program to be stopped.           *)
(***************************************************************************)
VARIABLES
  view,     \* what the client has been told
  started,  \* has the launch led to a first run, stop or failure?
  work      \* what the adapter does about the last command

Views == {"none", "running", "stopped", "ended", "gone"}
Work == {"idle", "executing", "reported"}

vars == <<view, started, work>>

Init == view = "none" /\ ~started /\ work = "idle"

Launch ==
  /\ view = "none" /\ view' = "running"
  /\ UNCHANGED <<started, work>>

(* The launch and the client's configuration are both complete.            *)
Start ==
  /\ view = "running" /\ ~started /\ work = "idle"
  /\ started' = TRUE
  /\ work' \in {"executing", "reported"}
  /\ UNCHANGED view

Report ==
  /\ work = "executing" /\ work' = "reported"
  /\ UNCHANGED <<view, started>>

Deliver ==
  /\ work = "reported" /\ work' = "idle"
  /\ view = "running" /\ view' \in {"stopped", "ended"}
  /\ UNCHANGED started

Command ==
  /\ view = "stopped" /\ view' = "running"
  /\ work = "idle" /\ work' \in {"executing", "reported"}
  /\ UNCHANGED started

(* The client leaves; what the adapter does then is not promised here.     *)
Leave ==
  /\ view # "none" /\ view' = "gone"
  /\ work' \in Work /\ started' \in BOOLEAN

Next == Launch \/ Start \/ Report \/ Deliver \/ Command \/ Leave

Spec == Init /\ [][Next]_vars
=============================================================================
