----------------------------- MODULE SessionState -----------------------------
(***************************************************************************)
(* The control state machine of one session (session-control,              *)
(* internal/state): five states, eight commands and the pure function that *)
(* answers a command in a state.  Replay and degrade are accepted without  *)
(* moving the state and still count as an effect; a command repeated in    *)
(* the state it leads to is accepted as a no-op.                           *)
(***************************************************************************)

States == {"running", "paused", "awaiting-approval", "stopped", "aborted"}

Commands == {"pause", "resume", "stop", "abort",
             "approve", "reject", "replay", "degrade"}

\* The last command of a session that has had none.
NoCommand == "none"

\* The state of a session on which no command has taken effect yet.
InitialState == "running"

\* The commands a state accepts, no-ops included.
Accepted ==
  [s \in States |->
     CASE s = "running"  -> {"pause", "stop", "abort", "replay", "degrade"}
       [] s = "paused"   -> {"pause", "resume", "stop", "abort", "replay", "degrade"}
       [] s = "awaiting-approval" -> {"approve", "reject", "abort", "replay"}
       [] s = "stopped"  -> {"stop", "abort", "replay"}
       [] s = "aborted"  -> {"abort", "replay"}]

Accepts(s, c) == c \in Accepted[s]

\* Where an accepted command leads; the session-level commands that derive a
\* context or narrow a scope leave the state where it is.
Target(s, c) ==
  CASE c = "pause" -> "paused"
    [] c = "stop"  -> "stopped"
    [] c = "abort" -> "aborted"
    [] c \in {"resume", "approve", "reject"} -> "running"
    [] OTHER -> s

\* Accepted, and nothing at all happens: the state's own command, repeated.
IsNoOp(s, c) ==
  <<s, c>> \in { <<"paused", "pause">>, <<"stopped", "stop">>, <<"aborted", "abort">> }

\* The command changes the session: a new revision is due.
TakesEffect(s, c) == Accepts(s, c) /\ ~IsNoOp(s, c)
===============================================================================
