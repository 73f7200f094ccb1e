------------------------------- MODULE Actuation -------------------------------
(***************************************************************************)
(* What a control command does to a running agent (dsh-plugins/control):   *)
(* the plugin reads the session's row, through a cache, before every step  *)
(* and every tool call of the agent, and in a poll of its own; it stops    *)
(* the agent at the boundary of a step, with the input put back, refuses   *)
(* tools, cancels the turn of an aborted session and wakes a session that  *)
(* goes on.  The row moves as ControlLog says.                             *)
(*                                                                         *)
(* One session, whose agent is not exchanged.  A query takes any time, so  *)
(* rounds of the poll may overlap; those of the hooks do not fail (what    *)
(* the agent's loop makes of a hook that throws is not the plugin's).  The *)
(* hook at the end of a turn reads like a round of the poll, and logs.     *)
(***************************************************************************)
EXTENDS SessionState, Naturals, Sequences, SequencesExt

CONSTANTS
  Round,       \* rounds of the poll that may be under way at once
  Ttl,         \* how long a reading is good
  Offered,     \* bound: the commands that are given
  MaxCommand,  \* bound: how many take effect
  MaxMessage,  \* bound: messages, notices included
  NoRow, None

VARIABLES
  row,      \* session_control_state, as in ControlLog
  cache,    \* stateCache: [state, age], or None
  query,    \* per reader [age, state, hit]: a call of currentState, its answer None until the row is read; or None
  inbox,    \* [turn, step]: the messages waiting for the next turn and for the next step
  agent,    \* [at, asks, since, step, claimed, cancelled, woken]; since: history, how long that had been refused when it asked, if it still is
  acted,    \* what the poll last made of the session
  done,     \* history: messages given to a step, and cancels
  held,     \* history: for how long each question has been refused, as the row says
  sent

actuationVars == <<row, cache, query, inbox, agent, acted, done, held, sent>>

Log == INSTANCE ControlLog WITH Session <- {"s"}, Realm <- {"r"}, Pulse <- {"p"}, NoPulse <- None

State == IF row["s"] = NoRow THEN InitialState ELSE row["s"].state

-----------------------------------------------------------------------------
(* The decisions of gate.ts and release.ts.                                *)

\* Mutant: a stopped session is cancelled like an aborted one.
controlActuationStopped(s) ==
  CASE s = "running" -> "run" [] s \in {"aborted", "stopped"} -> "cancel" [] OTHER -> "suspend"

controlActuation(s) ==
  CASE s = "running" -> "run" [] s = "aborted" -> "cancel" [] OTHER -> "suspend"

controlGate(s) ==
  CASE s = "running" -> "allow" [] s = "aborted" -> "deny" [] OTHER -> "read-only"

\* What the agent asks: to take a step, to call a tool that writes, or one that only reads.
Questions == {"step", "writes", "reads"}

\* preStepDecision; toolRelease, without a classifier.
Refused(q, s) ==
  CASE q = "step" -> controlActuation(s) = "suspend"
    [] q = "writes" -> controlGate(s) # "allow"
    [] q = "reads" -> controlGate(s) = "deny"

-----------------------------------------------------------------------------
(* currentState.                                                           *)

Readers == Round \cup {"agent"}

\* Mutant: a reading is as old as its answer.
StampedLate(c) == 0
Stamped(c) == c.age

\* The cache's answer, or a query.
Lookup(r) ==
  query' = [query EXCEPT ![r] =
    IF cache # None THEN [age |-> 0, state |-> cache.state, hit |-> TRUE]
    ELSE [age |-> 0, state |-> None, hit |-> FALSE]]

\* The database answers; the answer is on its way.
ReadRow(r) ==
  /\ query[r] # None /\ query[r].state = None
  /\ query' = [query EXCEPT ![r].state = State]
  /\ UNCHANGED <<row, cache, inbox, agent, acted, done, held, sent>>

\* The caller has its answer; one of the database replaces what the cache has, which may be newer.
Answered(r) ==
  /\ query[r] # None /\ query[r].state # None
  /\ query' = [query EXCEPT ![r] = None]
  /\ cache' = IF query[r].hit THEN cache
              ELSE IF Stamped(query[r]) >= Ttl THEN None
              ELSE [state |-> query[r].state, age |-> Stamped(query[r])]

-----------------------------------------------------------------------------
(* The agent's loop: a step claims what waits for it, asks, and runs.      *)

Idle == [at |-> "idle", asks |-> "step", since |-> 0, step |-> 0, claimed |-> <<>>, cancelled |-> FALSE, woken |-> FALSE]

ActuationInit ==
  /\ Log!Init
  /\ cache = None
  /\ query = [r \in Readers |-> None]
  /\ inbox = [turn |-> <<>>, step |-> <<>>]
  /\ agent = Idle
  /\ acted = None
  /\ done = [given |-> {}, cancels |-> 0]
  /\ held = [q \in Questions |-> 0]
  /\ sent = 0

Pending == inbox.turn # <<>> \/ inbox.step # <<>>

\* A user's message; it starts an idle agent.
Send(list) ==
  /\ sent < MaxMessage
  /\ sent' = sent + 1
  /\ inbox' = [inbox EXCEPT ![list] = Append(@, sent + 1)]
  /\ agent' = [agent EXCEPT !.woken = TRUE]
  /\ UNCHANGED <<row, cache, query, acted, done, held>>

\* The hook is entered with what was claimed from the list.
Claim(list, step) ==
  /\ inbox' = [inbox EXCEPT ![list] = <<>>]
  /\ agent' = [agent EXCEPT !.at = "asking", !.asks = "step", !.since = held["step"], !.step = step,
                            !.claimed = inbox[list], !.woken = IF step = 1 THEN FALSE ELSE @]
  /\ Lookup("agent")
  /\ UNCHANGED <<row, cache, acted, done, held, sent>>

BeginTurn == agent.at = "idle" /\ agent.woken /\ Claim("turn", 1)

\* The turn goes on, after a tool or for what was steered into it.
NextStep == agent.at = "step" /\ Claim("step", 2)

EndTurn ==
  /\ agent.at = "step" /\ inbox.step = <<>>
  /\ agent' = [Idle EXCEPT !.woken = agent.woken \/ inbox.turn # <<>>]
  /\ UNCHANGED <<row, cache, query, inbox, acted, done, held, sent>>

CallTool(kind) ==
  /\ agent.at = "step"
  /\ agent' = [agent EXCEPT !.at = "asking", !.asks = kind, !.since = held[kind]]
  /\ Lookup("agent")
  /\ UNCHANGED <<row, cache, inbox, acted, done, held, sent>>

claimedTarget == IF agent.step <= 1 THEN "turn" ELSE "step"

\* Mutants: the input is dropped with the step; it is put behind what came since.
RestoredNone(list) == list
RestoredLast(list) == list \o agent.claimed

\* restoreClaimed: back in front, in its order, but for what is there already.
Restored(list) == SelectSeq(agent.claimed, LAMBDA m : m \notin Range(inbox.turn) \cup Range(inbox.step)) \o list

\* pre-step
DecideStep ==
  /\ agent.at = "asking" /\ agent.asks = "step"
  /\ Answered("agent")
  /\ IF Refused("step", query["agent"].state)
     THEN /\ inbox' = [inbox EXCEPT ![claimedTarget] = Restored(@)]
          /\ agent' = [Idle EXCEPT !.woken = agent.woken]
          /\ UNCHANGED done
     ELSE /\ agent' = IF agent.cancelled THEN [Idle EXCEPT !.woken = agent.woken]
                      ELSE [agent EXCEPT !.at = "step", !.claimed = <<>>]
          /\ done' = [done EXCEPT !.given = @ \cup Range(agent.claimed)]
          /\ UNCHANGED inbox
  /\ UNCHANGED <<row, acted, held, sent>>

\* pre-execute: the tool runs, or the agent is told that it may not.
DecideTool ==
  /\ agent.at = "asking" /\ agent.asks # "step"
  /\ Answered("agent")
  /\ \/ Refused(agent.asks, query["agent"].state) /\ agent' = [agent EXCEPT !.at = "step"]
     \/ ~Refused(agent.asks, query["agent"].state) /\ agent' = [agent EXCEPT !.at = "tool"]
  /\ UNCHANGED <<row, inbox, acted, done, held, sent>>

ToolEnds ==
  /\ agent.at = "tool"
  /\ agent' = [agent EXCEPT !.at = "step"]
  /\ UNCHANGED <<row, cache, query, inbox, acted, done, held, sent>>

\* A turn that was cancelled while the hook had its step is over.
Cancelled ==
  /\ agent.cancelled /\ agent.at \in {"step", "tool"}
  /\ agent' = [Idle EXCEPT !.woken = agent.woken]
  /\ UNCHANGED <<row, cache, query, inbox, acted, done, held, sent>>

-----------------------------------------------------------------------------
(* The poll.                                                               *)

BeginRound(r) ==
  /\ query[r] = None
  /\ Lookup(r)
  /\ UNCHANGED <<row, cache, inbox, agent, acted, done, held, sent>>

actuationStep(previous, actuation) ==
  CASE actuation = "cancel" /\ previous # "cancel" -> "cancel"
    [] actuation = "run" /\ previous = "suspend" /\ Pending -> "wake"
    [] OTHER -> "none"

\* A running turn breaks off; an idle agent has nothing to cancel.
Cancel ==
  /\ agent' = IF agent.at = "idle" THEN agent
              ELSE IF agent.at = "asking" THEN [agent EXCEPT !.cancelled = TRUE]
              ELSE [Idle EXCEPT !.woken = agent.woken]
  /\ done' = [done EXCEPT !.cancels = @ + 1]
  /\ UNCHANGED <<inbox, sent>>

\* A notice is steered in, which starts an idle agent.
Wake ==
  /\ sent < MaxMessage
  /\ sent' = sent + 1
  /\ inbox' = [inbox EXCEPT !.step = Append(@, sent + 1)]
  /\ agent' = [agent EXCEPT !.woken = TRUE]
  /\ UNCHANGED done

EndRound(r) ==
  /\ Answered(r)
  /\ LET actuation == controlActuation(query[r].state)
         todo == actuationStep(acted, actuation)
     IN  /\ acted' = actuation
         /\ \/ todo = "cancel" /\ Cancel
            \/ todo = "wake" /\ Wake
            \/ todo = "none" /\ UNCHANGED <<inbox, agent, done, sent>>
  /\ UNCHANGED <<row, held>>

\* The query fails; the next round tries again.
RoundFails(r) ==
  /\ query[r] # None /\ ~query[r].hit
  /\ query' = [query EXCEPT ![r] = None]
  /\ UNCHANGED <<row, cache, inbox, agent, acted, done, held, sent>>

-----------------------------------------------------------------------------
Revision == IF row["s"] = NoRow THEN 0 ELSE row["s"].rev

\* A command takes effect.
Command(c) ==
  /\ Revision < MaxCommand
  /\ Log!Effect("s", "r", c, "p")
  /\ held' = [q \in Questions |-> IF Refused(q, row'["s"].state) THEN held[q] ELSE 0]
  /\ agent' = [agent EXCEPT !.since = IF Refused(agent.asks, row'["s"].state) THEN @ ELSE 0]
  /\ UNCHANGED <<cache, query, inbox, acted, done, sent>>

AtMost(n, limit) == IF n > limit THEN limit ELSE n

Tick ==
  /\ cache' = IF cache = None \/ cache.age + 1 >= Ttl THEN None ELSE [cache EXCEPT !.age = @ + 1]
  /\ query' = [r \in Readers |-> IF query[r] = None THEN None ELSE [query[r] EXCEPT !.age = AtMost(@ + 1, Ttl)]]
  /\ held' = [q \in Questions |-> IF Refused(q, State) THEN AtMost(held[q] + 1, Ttl) ELSE 0]
  /\ UNCHANGED <<row, inbox, agent, acted, done, sent>>

Hooks ==
  \/ BeginTurn \/ NextStep \/ EndTurn \/ DecideStep \/ DecideTool \/ ToolEnds \/ Cancelled
  \/ \E kind \in {"writes", "reads"} : CallTool(kind)

Poll(r) == BeginRound(r) \/ EndRound(r) \/ RoundFails(r)

ActuationNext ==
  \/ \E c \in Offered : Command(c)
  \/ \E list \in {"turn", "step"} : Send(list)
  \/ \E r \in Readers : ReadRow(r)
  \/ Hooks
  \/ \E r \in Round : Poll(r)
  \/ Tick

ActuationSpec == ActuationInit /\ [][ActuationNext]_actuationVars

-----------------------------------------------------------------------------
(* Properties.                                                             *)

Increasing(s) == \A i, j \in 1 .. Len(s) : i < j => s[i] < s[j]

\* Stopping is not forgetting: every message waits in one list, in the order in which the messages came, or is in the hands of
\* the hook, or was given to a step, whatever is refused, put back and cancelled ("claim is consumption", actuation.ts).
InputIsKept ==
  LET claimed == IF agent.at = "asking" /\ agent.asks = "step" THEN agent.claimed ELSE <<>>
      back == IF claimedTarget = "turn" THEN <<claimed \o inbox.turn, inbox.step>> ELSE <<inbox.turn, claimed \o inbox.step>>
  IN  /\ \A i \in 1 .. 2 : Increasing(back[i])
      /\ Range(back[1]) \cap Range(back[2]) = {}
      /\ (Range(back[1]) \cup Range(back[2])) \cap done.given = {}
      /\ Range(back[1]) \cup Range(back[2]) \cup done.given = 1 .. sent

\* A turn is broken off, which cannot be undone, only for a session that is aborted, and for ever, however old the reading was
\* ("cancel" in gate.ts; aborted is final, state.go).
OnlyAbortedIsCancelled == done.cancels > 0 => State = "aborted"

ActuationHolds == InputIsKept /\ OnlyAbortedIsCancelled

\* "A control command takes effect within the ttl" (index.ts, stateCache): no step and no tool is let through that had been
\* refused by the row for that long when it was asked for, and is still, however late the answers of queries come and whatever they
\* overwrite in the cache.
CommandsTakeEffect ==
  agent.at = "asking" /\ agent'.at \in {"step", "tool"} /\ (agent.asks = "step" \/ agent'.at = "tool") => agent.since < Ttl

\* Stated and not kept: "cancel is sent once for a state" (actuationStep). An older answer that comes after a newer one, in a
\* round that overlaps, makes the poll forget what it did.
CancelledOnce == done.cancels <= 1

\* Stated and not kept: nobody takes a step in a session whose abortion the poll has acted upon. pre-step lets the step pass,
\* and the poll cancels once.
AbortedTakesNoStep == acted = "cancel" /\ agent.at = "asking" => agent'.at # "step" \/ agent.asks # "step"

\* Stated and not kept: with a session that goes on, what was put back is taken up ("wake": the session was suspended before, and
\* input waits). The poll may have seen nothing of the suspension, or have come while a hook had the input in hand.
PutBackIsWoken ==
  Pending /\ agent.at = "idle" /\ ~agent.woken /\ State = "running" /\ (\A r \in Readers : query[r] = None) => acted # "run"
===============================================================================
