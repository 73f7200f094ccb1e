----------------------------- MODULE ToolJournal ----------------------------
(* The journal of tool calls.  Before a tool runs, the intent is written under *)
(* a key made of session, turn, tool and arguments; afterwards the outcome.    *)
(* A call that finds its key taken is a replay: of a completed call it is      *)
(* refused, of one without an outcome it needs somebody's consent, unless the  *)
(* tool may be repeated.  A session that is resumed, on this node or another,  *)
(* makes its calls again.  One key: calls with other keys share no state.      *)
EXTENDS Naturals, FiniteSets

CONSTANTS
    Call,       \* calls with one key, on whatever node and in whatever order
    Class,      \* how the tool may be classified
    MaxConfirm, \* bound: confirmations asked for
    None

VARIABLES
    class,     \* the tool: "idempotent", "non-idempotent", "unknown"
    row,       \* tool_call_journal: [status, confirmed], or None
    call,      \* per call: where its handler is
    executed,  \* the calls that reached the tool
    confirms,
    mercy      \* history: the calls that may repeat: an earlier one failed, or somebody consented

journalVars == <<class, row, call, executed, confirms, mercy>>

JournalInit ==
    /\ class \in Class /\ row = None
    /\ call = [c \in Call |-> "new"]
    /\ executed = {} /\ confirms = 0 /\ mercy = FALSE

Go(c, to) == call' = [call EXCEPT ![c] = to]

\* Mutant: a conflict is not told from an insertion.
InsertsAnyway == TRUE

\* recordIntent, its INSERT ... ON CONFLICT DO NOTHING
Inserts == row = None
RecordIntent(c) ==
    /\ call[c] = "new"
    /\ IF Inserts THEN row' = [status |-> "orphan", confirmed |-> FALSE] /\ Go(c, "pending")
       ELSE Go(c, "replay") /\ UNCHANGED row
    /\ UNCHANGED <<class, executed, confirms, mercy>>

\* Mutant: whatever has not completed is run again.
RunsUnfinished(status) == status # "completed"

\* ... and what it reads of the earlier one
Runs(status) == status = "failed"
ReadPrior(c) ==
    /\ call[c] = "replay"
    /\ Go(c, IF class = "idempotent" \/ Runs(row.status) THEN "pending"
             ELSE IF row.status = "completed" THEN "refused" ELSE "orphan")
    /\ UNCHANGED <<class, row, executed, confirms, mercy>>

\* adjudicateAsync: another statement, which looks for the consent only
Adjudicate(c) ==
    /\ call[c] = "orphan"
    /\ Go(c, IF row.confirmed THEN "pending" ELSE "refused")
    /\ UNCHANGED <<class, row, executed, confirms, mercy>>

\* the tool is reached
Execute(c) ==
    /\ call[c] = "pending"
    /\ Go(c, "running")
    /\ executed' = executed \cup {c}
    /\ UNCHANGED <<class, row, confirms, mercy>>

\* post-execute, recordOutcome: whatever the row says by now
RecordOutcome(c, status) ==
    /\ call[c] = "running"
    /\ row' = [row EXCEPT !.status = status]
    /\ mercy' = (mercy \/ status = "failed")
    /\ Go(c, status)
    /\ UNCHANGED <<class, executed, confirms>>

\* the node dies, or the journal is not reached: before the tool, while it runs, after it
Crash(c) ==
    /\ call[c] \in {"replay", "orphan", "pending", "running"}
    /\ Go(c, "lost")
    /\ UNCHANGED <<class, row, executed, confirms, mercy>>

\* confirm: only of what has no outcome
Consents == row # None /\ row.status = "orphan"
Confirm ==
    /\ confirms < MaxConfirm /\ Consents
    /\ row' = [row EXCEPT !.confirmed = TRUE]
    /\ confirms' = confirms + 1 /\ mercy' = TRUE
    /\ UNCHANGED <<class, call, executed>>

JournalNext ==
    \/ Confirm
    \/ \E c \in Call :
         \/ RecordIntent(c) \/ ReadPrior(c) \/ Adjudicate(c) \/ Execute(c) \/ Crash(c)
         \/ \E status \in {"completed", "failed"} : RecordOutcome(c, status)

JournalSpec == JournalInit /\ [][JournalNext]_journalVars

-----------------------------------------------------------------------------
(* Properties.                                                               *)

\* A tool that may not be repeated is reached once, however often the call is made, crashes and is made again on nodes that
\* know nothing of each other, unless an attempt was reported as failed or somebody consented (pre-execute); and what was
\* reached and has no outcome is found as an orphan (orphans, the danger zone of recovery.ts).
ReachedOnce ==
    /\ class # "idempotent" /\ ~mercy => Cardinality(executed) <= 1
    /\ executed # {} => row # None
    /\ (\E c \in executed : call[c] \in {"running", "lost"}) /\ ~mercy /\ class # "idempotent" => row.status = "orphan"

\* Stated and not kept: an attempt without an outcome is repeated with the consent of somebody only. The consent, and the
\* outcome of a failed attempt, stay in the row while the call is repeated, so an attempt lost after them is repeated unasked.
LostNeedsConsent ==
    class # "idempotent" =>
      Cardinality({c \in executed : call[c] \in {"running", "lost"}}) <= 1 + confirms
=============================================================================
