---------------------------- MODULE SessionControl ----------------------------
(***************************************************************************)
(* Control of sessions by several instances of session-control over one    *)
(* PostgreSQL: a pulse (one HTTP control request) takes its turn in the    *)
(* queue of the instance it reached, reads the state row, has the policy   *)
(* and the state machine judge it, and commits the verdict under the row   *)
(* lock if the row is still at the revision it read.  Nothing orders       *)
(* pulses of different instances, a pulse that holds its turn too long     *)
(* loses it and goes on, an instance may crash, and a commit may succeed   *)
(* without its caller learning so.                                         *)
(*                                                                         *)
(* The queue appears here by what ControlQueue is shown to provide: one    *)
(* owner per instance and session, handed on when given back or when held  *)
(* too long, and a grant that may race with its waiter's giving up.        *)
(***************************************************************************)
EXTENDS SessionState, Naturals, Sequences, TLC

CONSTANTS
  Session, Realm, Instance,
  Pulse,        \* control requests; each is submitted at most once
  Offered,      \* the commands the callers use
  MaxAttempts,  \* reads of the row before a pulse gives up on conflicts
  MaxFaults,    \* bound: store failures, lost acknowledgements and crashes
  NoRow, NoPulse

ASSUME ControlAssumption ==
  /\ Offered \subseteq Commands
  /\ MaxAttempts \in Nat \ {0}
  /\ MaxFaults \in Nat
  /\ NoPulse \notin Pulse
  /\ NoRow \notin [realm : Realm, state : States, rev : Nat,
                   last : Pulse \cup {NoPulse}, cmd : Commands \cup {NoCommand}]

VARIABLES
  row,      \* row[s]: the row of session_control_state, or NoRow
  audit,    \* audit[s]: the rows of session_control_audit, by id
  owner,    \* owner[i][s]: the pulse in effect for s on instance i
  pc,       \* pc[p]: where the handler of pulse p is
  req,      \* req[p]: the request p carries
  seen,     \* seen[p]: the row p read last
  verdict,  \* verdict[p]: what p is about to commit
  attempt,  \* attempt[p]: reads of the row so far
  answer,   \* answer[p]: what the caller of p was told
  faults    \* faults so far

vars == <<row, audit, owner, pc, req, seen, verdict, attempt, answer, faults>>

-----------------------------------------------------------------------------
Row == [realm : Realm, state : States, rev : Nat,
        last : Pulse \cup {NoPulse}, cmd : Commands \cup {NoCommand}]

\* The row a first command is judged against, and the one it creates.
FreshRow(r) == [realm |-> r, state |-> InitialState, rev |-> 0,
                last |-> NoPulse, cmd |-> NoCommand]

LegacyRows ==
  [realm : Realm, state : States \ {"awaiting-approval"}, rev : {0},
   last : {NoPulse}, cmd : {NoCommand}]

Outcomes == {"applied", "noop", "state_rejected", "policy_denied",
             "policy_unavailable", "realm_mismatch", "conflict", "busy"}

Request == [session : Session, realm : Realm, inst : Instance, cmd : Commands]
Verdict == [outcome : Outcomes, change : BOOLEAN, to : States]
AuditRow == [pulse : Pulse, realm : Realm, outcome : Outcomes,
             from : States, to : States, rev : Nat]
\* "none": not told yet, or never; "error": told that there is no conclusion.
Answer == [outcome : Outcomes \cup {"none", "error"}, registered : BOOLEAN, rev : Nat]

NoAnswer == [outcome |-> "none", registered |-> FALSE, rev |-> 0]
Failure  == [NoAnswer EXCEPT !.outcome = "error"]

\* A conclusion that leaves the row alone.
Refusal(o) == [outcome |-> o, change |-> FALSE, to |-> InitialState]

\* The policy's answers (OPA): a decision, or none to be had.
PolicyAnswers == {"allow", "deny", "unavailable"}

Places == {"idle", "waiting", "granted", "load", "commit", "insert",
           "record", "recordCommit", "recordInsert", "release", "done"}

Ses(p) == req[p].session
Ins(p) == req[p].inst
Goto(p, place) == pc' = [pc EXCEPT ![p] = place]

\* Something outside the program goes wrong in this step.
Fault == faults < MaxFaults /\ faults' = faults + 1

-----------------------------------------------------------------------------
Init ==
  /\ row \in [Session -> LegacyRows \cup {NoRow}]
  /\ audit = [s \in Session |-> <<>>]
  /\ owner = [i \in Instance |-> [s \in Session |-> NoPulse]]
  /\ pc = [p \in Pulse |-> "idle"]
  /\ req \in [Pulse -> [session : Session, realm : Realm, inst : Instance, cmd : Offered]]
  /\ seen = [p \in Pulse |-> FreshRow(req[p].realm)]
  /\ verdict = [p \in Pulse |-> Refusal("busy")]
  /\ attempt = [p \in Pulse |-> 0]
  /\ answer = [p \in Pulse |-> NoAnswer]
  /\ faults = 0

\* The turn of (i, s) goes to one of its waiters, or to nobody if there is
\* none; pcs are the places of the pulses otherwise.
Waiting(pcs, i, s) == {w \in Pulse : pcs[w] = "waiting" /\ Ins(w) = i /\ Ses(w) = s}

\* Faulty variant: the turn is left to whoever asks next.
PassOnToNobody(pcs, i, s) == owner' = [owner EXCEPT ![i][s] = NoPulse] /\ pc' = pcs

PassOn(pcs, i, s) ==
  \/ /\ Waiting(pcs, i, s) = {}
     /\ owner' = [owner EXCEPT ![i][s] = NoPulse]
     /\ pc' = pcs
  \/ \E w \in Waiting(pcs, i, s) :
       /\ owner' = [owner EXCEPT ![i][s] = w]
       /\ pc' = [pcs EXCEPT ![w] = "granted"]

\* Give the turn back; a pulse that has lost it gives nothing back.
LeaveTurn(p, place) ==
  LET pcs == [pc EXCEPT ![p] = place]
  IN  IF owner[Ins(p)][Ses(p)] = p
      THEN PassOn(pcs, Ins(p), Ses(p))
      ELSE pc' = pcs /\ UNCHANGED owner

-----------------------------------------------------------------------------
\* The request arrives: in effect at once if nobody is, else in the queue.
Submit(p) ==
  /\ pc[p] = "idle"
  /\ IF owner[Ins(p)][Ses(p)] = NoPulse
     THEN /\ owner' = [owner EXCEPT ![Ins(p)][Ses(p)] = p]
          /\ Goto(p, "load")
     ELSE /\ Goto(p, "waiting")
          /\ UNCHANGED owner
  /\ UNCHANGED <<row, audit, req, seen, verdict, attempt, answer, faults>>

\* The waiter notices that it was granted its turn.
Start(p) ==
  /\ pc[p] = "granted"
  /\ Goto(p, "load")
  /\ UNCHANGED <<row, audit, owner, req, seen, verdict, attempt, answer, faults>>

\* The wait ends (time limit, or the client is gone) and nothing was granted:
\* the attempt is answered busy, and recorded if it can be.
GiveUp(p) ==
  /\ pc[p] = "waiting"
  /\ verdict' = [verdict EXCEPT ![p] = Refusal("busy")]
  /\ answer' = [answer EXCEPT ![p] = [NoAnswer EXCEPT !.outcome = "busy"]]
  /\ Goto(p, "record")
  /\ UNCHANGED <<row, audit, owner, req, seen, attempt, faults>>

\* Faulty variant: the grant that crossed the time limit is forgotten.
GiveUpKeepingTurn(p) ==
  /\ pc[p] = "granted"
  /\ Goto(p, "done")
  /\ answer' = [answer EXCEPT ![p] = Failure]
  /\ UNCHANGED <<row, audit, owner, req, seen, verdict, attempt, faults>>

\* The wait ends as the turn is granted: the turn is given back, and the
\* error is not the one that stands for busy.
GiveUpGranted(p) ==
  /\ pc[p] = "granted"
  /\ LeaveTurn(p, "done")
  /\ answer' = [answer EXCEPT ![p] = Failure]
  /\ UNCHANGED <<row, audit, req, seen, verdict, attempt, faults>>

\* Faulty variant: a repeated command takes effect again.
JudgeRepeats(q, r, policy) ==
  IF policy # "allow" \/ ~Accepts(r.state, q.cmd) THEN Refusal("state_rejected")
  ELSE [outcome |-> "applied", change |-> TRUE, to |-> Target(r.state, q.cmd)]

\* What the controller concludes from a row and the policy's answer.
Judge(q, r, policy) ==
  IF policy = "unavailable" THEN Refusal("policy_unavailable")
  ELSE IF policy = "deny" THEN Refusal("policy_denied")
  ELSE IF ~Accepts(r.state, q.cmd) THEN Refusal("state_rejected")
  ELSE IF IsNoOp(r.state, q.cmd) THEN Refusal("noop")
  ELSE [outcome |-> "applied", change |-> TRUE, to |-> Target(r.state, q.cmd)]

\* Load and judge: another realm's session is refused before the policy is
\* asked, and that refusal is not recorded.
LoadAndDecide(p) ==
  /\ pc[p] = "load"
  /\ LET r == IF row[Ses(p)] = NoRow THEN FreshRow(req[p].realm) ELSE row[Ses(p)]
         told == [NoAnswer EXCEPT !.registered = row[Ses(p)] # NoRow, !.rev = r.rev]
     IN  /\ seen' = [seen EXCEPT ![p] = r]
         /\ attempt' = [attempt EXCEPT ![p] = @ + 1]
         /\ \/ /\ r.realm # req[p].realm
               /\ answer' = [answer EXCEPT ![p] = [told EXCEPT !.outcome = "realm_mismatch"]]
               /\ Goto(p, "release")
               /\ UNCHANGED verdict
            \/ /\ r.realm = req[p].realm
               /\ \E policy \in PolicyAnswers :
                    verdict' = [verdict EXCEPT ![p] = Judge(req[p], r, policy)]
               /\ answer' = [answer EXCEPT ![p] = told]
               /\ Goto(p, "commit")
  /\ UNCHANGED <<row, audit, owner, req, faults>>

-----------------------------------------------------------------------------
(* The commit transaction.  A verdict that changes the row creates it first *)
(* if need be; one that does not creates nothing.                           *)

LockedRow(p) == IF row[Ses(p)] = NoRow THEN FreshRow(req[p].realm) ELSE row[Ses(p)]
HasRow(p)    == row[Ses(p)] # NoRow \/ verdict[p].change

AuditOf(p, from, to, rev) ==
  [pulse |-> p, realm |-> req[p].realm, outcome |-> verdict[p].outcome,
   from |-> from, to |-> to, rev |-> rev]

Concluded(p, rev) ==
  answer' = [answer EXCEPT ![p] =
               [outcome |-> verdict[p].outcome, registered |-> TRUE, rev |-> rev]]

\* Faulty variants: the revision read is reported instead of the one written;
\* an error of the commit is taken for a reason to try again.
ConcludeStale(p, rev) ==
  Concluded(p, seen[p].rev) /\ Goto(p, "release") /\ UNCHANGED faults
ConcludeOrRetry(p, rev) ==
  \/ Concluded(p, rev) /\ Goto(p, "release") /\ UNCHANGED faults
  \/ UNCHANGED answer /\ Goto(p, "load") /\ Fault

\* The commit went through.  The caller may still be told of an error, when
\* the commit was done and its acknowledgement lost.
Conclude(p, rev) ==
  /\ \/ Concluded(p, rev) /\ UNCHANGED faults
     \/ answer' = [answer EXCEPT ![p] = Failure] /\ Fault
  /\ Goto(p, "release")

\* Faulty variant of the preconditions below.
NotChecked(p) == TRUE

\* Preconditions of the write, under the row lock.
SameRealm(p)    == LockedRow(p).realm = req[p].realm
SameRevision(p) == LockedRow(p).rev = seen[p].rev

CommitRealmMismatch(p) ==
  /\ pc[p] = "commit" /\ HasRow(p) /\ ~SameRealm(p)
  /\ answer' = [answer EXCEPT ![p].outcome = "realm_mismatch"]
  /\ Goto(p, "release")
  /\ UNCHANGED <<row, audit, owner, req, seen, verdict, attempt, faults>>

\* Faulty variant: one read too many.
OneMoreTry(p) == attempt[p] <= MaxAttempts

TriesLeft(p) == attempt[p] < MaxAttempts

\* The row moved since it was read: read it again, or after MaxAttempts reads
\* conclude so and record that.
CommitConflict(p) ==
  /\ pc[p] = "commit" /\ HasRow(p) /\ SameRealm(p) /\ ~SameRevision(p)
  /\ IF TriesLeft(p)
     THEN Goto(p, "load") /\ UNCHANGED <<verdict, answer>>
     ELSE /\ verdict' = [verdict EXCEPT ![p] = Refusal("conflict")]
          /\ answer' = [answer EXCEPT ![p].outcome = "conflict"]
          /\ Goto(p, "record")
  /\ UNCHANGED <<row, audit, owner, req, seen, attempt, faults>>

\* The effect: state, revision and audit row in one transaction.
CommitChange(p) ==
  /\ pc[p] = "commit" /\ verdict[p].change /\ SameRealm(p) /\ SameRevision(p)
  /\ LET new == [realm |-> LockedRow(p).realm, state |-> verdict[p].to,
                 rev |-> LockedRow(p).rev + 1, last |-> p, cmd |-> req[p].cmd]
     IN  /\ row' = [row EXCEPT ![Ses(p)] = new]
         /\ audit' = [audit EXCEPT ![Ses(p)] =
                        Append(@, AuditOf(p, seen[p].state, verdict[p].to, new.rev))]
         /\ Conclude(p, new.rev)
  /\ UNCHANGED <<owner, req, seen, verdict, attempt>>

\* A verdict without effect on a session that has a row: audit only.
CommitVerdict(p) ==
  /\ pc[p] = "commit" /\ ~verdict[p].change /\ row[Ses(p)] # NoRow
  /\ SameRealm(p) /\ SameRevision(p)
  /\ audit' = [audit EXCEPT ![Ses(p)] =
                 Append(@, AuditOf(p, seen[p].state, row[Ses(p)].state, row[Ses(p)].rev))]
  /\ Conclude(p, row[Ses(p)].rev)
  /\ UNCHANGED <<row, owner, req, seen, verdict, attempt>>

\* A verdict without effect that finds no row has nothing to lock: the row may
\* appear before the audit row is in.
FindNoRow(p) ==
  /\ pc[p] = "commit" /\ ~verdict[p].change /\ row[Ses(p)] = NoRow
  /\ Goto(p, "insert")
  /\ UNCHANGED <<row, audit, owner, req, seen, verdict, attempt, answer, faults>>

InsertUnlocked(p) ==
  /\ pc[p] = "insert"
  /\ audit' = [audit EXCEPT ![Ses(p)] =
                 Append(@, AuditOf(p, seen[p].state, seen[p].state, 0))]
  /\ Conclude(p, 0)
  /\ UNCHANGED <<row, owner, req, seen, verdict, attempt>>

\* The database refuses the read or the commit: no conclusion.
StoreFails(p) ==
  /\ pc[p] \in {"load", "commit", "insert"}
  /\ answer' = [answer EXCEPT ![p] = Failure]
  /\ Goto(p, "release")
  /\ Fault
  /\ UNCHANGED <<row, audit, owner, req, seen, verdict, attempt>>

-----------------------------------------------------------------------------
(* recordVerdict: an attempt that did not take its turn, or ran out of      *)
(* reads, is recorded at the revision the row has by then, if it can be.    *)

\* A conflict still holds its turn and gives it back; a busy one has none.
AfterRecord(p) == IF answer[p].outcome = "conflict" THEN "release" ELSE "done"

RecordLoad(p) ==
  /\ pc[p] = "record"
  /\ seen' = [seen EXCEPT ![p] = LockedRow(p)]
  /\ Goto(p, "recordCommit")
  /\ UNCHANGED <<row, audit, owner, req, verdict, attempt, answer, faults>>

RecordCommit(p) ==
  /\ pc[p] = "recordCommit" /\ row[Ses(p)] # NoRow
  /\ SameRealm(p) /\ SameRevision(p)
  /\ audit' = [audit EXCEPT ![Ses(p)] =
                 Append(@, AuditOf(p, seen[p].state, row[Ses(p)].state, row[Ses(p)].rev))]
  /\ Goto(p, AfterRecord(p))
  /\ UNCHANGED <<row, owner, req, seen, verdict, attempt, answer, faults>>

RecordFindNoRow(p) ==
  /\ pc[p] = "recordCommit" /\ row[Ses(p)] = NoRow
  /\ Goto(p, "recordInsert")
  /\ UNCHANGED <<row, audit, owner, req, seen, verdict, attempt, answer, faults>>

RecordInsert(p) ==
  /\ pc[p] = "recordInsert"
  /\ audit' = [audit EXCEPT ![Ses(p)] =
                 Append(@, AuditOf(p, seen[p].state, seen[p].state, 0))]
  /\ Goto(p, AfterRecord(p))
  /\ UNCHANGED <<row, owner, req, seen, verdict, attempt, answer, faults>>

\* Faulty variant: a refused trace is tried again.
RecordRefusedAgain(p) ==
  /\ pc[p] = "recordCommit" /\ row[Ses(p)] # NoRow
  /\ ~(SameRealm(p) /\ SameRevision(p))
  /\ Goto(p, "record")
  /\ UNCHANGED <<row, audit, owner, req, seen, verdict, attempt, answer, faults>>

\* The realm is another's, or the row moved again: the trace is lost and the
\* conclusion stands.
RecordRefused(p) ==
  /\ pc[p] = "recordCommit" /\ row[Ses(p)] # NoRow
  /\ ~(SameRealm(p) /\ SameRevision(p))
  /\ Goto(p, AfterRecord(p))
  /\ UNCHANGED <<row, audit, owner, req, seen, verdict, attempt, answer, faults>>

\* So it is when the store fails.
RecordLost(p) ==
  /\ pc[p] \in {"record", "recordCommit", "recordInsert"}
  /\ Goto(p, AfterRecord(p))
  /\ Fault
  /\ UNCHANGED <<row, audit, owner, req, seen, verdict, attempt, answer>>

-----------------------------------------------------------------------------
\* The handler returns and its deferred Release runs.
Release(p) ==
  /\ pc[p] = "release"
  /\ LeaveTurn(p, "done")
  /\ UNCHANGED <<row, audit, req, seen, verdict, attempt, answer, faults>>

\* A turn held for longer than MaxHold goes to the next waiter; its holder is
\* not stopped.
Evict(i, s) ==
  /\ owner[i][s] # NoPulse
  /\ PassOn(pc, i, s)
  /\ UNCHANGED <<row, audit, req, seen, verdict, attempt, answer, faults>>

\* An instance dies with its queue and its handlers; the rows stay.
Crash(i) ==
  /\ \E p \in Pulse : Ins(p) = i /\ pc[p] \notin {"idle", "done"}
  /\ owner' = [owner EXCEPT ![i] = [s \in Session |-> NoPulse]]
  /\ pc' = [p \in Pulse |-> IF Ins(p) = i /\ pc[p] # "idle" THEN "done" ELSE pc[p]]
  /\ answer' = [p \in Pulse |->
                  IF Ins(p) = i /\ pc[p] \notin {"idle", "done"} THEN NoAnswer ELSE answer[p]]
  /\ Fault
  /\ UNCHANGED <<row, audit, req, seen, verdict, attempt>>

\* Every request has been dealt with.
Quiet == (\A p \in Pulse : pc[p] = "done") /\ UNCHANGED vars

Commit(p) ==
  \/ CommitRealmMismatch(p) \/ CommitConflict(p) \/ CommitChange(p)
  \/ CommitVerdict(p) \/ FindNoRow(p) \/ InsertUnlocked(p)

Record(p) ==
  \/ RecordLoad(p) \/ RecordCommit(p) \/ RecordFindNoRow(p)
  \/ RecordInsert(p) \/ RecordRefused(p) \/ RecordLost(p)

Handle(p) ==
  \/ Start(p) \/ GiveUp(p) \/ GiveUpGranted(p) \/ LoadAndDecide(p)
  \/ Commit(p) \/ StoreFails(p) \/ Record(p) \/ Release(p)

Next ==
  \/ \E p \in Pulse : Submit(p) \/ Handle(p)
  \/ \E i \in Instance : Crash(i) \/ \E s \in Session : Evict(i, s)
  \/ Quiet

Spec == Init /\ [][Next]_vars

\* A handler that has begun goes on: its goroutine is scheduled, its wait is
\* bounded by a timer, and the database answers or fails.
FairSpec == Spec /\ \A p \in Pulse : WF_vars(Handle(p))

-----------------------------------------------------------------------------
(* Properties *)

\* Every variable has its type.
TypeOK ==
  /\ row \in [Session -> Row \cup {NoRow}]
  /\ audit \in [Session -> Seq(AuditRow)]
  /\ owner \in [Instance -> [Session -> Pulse \cup {NoPulse}]]
  /\ pc \in [Pulse -> Places]
  /\ req \in [Pulse -> Request]
  /\ seen \in [Pulse -> Row]
  /\ verdict \in [Pulse -> Verdict]
  /\ attempt \in [Pulse -> 0..MaxAttempts]
  /\ answer \in [Pulse -> Answer]
  /\ faults \in 0..MaxFaults

Applied(s) == {k \in DOMAIN audit[s] : audit[s][k].outcome = "applied"}

\* The audit replays the row: the applied entries of a session carry each
\* revision up to the row's exactly once and in order, each one starts in the
\* state the previous one left, and the last one left the row as it is.  No
\* update of one instance is lost under, or slipped past, another's (the CAS
\* and the single transaction of store.Commit).
AuditReplays(s) ==
  /\ \A k \in Applied(s) : row[s] # NoRow /\ audit[s][k].rev \in 1..row[s].rev
  /\ row[s] # NoRow =>
       \A n \in 1..row[s].rev : \E k \in Applied(s) : audit[s][k].rev = n
  /\ \A j, k \in Applied(s) :
       /\ j < k => audit[s][j].rev < audit[s][k].rev
       /\ audit[s][k].rev = audit[s][j].rev + 1 => audit[s][k].from = audit[s][j].to
  /\ \A k \in Applied(s) : audit[s][k].rev = row[s].rev =>
       /\ audit[s][k].to = row[s].state
       /\ audit[s][k].pulse = row[s].last
       /\ audit[s][k].realm = row[s].realm
AuditReplaysRow == \A s \in Session : AuditReplays(s)

EffectsOf(p) == {k \in Applied(Ses(p)) : audit[Ses(p)][k].pulse = p}

\* A request takes effect at most once, however often its verdict had to be
\* reached again (the retry loop of Execute).
OneEffectPerRequest == \A p \in Pulse : \A j, k \in EffectsOf(p) : j = k

\* What the caller is told is what the audit says: a conclusion of the
\* controller is on record at the revision told, and a caller told anything
\* but "applied" or an error had no effect.
AnswerMatchesAudit ==
  \A p \in Pulse : pc[p] = "done" =>
    /\ answer[p].outcome \in {"applied", "noop", "state_rejected",
                              "policy_denied", "policy_unavailable"} =>
         \E k \in DOMAIN audit[Ses(p)] :
           LET a == audit[Ses(p)][k]
           IN  a.pulse = p /\ a.outcome = answer[p].outcome /\ a.rev = answer[p].rev
    /\ answer[p].outcome \notin {"applied", "error", "none"} => EffectsOf(p) = {}

\* Once a session has a revision, only its own realm gets into its timeline
\* (the isolation check of store.Commit, on every path that writes).
AuditStaysInRealm ==
  \A s \in Session : \A k \in DOMAIN audit[s] :
    audit[s][k].rev > 0 => audit[s][k].realm = row[s].realm

\* A turn belongs to a handler that is still going to give it back: neither a
\* grant that raced with giving up nor a crash leaves it to nobody, so a
\* session is never blocked until MaxHold for a pulse that has gone home.
TurnHasHolder ==
  \A i \in Instance, s \in Session :
    LET p == owner[i][s]
    IN  p # NoPulse =>
          /\ Ins(p) = i /\ Ses(p) = s
          /\ pc[p] \notin {"idle", "waiting", "done"}
          /\ pc[p] \in {"record", "recordCommit", "recordInsert"} =>
               answer[p].outcome = "conflict"

\* Nobody waits for a turn that is free: every way of leaving it hands it on.
NoFreeTurnWhileWaiting ==
  \A p \in Pulse : pc[p] = "waiting" => owner[Ins(p)][Ses(p)] # NoPulse

\* No turn is wasted, on a handler gone home or on nobody.
TurnsAreCared == TurnHasHolder /\ NoFreeTurnWhileWaiting

\* The audit tells the callers' story, and no other realm's.
AuditIsTrue == AnswerMatchesAudit /\ AuditStaysInRealm

\* The rows implement the serial log of effects.
Log == INSTANCE ControlLog
ControlLogSpec == Log!Spec

\* Every request that was submitted has been answered (or its instance died).
AllAnswered == \A p \in Pulse : pc[p] \in {"idle", "done"}

-----------------------------------------------------------------------------
(* The inductive invariant: why the audit replays the row. *)

\* A pulse that may still read the row has reads left.
TriesCounted(p) ==
  /\ pc[p] \in {"idle", "waiting", "granted"} => attempt[p] = 0
  /\ pc[p] = "load" => attempt[p] < MaxAttempts
TriesAreCounted == \A p \in Pulse : TriesCounted(p)

\* What a pulse has read and not yet acted on is the row, or older than it;
\* equal revisions mean equal rows, which is what the CAS relies on.
SeenPast(p) ==
  pc[p] \in {"commit", "insert", "recordCommit", "recordInsert"} =>
    IF row[Ses(p)] = NoRow
    THEN seen[p] = FreshRow(req[p].realm)
    ELSE /\ seen[p].rev <= row[Ses(p)].rev
         /\ seen[p].rev = row[Ses(p)].rev => seen[p] = row[Ses(p)]
SeenIsPast == \A p \in Pulse : SeenPast(p)

\* A verdict that changes the row is the one the row read deserves; only such
\* a one is called "applied".
VerdictSound(p) ==
  /\ pc[p] = "commit" /\ verdict[p].change =>
       /\ verdict[p].outcome = "applied"
       /\ seen[p].realm = req[p].realm
       /\ TakesEffect(seen[p].state, req[p].cmd)
       /\ verdict[p].to = Target(seen[p].state, req[p].cmd)
  /\ \/ pc[p] = "commit" /\ ~verdict[p].change
     \/ pc[p] \in {"insert", "record", "recordCommit", "recordInsert"}
     => verdict[p].outcome # "applied"
VerdictIsSound == \A p \in Pulse : VerdictSound(p)

\* A pulse that is not through with its commit has had no effect, and one that
\* is had at most one.
EffectsInPlace(p) ==
  /\ pc[p] \notin {"release", "done"} => EffectsOf(p) = {}
  /\ \A j, k \in EffectsOf(p) : j = k
EffectsAreInPlace == \A p \in Pulse : EffectsInPlace(p)

\* The invariant that steps preserve: together the parts say that the audit
\* can be replayed and that each request is in it at most once.
IInv ==
  /\ TypeOK /\ TriesAreCounted /\ SeenIsPast /\ VerdictIsSound
  /\ AuditReplaysRow /\ EffectsAreInPlace

-----------------------------------------------------------------------------
(* Small instances.                                                        *)

\* Requests, instances and realms are interchangeable.
Symmetry == Permutations(Pulse) \cup Permutations(Instance) \cup Permutations(Realm)
===============================================================================
