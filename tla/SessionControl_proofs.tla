-------------------------- MODULE SessionControl_proofs ------------------------
(***************************************************************************)
(* Proofs about SessionControl, for any number of sessions, instances,     *)
(* realms, requests, attempts and faults.                                  *)
(***************************************************************************)
EXTENDS SessionControl, TLAPS

-----------------------------------------------------------------------------
(* Types *)

\* A command leads from a state to a state.
LEMMA TargetType ==
  ASSUME NEW s \in States, NEW c \in Commands
  PROVE  Target(s, c) \in States
BY DEF Target, States, Commands

LEMMA FreshRowType ==
  ASSUME NEW r \in Realm
  PROVE  FreshRow(r) \in Row
BY DEF FreshRow, Row, InitialState, States

LEMMA RefusalType ==
  ASSUME NEW o \in Outcomes
  PROVE  Refusal(o) \in Verdict
BY DEF Refusal, Verdict, InitialState, States

\* The row a commit finds locked is a row.
LEMMA LockedRowType ==
  ASSUME TypeOK, NEW p \in Pulse
  PROVE  LockedRow(p) \in Row
<1>1. req[p] \in Request /\ Ses(p) \in Session /\ req[p].realm \in Realm
  BY DEF TypeOK, Request, Ses
<1>2. row[Ses(p)] \in Row \cup {NoRow}
  BY <1>1 DEF TypeOK
<1>. QED BY <1>1, <1>2, FreshRowType DEF LockedRow

\* A turn given to x.
LEMMA OwnerType ==
  ASSUME TypeOK, NEW i \in Instance, NEW s \in Session, NEW x \in Pulse \cup {NoPulse}
  PROVE  [owner EXCEPT ![i][s] = x] \in [Instance -> [Session -> Pulse \cup {NoPulse}]]
BY DEF TypeOK

\* Handing a turn on changes places and owners within their types.
LEMMA PassOnType ==
  ASSUME TypeOK, NEW i \in Instance, NEW s \in Session,
         NEW pcs \in [Pulse -> Places], PassOn(pcs, i, s)
  PROVE  /\ owner' \in [Instance -> [Session -> Pulse \cup {NoPulse}]]
         /\ pc' \in [Pulse -> Places]
<1>2. CASE owner' = [owner EXCEPT ![i][s] = NoPulse] /\ pc' = pcs
  BY <1>2, OwnerType
<1>3. ASSUME NEW w \in Waiting(pcs, i, s),
             owner' = [owner EXCEPT ![i][s] = w],
             pc' = [pcs EXCEPT ![w] = "granted"]
      PROVE  /\ owner' \in [Instance -> [Session -> Pulse \cup {NoPulse}]]
             /\ pc' \in [Pulse -> Places]
  <2>1. w \in Pulse
    BY DEF Waiting
  <2>. QED BY <1>3, <2>1, OwnerType DEF Places
<1>. QED BY <1>2, <1>3 DEF PassOn

\* Giving the turn back changes places and owners within their types.
LEMMA LeaveTurnType ==
  ASSUME TypeOK, NEW p \in Pulse, NEW place \in Places, LeaveTurn(p, place)
  PROVE  /\ owner' \in [Instance -> [Session -> Pulse \cup {NoPulse}]]
         /\ pc' \in [Pulse -> Places]
<1> DEFINE pcs == [pc EXCEPT ![p] = place]
<1>1. pcs \in [Pulse -> Places]
  BY DEF TypeOK
<1>2. Ins(p) \in Instance /\ Ses(p) \in Session
  BY DEF TypeOK, Request, Ins, Ses
<1>3. CASE PassOn(pcs, Ins(p), Ses(p))
  <2>. HIDE DEF pcs
  <2>. QED BY <1>1, <1>2, <1>3, PassOnType
<1>4. CASE pc' = pcs /\ UNCHANGED owner
  BY <1>1, <1>4 DEF TypeOK
<1>. QED BY <1>3, <1>4 DEF LeaveTurn

\* What the controller concludes is a verdict.
LEMMA JudgeType ==
  ASSUME NEW q \in Request, NEW r \in Row, NEW policy \in PolicyAnswers
  PROVE  Judge(q, r, policy) \in Verdict
<1>1. q.cmd \in Commands /\ r.state \in States
  BY DEF Request, Row
<1>2. Target(r.state, q.cmd) \in States
  BY <1>1, TargetType
<1>. QED BY <1>2, RefusalType DEF Judge, Verdict, Outcomes, Refusal, InitialState, States

LEMMA InitType == Init => TypeOK
<1>. SUFFICES ASSUME Init PROVE TypeOK
  OBVIOUS
<1>1. LegacyRows \subseteq Row
  BY DEF LegacyRows, Row
<1>2. row \in [Session -> Row \cup {NoRow}]
  BY <1>1 DEF Init
<1>3. req \in [Pulse -> Request]
  BY ControlAssumption DEF Init, Request
<1>4. seen \in [Pulse -> Row]
  BY <1>3, FreshRowType DEF Init, Request
<1>5. verdict \in [Pulse -> Verdict]
  BY RefusalType DEF Init, Outcomes
<1>6. answer \in [Pulse -> Answer]
  BY DEF Init, Answer, NoAnswer
<1>7. /\ attempt \in [Pulse -> 0..MaxAttempts]
      /\ faults \in 0..MaxFaults
      /\ pc \in [Pulse -> Places]
  BY ControlAssumption DEF Init, Places
<1>8. /\ audit \in [Session -> Seq(AuditRow)]
      /\ owner \in [Instance -> [Session -> Pulse \cup {NoPulse}]]
  BY DEF Init
<1>. QED BY <1>2, <1>3, <1>4, <1>5, <1>6, <1>7, <1>8 DEF TypeOK

\* An answer that follows a commit, or the error in its stead, is an answer.
LEMMA ConcludeType ==
  ASSUME TypeOK, NEW p \in Pulse, NEW rev \in Nat, Conclude(p, rev)
  PROVE  /\ answer' \in [Pulse -> Answer]
         /\ faults' \in 0..MaxFaults
         /\ pc' \in [Pulse -> Places]
<1>1. verdict[p].outcome \in Outcomes
  BY DEF TypeOK, Verdict
<1>2. [outcome |-> verdict[p].outcome, registered |-> TRUE, rev |-> rev] \in Answer
  BY <1>1 DEF Answer
<1>3. Failure \in Answer
  BY DEF Answer, Failure, NoAnswer
<1>4. answer \in [Pulse -> Answer] /\ faults \in 0..MaxFaults /\ pc \in [Pulse -> Places]
  BY DEF TypeOK
<1>5. answer' \in [Pulse -> Answer]
  BY <1>2, <1>3, <1>4 DEF Conclude, Concluded
<1>6. faults' \in 0..MaxFaults
  BY <1>4, ControlAssumption DEF Conclude, Fault
<1>7. pc' \in [Pulse -> Places]
  BY <1>4 DEF Conclude, Goto, Places
<1>. QED BY <1>5, <1>6, <1>7

\* An audit row appended to a session's audit keeps the audit's type.
LEMMA AuditType ==
  ASSUME TypeOK, NEW p \in Pulse, NEW from \in States, NEW to \in States, NEW rev \in Nat,
         audit' = [audit EXCEPT ![Ses(p)] = Append(@, AuditOf(p, from, to, rev))]
  PROVE  audit' \in [Session -> Seq(AuditRow)]
<1>1. AuditOf(p, from, to, rev) \in AuditRow
  BY DEF AuditOf, AuditRow, TypeOK, Verdict, Request
<1>2. audit \in [Session -> Seq(AuditRow)] /\ Ses(p) \in Session
  BY DEF TypeOK, Request, Ses
<1>. QED BY <1>1, <1>2

\* The variables a handler's own moves leave alone, and its new place.
LEMMA GotoType ==
  ASSUME TypeOK, NEW p \in Pulse, NEW place \in Places, Goto(p, place)
  PROVE  pc' \in [Pulse -> Places]
BY DEF TypeOK, Goto

LEMMA AfterRecordType ==
  ASSUME NEW p \in Pulse
  PROVE  AfterRecord(p) \in Places
BY DEF AfterRecord, Places

LEMMA NextType == TypeOK /\ TriesAreCounted /\ [Next]_vars => TypeOK'
<1>. SUFFICES ASSUME TypeOK, TriesAreCounted, [Next]_vars PROVE TypeOK'
  OBVIOUS
<1>. USE DEF Places
<1>1. ASSUME NEW p \in Pulse, Submit(p) PROVE TypeOK'
  <2>1. Ins(p) \in Instance /\ Ses(p) \in Session
    BY DEF TypeOK, Request, Ins, Ses
  <2>2. pc' \in [Pulse -> Places]
    BY <1>1, GotoType DEF Submit
  <2>3. \/ owner' = [owner EXCEPT ![Ins(p)][Ses(p)] = p]
        \/ owner' = owner
    BY <1>1 DEF Submit
  <2>5. owner' \in [Instance -> [Session -> Pulse \cup {NoPulse}]]
    <3>1. CASE owner' = [owner EXCEPT ![Ins(p)][Ses(p)] = p]
      BY <2>1, <3>1, OwnerType
    <3>2. CASE owner' = owner
      BY <3>2 DEF TypeOK
    <3>. QED BY <2>3, <3>1, <3>2
  <2>4. UNCHANGED <<row, audit, req, seen, verdict, attempt, answer, faults>>
    BY <1>1 DEF Submit
  <2>. QED BY <2>2, <2>4, <2>5 DEF TypeOK
<1>2. ASSUME NEW p \in Pulse, Start(p) PROVE TypeOK'
  BY <1>2, GotoType DEF Start, TypeOK
<1>3. ASSUME NEW p \in Pulse, GiveUp(p) PROVE TypeOK'
  <2>1. Refusal("busy") \in Verdict /\ [NoAnswer EXCEPT !.outcome = "busy"] \in Answer
    BY RefusalType DEF Outcomes, Answer, NoAnswer
  <2>. QED BY <1>3, <2>1, GotoType DEF GiveUp, TypeOK
<1>4. ASSUME NEW p \in Pulse, GiveUpGranted(p) PROVE TypeOK'
  <2>1. Failure \in Answer
    BY DEF Answer, Failure, NoAnswer
  <2>2. LeaveTurn(p, "done")
    BY <1>4 DEF GiveUpGranted
  <2>3. pc' \in [Pulse -> Places] /\ owner' \in [Instance -> [Session -> Pulse \cup {NoPulse}]]
    BY <2>2, LeaveTurnType
  <2>. QED BY <1>4, <2>1, <2>3 DEF GiveUpGranted, TypeOK
<1>5. ASSUME NEW p \in Pulse, LoadAndDecide(p) PROVE TypeOK'
  <2> DEFINE r == LockedRow(p)
             told == [NoAnswer EXCEPT !.registered = row[Ses(p)] # NoRow, !.rev = r.rev]
  <2>1. r \in Row /\ r.rev \in Nat
    BY LockedRowType DEF Row
  <2>2. told \in Answer /\ [told EXCEPT !.outcome = "realm_mismatch"] \in Answer
    BY <2>1 DEF Answer, NoAnswer, Outcomes
  <2>3. seen' = [seen EXCEPT ![p] = r]
    BY <1>5 DEF LoadAndDecide, LockedRow
  <2>4. attempt' \in [Pulse -> 0..MaxAttempts]
    <3>1. attempt[p] < MaxAttempts /\ attempt' = [attempt EXCEPT ![p] = @ + 1]
      BY <1>5 DEF LoadAndDecide, TriesAreCounted, TriesCounted
    <3>. QED BY <3>1, ControlAssumption DEF TypeOK
  <2>5. UNCHANGED <<row, audit, owner, req, faults>>
    BY <1>5 DEF LoadAndDecide
  <2>6. CASE /\ answer' = [answer EXCEPT ![p] = [told EXCEPT !.outcome = "realm_mismatch"]]
             /\ Goto(p, "release")
             /\ UNCHANGED verdict
    <3>. HIDE DEF told
    <3>1. answer' \in [Pulse -> Answer]
      BY <2>2, <2>6 DEF TypeOK
    <3>. QED BY <2>1, <2>3, <2>4, <2>5, <2>6, <3>1, GotoType DEF TypeOK
  <2>7. ASSUME NEW policy \in PolicyAnswers,
               verdict' = [verdict EXCEPT ![p] = Judge(req[p], r, policy)],
               answer' = [answer EXCEPT ![p] = told],
               Goto(p, "commit")
        PROVE  TypeOK'
    <3>. HIDE DEF told
    <3>1. answer' \in [Pulse -> Answer]
      BY <2>2, <2>7 DEF TypeOK
    <3>2. req[p] \in Request
      BY DEF TypeOK
    <3>3. verdict' \in [Pulse -> Verdict]
      BY <2>1, <2>7, <3>2, JudgeType DEF TypeOK
    <3>. QED BY <2>1, <2>3, <2>4, <2>5, <2>7, <3>1, <3>3, GotoType DEF TypeOK
  <2>. QED BY <1>5, <2>6, <2>7 DEF LoadAndDecide, LockedRow
<1>6. ASSUME NEW p \in Pulse, CommitRealmMismatch(p) PROVE TypeOK'
  <2>1. answer' \in [Pulse -> Answer]
    BY <1>6 DEF CommitRealmMismatch, TypeOK, Answer, Outcomes
  <2>. QED BY <1>6, <2>1, GotoType DEF CommitRealmMismatch, TypeOK
<1>7. ASSUME NEW p \in Pulse, CommitConflict(p) PROVE TypeOK'
  <2>1. UNCHANGED <<row, audit, owner, req, seen, attempt, faults>>
    BY <1>7 DEF CommitConflict
  <2>2. CASE TriesLeft(p)
    BY <1>7, <2>1, <2>2, GotoType DEF CommitConflict, TypeOK
  <2>3. CASE ~TriesLeft(p)
    <3>1. /\ verdict' = [verdict EXCEPT ![p] = Refusal("conflict")]
          /\ answer' = [answer EXCEPT ![p].outcome = "conflict"]
          /\ Goto(p, "record")
      BY <1>7, <2>3 DEF CommitConflict
    <3>2. verdict' \in [Pulse -> Verdict]
      BY <3>1, RefusalType DEF TypeOK, Outcomes
    <3>3. answer' \in [Pulse -> Answer]
      BY <3>1 DEF TypeOK, Answer, Outcomes
    <3>. QED BY <2>1, <3>1, <3>2, <3>3, GotoType DEF TypeOK
  <2>. QED BY <2>2, <2>3
<1>8. ASSUME NEW p \in Pulse, CommitChange(p) PROVE TypeOK'
  <2> DEFINE new == [realm |-> LockedRow(p).realm, state |-> verdict[p].to,
                     rev |-> LockedRow(p).rev + 1, last |-> p, cmd |-> req[p].cmd]
  <2>1. new \in Row /\ new.rev \in Nat /\ verdict[p].to \in States /\ seen[p].state \in States
    BY LockedRowType DEF TypeOK, Row, Verdict, Request
  <2>2. row' = [row EXCEPT ![Ses(p)] = new] /\ Conclude(p, new.rev)
    BY <1>8 DEF CommitChange
  <2>3. audit' = [audit EXCEPT ![Ses(p)] =
                    Append(@, AuditOf(p, seen[p].state, verdict[p].to, new.rev))]
    BY <1>8 DEF CommitChange
  <2>. HIDE DEF new
  <2>4. row' \in [Session -> Row \cup {NoRow}]
    BY <2>1, <2>2 DEF TypeOK
  <2>5. audit' \in [Session -> Seq(AuditRow)]
    BY <2>1, <2>3, AuditType
  <2>6. answer' \in [Pulse -> Answer] /\ faults' \in 0..MaxFaults /\ pc' \in [Pulse -> Places]
    BY <2>1, <2>2, ConcludeType
  <2>. QED BY <1>8, <2>4, <2>5, <2>6 DEF CommitChange, TypeOK
<1>9. ASSUME NEW p \in Pulse, CommitVerdict(p) PROVE TypeOK'
  <2>1. row[Ses(p)] \in Row /\ seen[p].state \in States
    BY <1>9 DEF CommitVerdict, TypeOK, Row, Request, Ses
  <2>2. row[Ses(p)].state \in States /\ row[Ses(p)].rev \in Nat
    BY <2>1 DEF Row
  <2>3. audit' \in [Session -> Seq(AuditRow)]
    BY <1>9, <2>1, <2>2, AuditType DEF CommitVerdict
  <2>4. answer' \in [Pulse -> Answer] /\ faults' \in 0..MaxFaults /\ pc' \in [Pulse -> Places]
    BY <1>9, <2>2, ConcludeType DEF CommitVerdict
  <2>5. UNCHANGED <<row, owner, req, seen, verdict, attempt>>
    BY <1>9 DEF CommitVerdict
  <2>. QED BY <2>3, <2>4, <2>5 DEF TypeOK
<1>10. ASSUME NEW p \in Pulse, FindNoRow(p) PROVE TypeOK'
  BY <1>10, GotoType DEF FindNoRow, TypeOK
<1>11. ASSUME NEW p \in Pulse, InsertUnlocked(p) PROVE TypeOK'
  <2>1. seen[p].state \in States
    BY DEF TypeOK, Row
  <2>2. audit' \in [Session -> Seq(AuditRow)]
    BY <1>11, <2>1, AuditType DEF InsertUnlocked
  <2>3. answer' \in [Pulse -> Answer] /\ faults' \in 0..MaxFaults /\ pc' \in [Pulse -> Places]
    BY <1>11, ConcludeType DEF InsertUnlocked
  <2>4. UNCHANGED <<row, owner, req, seen, verdict, attempt>>
    BY <1>11 DEF InsertUnlocked
  <2>. QED BY <2>2, <2>3, <2>4 DEF TypeOK
<1>12. ASSUME NEW p \in Pulse, StoreFails(p) PROVE TypeOK'
  <2>1. Failure \in Answer
    BY DEF Answer, Failure, NoAnswer
  <2>2. faults' \in 0..MaxFaults
    BY <1>12, ControlAssumption DEF StoreFails, Fault, TypeOK
  <2>. QED BY <1>12, <2>1, <2>2, GotoType DEF StoreFails, TypeOK
<1>13. ASSUME NEW p \in Pulse, RecordLoad(p) PROVE TypeOK'
  BY <1>13, GotoType, LockedRowType DEF RecordLoad, TypeOK
<1>14. ASSUME NEW p \in Pulse, RecordCommit(p) PROVE TypeOK'
  <2>1. row[Ses(p)] \in Row /\ seen[p].state \in States
    BY <1>14 DEF RecordCommit, TypeOK, Row, Request, Ses
  <2>2. row[Ses(p)].state \in States /\ row[Ses(p)].rev \in Nat
    BY <2>1 DEF Row
  <2>3. audit' \in [Session -> Seq(AuditRow)]
    BY <1>14, <2>1, <2>2, AuditType DEF RecordCommit
  <2>4. pc' \in [Pulse -> Places]
    BY <1>14, GotoType, AfterRecordType DEF RecordCommit
  <2>5. UNCHANGED <<row, owner, req, seen, verdict, attempt, answer, faults>>
    BY <1>14 DEF RecordCommit
  <2>. QED BY <2>3, <2>4, <2>5 DEF TypeOK
<1>15. ASSUME NEW p \in Pulse, RecordFindNoRow(p) PROVE TypeOK'
  BY <1>15, GotoType DEF RecordFindNoRow, TypeOK
<1>16. ASSUME NEW p \in Pulse, RecordInsert(p) PROVE TypeOK'
  <2>1. seen[p].state \in States
    BY DEF TypeOK, Row
  <2>2. audit' \in [Session -> Seq(AuditRow)]
    BY <1>16, <2>1, AuditType DEF RecordInsert
  <2>3. pc' \in [Pulse -> Places]
    BY <1>16, GotoType, AfterRecordType DEF RecordInsert
  <2>4. UNCHANGED <<row, owner, req, seen, verdict, attempt, answer, faults>>
    BY <1>16 DEF RecordInsert
  <2>. QED BY <2>2, <2>3, <2>4 DEF TypeOK
<1>17. ASSUME NEW p \in Pulse, RecordRefused(p) PROVE TypeOK'
  BY <1>17, GotoType, AfterRecordType DEF RecordRefused, TypeOK
<1>18. ASSUME NEW p \in Pulse, RecordLost(p) PROVE TypeOK'
  <2>1. faults' \in 0..MaxFaults
    BY <1>18, ControlAssumption DEF RecordLost, Fault, TypeOK
  <2>. QED BY <1>18, <2>1, GotoType, AfterRecordType DEF RecordLost, TypeOK
<1>19. ASSUME NEW p \in Pulse, Release(p) PROVE TypeOK'
  <2>1. pc' \in [Pulse -> Places] /\ owner' \in [Instance -> [Session -> Pulse \cup {NoPulse}]]
    BY <1>19, LeaveTurnType DEF Release
  <2>. QED BY <1>19, <2>1 DEF Release, TypeOK
<1>20. ASSUME NEW i \in Instance, NEW s \in Session, Evict(i, s) PROVE TypeOK'
  <2>1. pc \in [Pulse -> Places]
    BY DEF TypeOK
  <2>2. pc' \in [Pulse -> Places] /\ owner' \in [Instance -> [Session -> Pulse \cup {NoPulse}]]
    BY <1>20, <2>1, PassOnType DEF Evict
  <2>. QED BY <1>20, <2>2 DEF Evict, TypeOK
<1>21. ASSUME NEW i \in Instance, Crash(i) PROVE TypeOK'
  <2>1. faults' \in 0..MaxFaults
    BY <1>21, ControlAssumption DEF Crash, Fault, TypeOK
  <2>2. owner' \in [Instance -> [Session -> Pulse \cup {NoPulse}]]
    BY <1>21 DEF Crash, TypeOK
  <2>3. pc' \in [Pulse -> Places]
    BY <1>21 DEF Crash, TypeOK
  <2>4. NoAnswer \in Answer
    BY DEF Answer, NoAnswer
  <2>5. answer' \in [Pulse -> Answer]
    BY <1>21, <2>4 DEF Crash, TypeOK
  <2>. QED BY <1>21, <2>1, <2>2, <2>3, <2>5 DEF Crash, TypeOK
<1>22. CASE UNCHANGED vars
  BY <1>22 DEF vars, TypeOK
<1>. QED
  BY <1>1, <1>2, <1>3, <1>4, <1>5, <1>6, <1>7, <1>8, <1>9, <1>10, <1>11, <1>12, <1>13,
     <1>14, <1>15, <1>16, <1>17, <1>18, <1>19, <1>20, <1>21, <1>22
  DEF Next, Handle, Commit, Record, Quiet

-----------------------------------------------------------------------------
(* How handlers move *)

\* A turn that is handed on moves only waiters, to where they were granted it.
LEMMA PassOnMoves ==
  ASSUME NEW i \in Instance, NEW s \in Session, NEW pcs \in [Pulse -> Places],
         PassOn(pcs, i, s), NEW q \in Pulse
  PROVE  \/ pc'[q] = pcs[q]
         \/ pcs[q] = "waiting" /\ pc'[q] = "granted"
BY DEF PassOn, Waiting, Places

LEMMA LeaveTurnMoves ==
  ASSUME TypeOK, NEW p \in Pulse, NEW place \in Places, LeaveTurn(p, place), NEW q \in Pulse
  PROVE  \/ pc'[q] = IF q = p THEN place ELSE pc[q]
         \/ pc[q] = "waiting" /\ pc'[q] = "granted"
         \/ q = p /\ place = "waiting" /\ pc'[q] = "granted"
<1> DEFINE pcs == [pc EXCEPT ![p] = place]
<1>1. pcs \in [Pulse -> Places] /\ pcs[q] = IF q = p THEN place ELSE pc[q]
  BY DEF TypeOK
<1>2. Ins(p) \in Instance /\ Ses(p) \in Session
  BY DEF TypeOK, Request, Ins, Ses
<1>3. CASE PassOn(pcs, Ins(p), Ses(p))
  <2>. HIDE DEF pcs
  <2>. QED BY <1>1, <1>2, <1>3, PassOnMoves
<1>4. CASE pc' = pcs
  BY <1>1, <1>4
<1>. QED BY <1>3, <1>4 DEF LeaveTurn

LEMMA NextTries == TypeOK /\ TriesAreCounted /\ [Next]_vars => TriesAreCounted'
<1>. SUFFICES ASSUME TypeOK, TriesAreCounted, [Next]_vars, NEW q \in Pulse
              PROVE  TriesCounted(q)'
  BY DEF TriesAreCounted
<1>0. /\ pc \in [Pulse -> Places]
      /\ attempt \in [Pulse -> 0..MaxAttempts]
      /\ TriesCounted(q)
      /\ 0 < MaxAttempts
  BY ControlAssumption DEF TypeOK, TriesAreCounted
<1>1. ASSUME NEW p \in Pulse, Submit(p) \/ Start(p) \/ GiveUp(p)
      PROVE  TriesCounted(q)'
  BY <1>0, <1>1 DEF Submit, Start, GiveUp, Goto, TriesCounted
<1>2. ASSUME NEW p \in Pulse, GiveUpGranted(p) \/ Release(p)
      PROVE  TriesCounted(q)'
  BY <1>0, <1>2, LeaveTurnMoves DEF GiveUpGranted, Release, Places, TriesCounted
<1>3. ASSUME NEW p \in Pulse, LoadAndDecide(p)
      PROVE  TriesCounted(q)'
  BY <1>0, <1>3 DEF LoadAndDecide, Goto, TriesCounted
<1>4. ASSUME NEW p \in Pulse, CommitConflict(p)
      PROVE  TriesCounted(q)'
  BY <1>0, <1>4 DEF CommitConflict, Goto, TriesLeft, TriesCounted
<1>5. ASSUME NEW p \in Pulse,
             CommitRealmMismatch(p) \/ CommitChange(p) \/ CommitVerdict(p) \/ FindNoRow(p)
               \/ InsertUnlocked(p) \/ StoreFails(p) \/ Record(p)
      PROVE  TriesCounted(q)'
  BY <1>0, <1>5
  DEF CommitRealmMismatch, CommitChange, CommitVerdict, FindNoRow, InsertUnlocked, StoreFails,
      Record, RecordLoad, RecordCommit, RecordFindNoRow, RecordInsert, RecordRefused,
      RecordLost, Conclude, Goto, AfterRecord, TriesCounted
<1>6. ASSUME NEW i \in Instance, NEW s \in Session, Evict(i, s)
      PROVE  TriesCounted(q)'
  BY <1>0, <1>6, PassOnMoves DEF Evict, TriesCounted
<1>7. ASSUME NEW i \in Instance, Crash(i)
      PROVE  TriesCounted(q)'
  BY <1>0, <1>7 DEF Crash, TriesCounted
<1>8. CASE UNCHANGED vars
  BY <1>0, <1>8 DEF vars, TriesCounted
<1>. QED
  BY <1>1, <1>2, <1>3, <1>4, <1>5, <1>6, <1>7, <1>8 DEF Next, Handle, Commit, Quiet

-----------------------------------------------------------------------------
(* The audit *)

\* The applied rows of a session and what they say are those of before if a
\* row that is not an applied one, or a row of another session, is appended.
LEMMA AppendUnapplied ==
  ASSUME TypeOK, NEW p \in Pulse, NEW a \in AuditRow, a.outcome # "applied",
         audit' = [audit EXCEPT ![Ses(p)] = Append(@, a)],
         NEW s \in Session
  PROVE  /\ Applied(s)' = Applied(s)
         /\ \A k \in Applied(s) : audit'[s][k] = audit[s][k]
<1>1. audit \in [Session -> Seq(AuditRow)] /\ Ses(p) \in Session
  BY DEF TypeOK, Request, Ses
<1>2. CASE s = Ses(p)
  <2>1. audit[s] \in Seq(AuditRow) /\ audit'[s] = Append(audit[s], a)
    BY <1>1, <1>2
  <2>. QED BY <2>1 DEF Applied
<1>3. CASE s # Ses(p)
  BY <1>1, <1>3 DEF Applied
<1>. QED BY <1>2, <1>3

LEMMA AuditReplaysKept ==
  ASSUME NEW s \in Session, AuditReplays(s), row'[s] = row[s],
         Applied(s)' = Applied(s),
         \A k \in Applied(s) : audit'[s][k] = audit[s][k]
  PROVE  AuditReplays(s)'
BY DEF AuditReplays

LEMMA NextSeen == IInv /\ [Next]_vars => SeenIsPast'
<1>. SUFFICES ASSUME IInv, [Next]_vars, NEW q \in Pulse
              PROVE  SeenPast(q)'
  BY DEF SeenIsPast
<1>0. /\ pc \in [Pulse -> Places]
      /\ seen \in [Pulse -> Row]
      /\ SeenPast(q)
      /\ TypeOK
  BY DEF IInv, TypeOK, SeenIsPast
<1>1. ASSUME NEW p \in Pulse, Submit(p) \/ Start(p) \/ GiveUp(p)
      PROVE  SeenPast(q)'
  BY <1>0, <1>1 DEF Submit, Start, GiveUp, Goto, SeenPast, Ses
<1>2. ASSUME NEW p \in Pulse, GiveUpGranted(p) \/ Release(p)
      PROVE  SeenPast(q)'
  BY <1>0, <1>2, LeaveTurnMoves DEF GiveUpGranted, Release, Places, SeenPast, Ses
<1>3. ASSUME NEW p \in Pulse, LoadAndDecide(p) \/ RecordLoad(p)
      PROVE  SeenPast(q)'
  <2>1. /\ seen' = [seen EXCEPT ![p] = LockedRow(p)]
        /\ UNCHANGED <<row, req>>
        /\ \A r \in Pulse : r # p => pc'[r] = pc[r]
    BY <1>0, <1>3 DEF LoadAndDecide, RecordLoad, LockedRow, Goto
  <2>2. CASE q = p
    <3>1. seen'[q] = LockedRow(q)
      BY <1>0, <2>1, <2>2
    <3>2. row[Ses(q)] # NoRow => row[Ses(q)].rev \in Nat
      BY <1>0 DEF TypeOK, Request, Ses, Row
    <3>. QED BY <2>1, <3>1, <3>2 DEF SeenPast, LockedRow, Ses
  <2>3. CASE q # p
    BY <1>0, <2>1, <2>3 DEF SeenPast, Ses
  <2>. QED BY <2>2, <2>3
<1>4. ASSUME NEW p \in Pulse,
             CommitRealmMismatch(p) \/ CommitConflict(p) \/ CommitVerdict(p) \/ FindNoRow(p)
               \/ InsertUnlocked(p) \/ StoreFails(p) \/ RecordCommit(p)
               \/ RecordFindNoRow(p) \/ RecordInsert(p) \/ RecordRefused(p) \/ RecordLost(p)
      PROVE  SeenPast(q)'
  BY <1>0, <1>4
  DEF CommitRealmMismatch, CommitConflict, CommitVerdict, FindNoRow, InsertUnlocked, StoreFails,
      RecordCommit, RecordFindNoRow, RecordInsert, RecordRefused,
      RecordLost, Conclude, Goto, AfterRecord, SeenPast, Ses
<1>5. ASSUME NEW p \in Pulse, CommitChange(p)
      PROVE  SeenPast(q)'
  <2> DEFINE new == [realm |-> LockedRow(p).realm, state |-> verdict[p].to,
                     rev |-> LockedRow(p).rev + 1, last |-> p, cmd |-> req[p].cmd]
  <2>1. /\ row' = [row EXCEPT ![Ses(p)] = new]
        /\ UNCHANGED <<seen, req>>
        /\ pc' = [pc EXCEPT ![p] = "release"]
    BY <1>5 DEF CommitChange, Conclude, Goto
  <2>2. LockedRow(p).rev \in Nat /\ new.rev = LockedRow(p).rev + 1
    BY <1>0, LockedRowType DEF Row
  <2>3. new # NoRow
    BY <1>0, LockedRowType, ControlAssumption DEF TypeOK, Row, Verdict, Request
  <2>. HIDE DEF new
  <2>4. Ses(p) \in Session /\ Ses(q) \in Session /\ Ses(q)' = Ses(q)
    BY <1>0, <2>1 DEF TypeOK, Request, Ses
  <2>5. CASE q = p
    BY <1>0, <2>1, <2>5 DEF SeenPast
  <2>6. CASE q # p /\ Ses(q) = Ses(p) /\ pc[q] \in {"commit", "insert", "recordCommit", "recordInsert"}
    <3>1. row'[Ses(q)] = new
      BY <1>0, <2>1, <2>4, <2>6 DEF TypeOK
    <3>2. seen[q].rev \in Nat /\ FreshRow(req[q].realm).rev = 0
      BY <1>0 DEF Row, FreshRow
    <3>3. seen[q].rev <= LockedRow(p).rev
      BY <1>0, <2>2, <2>6, <3>2 DEF SeenPast, LockedRow, FreshRow
    <3>4. seen[q].rev < new.rev
      BY <2>2, <3>2, <3>3
    <3>. QED BY <2>1, <2>2, <2>3, <2>4, <3>1, <3>2, <3>4 DEF SeenPast
  <2>7. CASE q # p /\ Ses(q) # Ses(p)
    BY <1>0, <2>1, <2>4, <2>7 DEF SeenPast, TypeOK
  <2>8. CASE q # p /\ pc[q] \notin {"commit", "insert", "recordCommit", "recordInsert"}
    BY <1>0, <2>1, <2>8 DEF SeenPast
  <2>. QED BY <2>5, <2>6, <2>7, <2>8
<1>6. ASSUME NEW i \in Instance, NEW s \in Session, Evict(i, s)
      PROVE  SeenPast(q)'
  BY <1>0, <1>6, PassOnMoves DEF Evict, SeenPast, Ses
<1>7. ASSUME NEW i \in Instance, Crash(i)
      PROVE  SeenPast(q)'
  BY <1>0, <1>7 DEF Crash, SeenPast, Ses
<1>8. CASE UNCHANGED vars
  BY <1>0, <1>8 DEF vars, SeenPast, Ses
<1>. QED
  BY <1>1, <1>2, <1>3, <1>4, <1>5, <1>6, <1>7, <1>8
  DEF Next, Handle, Commit, Record, Quiet

LEMMA NextVerdict == IInv /\ [Next]_vars => VerdictIsSound'
<1>. SUFFICES ASSUME IInv, [Next]_vars, NEW q \in Pulse
              PROVE  VerdictSound(q)'
  BY DEF VerdictIsSound
<1>0. /\ pc \in [Pulse -> Places]
      /\ seen \in [Pulse -> Row]
      /\ verdict \in [Pulse -> Verdict]
      /\ VerdictSound(q)
      /\ TypeOK
  BY DEF IInv, TypeOK, VerdictIsSound
<1>1. ASSUME NEW p \in Pulse, Submit(p) \/ Start(p)
      PROVE  VerdictSound(q)'
  BY <1>0, <1>1 DEF Submit, Start, Goto, VerdictSound
<1>2. ASSUME NEW p \in Pulse, GiveUp(p)
      PROVE  VerdictSound(q)'
  <2>1. /\ verdict' = [verdict EXCEPT ![p] = Refusal("busy")]
        /\ pc' = [pc EXCEPT ![p] = "record"]
        /\ UNCHANGED <<seen, req>>
    BY <1>2 DEF GiveUp, Goto
  <2>2. Refusal("busy").outcome # "applied"
    BY DEF Refusal
  <2>. QED BY <1>0, <2>1, <2>2 DEF VerdictSound
<1>3. ASSUME NEW p \in Pulse, GiveUpGranted(p) \/ Release(p)
      PROVE  VerdictSound(q)'
  BY <1>0, <1>3, LeaveTurnMoves DEF GiveUpGranted, Release, Places, VerdictSound
<1>4. ASSUME NEW p \in Pulse, LoadAndDecide(p)
      PROVE  VerdictSound(q)'
  <2>1. /\ seen' = [seen EXCEPT ![p] = LockedRow(p)]
        /\ UNCHANGED req
    BY <1>4 DEF LoadAndDecide, LockedRow
  <2>2. CASE Goto(p, "release") /\ UNCHANGED verdict
    BY <1>0, <2>1, <2>2 DEF VerdictSound, Goto
  <2>3. ASSUME NEW policy \in PolicyAnswers,
               LockedRow(p).realm = req[p].realm,
               verdict' = [verdict EXCEPT ![p] = Judge(req[p], LockedRow(p), policy)],
               Goto(p, "commit")
        PROVE  VerdictSound(q)'
    <3>1. CASE q # p
      BY <1>0, <2>1, <2>3, <3>1 DEF VerdictSound, Goto
    <3>2. CASE q = p
      <4>1. verdict'[q] = Judge(req[q], LockedRow(q), policy) /\ seen'[q] = LockedRow(q)
            /\ pc'[q] = "commit" /\ req' = req
        BY <1>0, <2>1, <2>3, <3>2 DEF Goto
      <4>. QED BY <2>3, <3>2, <4>1 DEF VerdictSound, Judge, Refusal, TakesEffect
    <3>. QED BY <3>1, <3>2
  <2>. QED BY <1>4, <2>2, <2>3 DEF LoadAndDecide, LockedRow
<1>5. ASSUME NEW p \in Pulse, CommitConflict(p)
      PROVE  VerdictSound(q)'
  <2>1. UNCHANGED <<seen, req>>
    BY <1>5 DEF CommitConflict
  <2>2. CASE Goto(p, "load") /\ UNCHANGED verdict
    BY <1>0, <2>1, <2>2 DEF VerdictSound, Goto
  <2>3. CASE Goto(p, "record") /\ verdict' = [verdict EXCEPT ![p] = Refusal("conflict")]
    BY <1>0, <2>1, <2>3 DEF VerdictSound, Goto, Refusal
  <2>. QED BY <1>5, <2>2, <2>3 DEF CommitConflict
<1>6. ASSUME NEW p \in Pulse,
             CommitRealmMismatch(p) \/ CommitChange(p) \/ CommitVerdict(p) \/ FindNoRow(p)
               \/ InsertUnlocked(p) \/ StoreFails(p) \/ RecordCommit(p)
               \/ RecordFindNoRow(p) \/ RecordInsert(p) \/ RecordRefused(p) \/ RecordLost(p)
      PROVE  VerdictSound(q)'
  BY <1>0, <1>6
  DEF CommitRealmMismatch, CommitChange, CommitVerdict, FindNoRow, InsertUnlocked, StoreFails,
      RecordCommit, RecordFindNoRow, RecordInsert, RecordRefused,
      RecordLost, Conclude, Goto, AfterRecord, VerdictSound
<1>7. ASSUME NEW p \in Pulse, RecordLoad(p)
      PROVE  VerdictSound(q)'
  BY <1>0, <1>7 DEF RecordLoad, Goto, VerdictSound
<1>8. ASSUME NEW i \in Instance, NEW s \in Session, Evict(i, s)
      PROVE  VerdictSound(q)'
  BY <1>0, <1>8, PassOnMoves DEF Evict, VerdictSound
<1>9. ASSUME NEW i \in Instance, Crash(i)
      PROVE  VerdictSound(q)'
  BY <1>0, <1>9 DEF Crash, VerdictSound
<1>10. CASE UNCHANGED vars
  BY <1>0, <1>10 DEF vars, VerdictSound
<1>. QED
  BY <1>1, <1>2, <1>3, <1>4, <1>5, <1>6, <1>7, <1>8, <1>9, <1>10
  DEF Next, Handle, Commit, Record, Quiet

\* The effect's audit row is the applied row of the next revision.
LEMMA ChangeReplays ==
  ASSUME IInv, NEW p \in Pulse, CommitChange(p), NEW s \in Session, s = Ses(p)
  PROVE  AuditReplays(s)'
<1> DEFINE base == LockedRow(p)
           new == [realm |-> base.realm, state |-> verdict[p].to,
                   rev |-> base.rev + 1, last |-> p, cmd |-> req[p].cmd]
           a == AuditOf(p, seen[p].state, verdict[p].to, base.rev + 1)
           n == Len(audit[s]) + 1
<1>1. /\ TypeOK /\ SeenPast(p) /\ VerdictSound(p)
      /\ AuditReplays(s)
  BY DEF IInv, AuditReplaysRow, SeenIsPast, VerdictIsSound
<1>2. /\ base \in Row /\ base.rev \in Nat /\ seen[p] \in Row
      /\ verdict[p] \in Verdict /\ req[p].cmd \in Commands
  BY <1>1, LockedRowType DEF Row, TypeOK, Request
<1>3. seen[p] = base
  BY <1>1, <1>2 DEF CommitChange, SameRevision, SeenPast, LockedRow
<1>4. /\ row'[s] = new
      /\ audit'[s] = Append(audit[s], a)
      /\ audit[s] \in Seq(AuditRow)
  BY <1>1, <1>2 DEF CommitChange, TypeOK
<1>5. /\ a.outcome = "applied" /\ a.pulse = p /\ a.realm = base.realm /\ a.rev = base.rev + 1
      /\ a.from = base.state /\ a.to = verdict[p].to
  BY <1>1, <1>3 DEF AuditOf, VerdictSound, CommitChange
<1>6. new # NoRow /\ new.rev = base.rev + 1 /\ new.state = verdict[p].to
      /\ new.last = p /\ new.realm = base.realm
  BY <1>2, ControlAssumption DEF Row, Verdict
<1>. HIDE DEF base, new, a
<1>7. /\ Applied(s)' = Applied(s) \cup {n}
      /\ audit'[s][n] = a
      /\ \A k \in Applied(s) : k \in 1..(n - 1) /\ audit'[s][k] = audit[s][k]
  BY <1>1, <1>4, <1>5 DEF Applied
<1>8. /\ \A k \in Applied(s) : audit[s][k].rev \in 1..base.rev
      /\ \A m \in 1..base.rev : \E k \in Applied(s) : audit[s][k].rev = m
      /\ \A k \in Applied(s) : audit[s][k].rev = base.rev => audit[s][k].to = base.state
  BY <1>1, <1>2 DEF AuditReplays, LockedRow, FreshRow, base
<1>9. n \in Nat
  BY <1>4
<1>10. \A k \in Applied(s)' : row'[s] # NoRow /\ audit'[s][k].rev \in 1..row'[s].rev
  BY <1>2, <1>4, <1>5, <1>6, <1>7, <1>8
<1>11. \A m \in 1..row'[s].rev : \E k \in Applied(s)' : audit'[s][k].rev = m
  BY <1>2, <1>4, <1>5, <1>6, <1>7, <1>8
<1>12. \A j, k \in Applied(s)' :
         /\ j < k => audit'[s][j].rev < audit'[s][k].rev
         /\ audit'[s][k].rev = audit'[s][j].rev + 1 => audit'[s][k].from = audit'[s][j].to
  <2>. HIDE DEF n
  <2>. SUFFICES ASSUME NEW j \in Applied(s)', NEW k \in Applied(s)'
                PROVE  /\ j < k => audit'[s][j].rev < audit'[s][k].rev
                       /\ audit'[s][k].rev = audit'[s][j].rev + 1 => audit'[s][k].from = audit'[s][j].to
    OBVIOUS
  <2>1. CASE j \in Applied(s) /\ k \in Applied(s)
    BY <1>1, <1>7, <2>1 DEF AuditReplays
  <2>2. CASE j \in Applied(s) /\ k = n
    <3>1. audit'[s][j].rev \in 1..base.rev /\ audit'[s][k].rev = base.rev + 1
      BY <1>5, <1>7, <1>8, <2>2
    <3>2. audit'[s][j].rev = base.rev => audit'[s][j].to = audit'[s][k].from
      BY <1>5, <1>7, <1>8, <2>2
    <3>. QED BY <1>2, <3>1, <3>2
  <2>3. CASE j = n /\ k \in Applied(s)
    <3>1. k \in 1..(n - 1) /\ audit'[s][k].rev \in 1..base.rev /\ audit'[s][j].rev = base.rev + 1
      BY <1>5, <1>7, <1>8, <2>3
    <3>. QED BY <1>2, <1>9, <2>3, <3>1
  <2>4. CASE j = n /\ k = n
    <3>1. audit'[s][k].rev \in Nat /\ audit'[s][j].rev = audit'[s][k].rev
      BY <1>2, <1>5, <1>7, <2>4
    <3>. QED BY <1>9, <2>4, <3>1
  <2>. QED BY <1>7, <2>1, <2>2, <2>3, <2>4
<1>13. \A k \in Applied(s)' : audit'[s][k].rev = row'[s].rev =>
         /\ audit'[s][k].to = row'[s].state
         /\ audit'[s][k].pulse = row'[s].last
         /\ audit'[s][k].realm = row'[s].realm
  BY <1>2, <1>4, <1>5, <1>6, <1>7, <1>8
<1>. QED BY <1>10, <1>11, <1>12, <1>13 DEF AuditReplays

\* The steps that append a row which is not an applied one.
LEMMA UnappliedRow ==
  ASSUME IInv, NEW p \in Pulse,
         CommitVerdict(p) \/ InsertUnlocked(p) \/ RecordCommit(p) \/ RecordInsert(p)
  PROVE  /\ \E a \in AuditRow : /\ a.outcome # "applied"
                                /\ audit' = [audit EXCEPT ![Ses(p)] = Append(@, a)]
         /\ UNCHANGED <<row, req>>
<1>1. TypeOK /\ VerdictSound(p)
  BY DEF IInv, VerdictIsSound
<1>2. /\ seen[p].state \in States /\ verdict[p].outcome \in Outcomes
      /\ req[p].realm \in Realm /\ Ses(p) \in Session
  BY <1>1 DEF TypeOK, Row, Verdict, Request, Ses
<1>3. verdict[p].outcome # "applied" /\ UNCHANGED <<row, req>>
  BY <1>1 DEF VerdictSound, CommitVerdict, InsertUnlocked, RecordCommit, RecordInsert
<1>4. CASE CommitVerdict(p) \/ RecordCommit(p)
  <2> DEFINE a == AuditOf(p, seen[p].state, row[Ses(p)].state, row[Ses(p)].rev)
  <2>1. row[Ses(p)] \in Row
    BY <1>1, <1>2, <1>4 DEF CommitVerdict, RecordCommit, TypeOK
  <2>2. a \in AuditRow /\ a.outcome # "applied"
    BY <1>2, <1>3, <2>1 DEF AuditOf, AuditRow, Row
  <2>3. audit' = [audit EXCEPT ![Ses(p)] = Append(@, a)]
    BY <1>4 DEF CommitVerdict, RecordCommit
  <2>. QED BY <1>3, <2>2, <2>3
<1>5. CASE InsertUnlocked(p) \/ RecordInsert(p)
  <2> DEFINE a == AuditOf(p, seen[p].state, seen[p].state, 0)
  <2>1. a \in AuditRow /\ a.outcome # "applied"
    BY <1>2, <1>3 DEF AuditOf, AuditRow
  <2>2. audit' = [audit EXCEPT ![Ses(p)] = Append(@, a)]
    BY <1>5 DEF InsertUnlocked, RecordInsert
  <2>. QED BY <1>3, <2>1, <2>2
<1>. QED BY <1>4, <1>5

\* What a step does to row and audit: an effect, a row that is not an applied
\* one, or nothing.
LEMMA StepKinds ==
  ASSUME IInv, [Next]_vars
  PROVE  \/ \E p \in Pulse : CommitChange(p)
         \/ \E p \in Pulse : /\ CommitVerdict(p) \/ InsertUnlocked(p)
                                  \/ RecordCommit(p) \/ RecordInsert(p)
         \/ UNCHANGED <<row, audit, req>>
BY DEF Next, vars, Quiet, Handle, Commit, Record, Submit, Start, GiveUp, GiveUpGranted,
       LoadAndDecide, CommitRealmMismatch, CommitConflict, FindNoRow, StoreFails, RecordLoad,
       RecordFindNoRow, RecordRefused, RecordLost, Release, Evict, Crash

LEMMA NextAudit == IInv /\ [Next]_vars => AuditReplaysRow'
<1>. SUFFICES ASSUME IInv, [Next]_vars, NEW s \in Session
              PROVE  AuditReplays(s)'
  BY DEF AuditReplaysRow
<1>1. TypeOK /\ AuditReplays(s)
  BY DEF IInv, AuditReplaysRow
<1>2. ASSUME NEW p \in Pulse, CommitChange(p) PROVE AuditReplays(s)'
  <2>1. CASE s = Ses(p)
    BY <1>2, <2>1, ChangeReplays
  <2>2. CASE s # Ses(p)
    <3>1. row'[s] = row[s] /\ audit'[s] = audit[s]
      BY <1>1, <1>2, <2>2 DEF CommitChange, TypeOK, Request, Ses
    <3>2. Applied(s)' = Applied(s)
      BY <3>1 DEF Applied
    <3>. QED BY <1>1, <3>1, <3>2, AuditReplaysKept
  <2>. QED BY <2>1, <2>2
<1>3. ASSUME NEW p \in Pulse,
             CommitVerdict(p) \/ InsertUnlocked(p) \/ RecordCommit(p) \/ RecordInsert(p)
      PROVE  AuditReplays(s)'
  <2>1. PICK a \in AuditRow : /\ a.outcome # "applied"
                              /\ audit' = [audit EXCEPT ![Ses(p)] = Append(@, a)]
    BY <1>3, UnappliedRow
  <2>2. row' = row
    BY <1>3, UnappliedRow
  <2>. QED BY <1>1, <2>1, <2>2, AppendUnapplied, AuditReplaysKept
<1>4. CASE UNCHANGED <<row, audit, req>>
  BY <1>1, <1>4 DEF AuditReplays, Applied
<1>. QED BY <1>2, <1>3, <1>4, StepKinds

\* A handler that is through with its commit does not come back to it.
LEMMA NoWayBack ==
  ASSUME IInv, [Next]_vars, NEW q \in Pulse, pc[q] \in {"release", "done"}
  PROVE  pc'[q] \in {"release", "done"}
<1>0. pc \in [Pulse -> Places] /\ TypeOK
  BY DEF IInv, TypeOK
<1>1. ASSUME NEW p \in Pulse, GiveUpGranted(p) \/ Release(p)
      PROVE  pc'[q] \in {"release", "done"}
  BY <1>0, <1>1, LeaveTurnMoves DEF GiveUpGranted, Release, Places
<1>2. ASSUME NEW i \in Instance, NEW s \in Session, Evict(i, s)
      PROVE  pc'[q] \in {"release", "done"}
  BY <1>0, <1>2, PassOnMoves DEF Evict
<1>3. ASSUME NEW i \in Instance, Crash(i)
      PROVE  pc'[q] \in {"release", "done"}
  BY <1>0, <1>3 DEF Crash
<1>4. ASSUME NEW p \in Pulse,
             Submit(p) \/ Start(p) \/ GiveUp(p) \/ LoadAndDecide(p) \/ Commit(p)
               \/ StoreFails(p) \/ Record(p)
      PROVE  pc'[q] \in {"release", "done"}
  BY <1>0, <1>4
  DEF Submit, Start, GiveUp, LoadAndDecide, StoreFails, Commit, CommitRealmMismatch,
      CommitConflict, CommitChange, CommitVerdict, FindNoRow, InsertUnlocked, Record, RecordLoad,
      RecordCommit, RecordFindNoRow, RecordInsert, RecordRefused, RecordLost, Conclude, Goto
<1>5. CASE UNCHANGED vars
  BY <1>5 DEF vars
<1>. QED BY <1>1, <1>2, <1>3, <1>4, <1>5 DEF Next, Handle, Quiet

LEMMA NextEffects == IInv /\ [Next]_vars => EffectsAreInPlace'
<1>. SUFFICES ASSUME IInv, [Next]_vars, NEW q \in Pulse
              PROVE  EffectsInPlace(q)'
  BY DEF EffectsAreInPlace
<1>1. TypeOK /\ EffectsInPlace(q)
  BY DEF IInv, EffectsAreInPlace
<1>2. ASSUME EffectsOf(q)' = EffectsOf(q) PROVE EffectsInPlace(q)'
  BY <1>1, <1>2, NoWayBack DEF EffectsInPlace
<1>3. ASSUME NEW p \in Pulse, CommitChange(p) PROVE EffectsInPlace(q)'
  <2> DEFINE s == Ses(p)
             n == Len(audit[s]) + 1
  <2>1. s \in Session /\ audit[s] \in Seq(AuditRow)
    BY <1>1 DEF TypeOK, Request, Ses
  <2>2. PICK a : /\ a.pulse = p
                 /\ audit' = [audit EXCEPT ![s] = Append(@, a)]
    BY <1>3 DEF CommitChange, AuditOf
  <2>3. pc[p] = "commit" /\ pc'[p] = "release" /\ UNCHANGED req
    BY <1>1, <1>3 DEF CommitChange, Conclude, Goto, TypeOK
  <2>4. audit'[s] = Append(audit[s], a) /\ \A t \in Session : t # s => audit'[t] = audit[t]
    BY <1>1, <2>1, <2>2 DEF TypeOK
  <2>5. Ses(q) \in Session /\ Ses(q)' = Ses(q)
    BY <1>1, <2>3 DEF TypeOK, Request, Ses
  <2>. HIDE DEF s
  <2>6. CASE q = p
    <3>1. EffectsOf(q) = {}
      BY <1>1, <2>3, <2>6 DEF EffectsInPlace
    <3>2. \A k \in EffectsOf(q)' : k = n
      BY <2>1, <2>4, <2>5, <2>6, <3>1 DEF EffectsOf, Applied, s
    <3>. QED BY <2>3, <2>6, <3>2 DEF EffectsInPlace
  <2>7. CASE q # p
    <3>1. CASE Ses(q) = s
      BY <1>2, <2>1, <2>2, <2>4, <2>5, <2>7, <3>1 DEF EffectsOf, Applied
    <3>2. CASE Ses(q) # s
      BY <1>2, <2>4, <2>5, <3>2 DEF EffectsOf, Applied
    <3>. QED BY <3>1, <3>2
  <2>. QED BY <2>6, <2>7
<1>4. ASSUME NEW p \in Pulse,
             CommitVerdict(p) \/ InsertUnlocked(p) \/ RecordCommit(p) \/ RecordInsert(p)
      PROVE  EffectsInPlace(q)'
  <2>1. PICK a \in AuditRow : /\ a.outcome # "applied"
                              /\ audit' = [audit EXCEPT ![Ses(p)] = Append(@, a)]
    BY <1>4, UnappliedRow
  <2>2. Ses(q) \in Session /\ Ses(q)' = Ses(q)
    BY <1>1, <1>4, UnappliedRow DEF TypeOK, Request, Ses
  <2>3. \A t \in Session : /\ Applied(t)' = Applied(t)
                           /\ \A k \in Applied(t) : audit'[t][k] = audit[t][k]
    BY <1>1, <2>1, AppendUnapplied
  <2>. QED BY <1>2, <2>2, <2>3 DEF EffectsOf
<1>5. CASE UNCHANGED <<row, audit, req>>
  BY <1>2, <1>5 DEF EffectsOf, Applied, Ses
<1>. QED BY <1>3, <1>4, <1>5, StepKinds

-----------------------------------------------------------------------------
(* The theorems *)

LEMMA InitIInv == Init => IInv
<1>. SUFFICES ASSUME Init PROVE IInv
  OBVIOUS
<1>1. TypeOK
  BY InitType
<1>2. \A s \in Session : Applied(s) = {}
  BY DEF Init, Applied
<1>3. TriesAreCounted /\ SeenIsPast /\ VerdictIsSound
  BY ControlAssumption DEF Init, TriesAreCounted, TriesCounted, SeenIsPast, SeenPast,
                           VerdictIsSound, VerdictSound
<1>4. AuditReplaysRow
  <2>1. \A s \in Session : row[s] # NoRow => row[s].rev = 0
    BY DEF Init, LegacyRows
  <2>. QED BY <1>2, <2>1 DEF AuditReplaysRow, AuditReplays
<1>5. EffectsAreInPlace
  BY <1>1, <1>2 DEF EffectsAreInPlace, EffectsInPlace, EffectsOf, TypeOK, Request, Ses
<1>. QED BY <1>1, <1>3, <1>4, <1>5 DEF IInv

\* The inductive invariant holds in every reachable state.
THEOREM Invariance == Spec => []IInv
<1>1. IInv /\ [Next]_vars => IInv'
  <2>. SUFFICES ASSUME IInv, [Next]_vars PROVE IInv'
    OBVIOUS
  <2>1. TypeOK /\ TriesAreCounted
    BY DEF IInv
  <2>. QED BY <2>1, NextType, NextTries, NextSeen, NextVerdict, NextAudit, NextEffects DEF IInv
<1>. QED BY InitIInv, <1>1, PTL DEF Spec

\* Every reachable state is well typed: the places, rows, verdicts and answers
\* are what they are declared to be, and no pulse reads more than MaxAttempts
\* times.
THEOREM TypeCorrect == Spec => []TypeOK
<1>1. IInv => TypeOK
  BY DEF IInv
<1>. QED BY Invariance, <1>1, PTL

\* The audit replays the row: whatever requests race on whatever instances, the
\* applied entries of a session are its revisions, each once and in order, each
\* from the state the one before it led to, and the last one is the row.
THEOREM AuditReplaysTheRow == Spec => []AuditReplaysRow
<1>1. IInv => AuditReplaysRow
  BY DEF IInv
<1>. QED BY Invariance, <1>1, PTL

\* A request takes effect at most once.
THEOREM AtMostOneEffect == Spec => []OneEffectPerRequest
<1>1. IInv => OneEffectPerRequest
  BY DEF IInv, EffectsAreInPlace, EffectsInPlace, OneEffectPerRequest
<1>. QED BY Invariance, <1>1, PTL

\* The rows implement the serial log of effects of ControlLog: what the
\* instances do to them under the row lock is one legal command at a time.
THEOREM ImplementsControlLog == Spec => ControlLogSpec
<1>0. /\ Log!States = States /\ Log!Commands = Commands
      /\ Log!InitialState = InitialState /\ Log!NoCommand = NoCommand
      /\ \A s, c : Log!Target(s, c) = Target(s, c)
      /\ \A s, c : Log!TakesEffect(s, c) = TakesEffect(s, c)
  <2>1. /\ Log!States = States /\ Log!Commands = Commands
        /\ Log!InitialState = InitialState /\ Log!NoCommand = NoCommand
    BY DEF Log!States, States, Log!Commands, Commands, Log!InitialState, InitialState,
           Log!NoCommand, NoCommand
  <2>2. ASSUME NEW s, NEW c PROVE Log!Target(s, c) = Target(s, c)
    BY Zenon DEF Log!Target, Target
  <2>3. Log!Accepted = Accepted
    BY <2>1, Zenon DEF Log!Accepted, Accepted
  <2>4. ASSUME NEW s, NEW c PROVE Log!TakesEffect(s, c) = TakesEffect(s, c)
    BY <2>3, Zenon DEF Log!TakesEffect, TakesEffect, Log!Accepts, Accepts, Log!IsNoOp, IsNoOp
  <2>. QED BY <2>1, <2>2, <2>4
<1>1. Init => Log!Init
  BY <1>0 DEF Init, Log!Init, LegacyRows, Log!LegacyRows
<1>2. ASSUME IInv, IInv', [Next]_vars PROVE [Log!Next]_row
  <2>1. ASSUME NEW p \in Pulse, CommitChange(p) PROVE Log!Next
    <3>1. TypeOK /\ SeenPast(p) /\ VerdictSound(p)
      BY <1>2 DEF IInv, SeenIsPast, VerdictIsSound
    <3>2. /\ Ses(p) \in Session /\ req[p].realm \in Realm /\ req[p].cmd \in Commands
          /\ LockedRow(p) \in Row /\ seen[p] \in Row
      BY <3>1, LockedRowType DEF TypeOK, Request, Ses
    <3>3. seen[p] = LockedRow(p)
      BY <2>1, <3>1, <3>2 DEF CommitChange, SameRevision, SeenPast, LockedRow
    <3>4. /\ LockedRow(p).realm = req[p].realm
          /\ TakesEffect(LockedRow(p).state, req[p].cmd)
          /\ row' = [row EXCEPT ![Ses(p)] =
                       [realm |-> req[p].realm,
                        state |-> Target(LockedRow(p).state, req[p].cmd),
                        rev |-> LockedRow(p).rev + 1, last |-> p, cmd |-> req[p].cmd]]
      BY <2>1, <3>1, <3>3 DEF CommitChange, VerdictSound, SameRealm
    <3>5. Log!Effect(Ses(p), req[p].realm, req[p].cmd, p)
      BY <1>0, <3>3, <3>4 DEF Log!Effect, LockedRow, FreshRow, Log!FreshRow
    <3>. QED BY <1>0, <3>2, <3>5 DEF Log!Next
  <2>2. CASE row' = row
    BY <2>2
  <2>3. ASSUME NEW p \in Pulse,
               CommitVerdict(p) \/ InsertUnlocked(p) \/ RecordCommit(p) \/ RecordInsert(p)
        PROVE  row' = row
    BY <1>2, <2>3, UnappliedRow
  <2>. QED BY <1>2, <2>1, <2>2, <2>3, StepKinds
<1>. QED BY Invariance, <1>1, <1>2, PTL DEF Spec, ControlLogSpec, Log!Spec

-----------------------------------------------------------------------------
(* Turns and answers: on top of the inductive invariant, no turn is        *)
(* wasted, and the audit tells the callers' story.                         *)

Recording == {"record", "recordCommit", "recordInsert"}

\* The session, the instance and the places of a pulse.
LEMMA PulseType ==
  ASSUME TypeOK, NEW p \in Pulse
  PROVE  /\ req[p] \in Request /\ Ses(p) \in Session /\ Ins(p) \in Instance /\ pc[p] \in Places
         /\ pc \in [Pulse -> Places] /\ p # NoPulse
BY ControlAssumption DEF TypeOK, Request, Ses, Ins

-----------------------------------------------------------------------------
(* The turns *)

\* What is wanted of the turn of one session on one instance.
TurnHeld(i, s) ==
  owner[i][s] # NoPulse =>
    /\ owner[i][s] \in Pulse /\ Ins(owner[i][s]) = i /\ Ses(owner[i][s]) = s
    /\ pc[owner[i][s]] \notin {"idle", "waiting", "done"}
    /\ pc[owner[i][s]] \in Recording => answer[owner[i][s]].outcome = "conflict"
Waited(q) == pc[q] = "waiting" => owner[Ins(q)][Ses(q)] # NoPulse

LEMMA CaredByParts ==
  ASSUME TypeOK
  PROVE  /\ TurnsAreCared <=> (\A i \in Instance, s \in Session : TurnHeld(i, s)) /\ (\A q \in Pulse : Waited(q))
<1>1. \A i \in Instance, s \in Session : owner[i][s] \in Pulse \cup {NoPulse}
  BY DEF TypeOK
<1>. QED BY <1>1 DEF TurnsAreCared, TurnHasHolder, NoFreeTurnWhileWaiting, TurnHeld, Waited, Recording

\* The turn of i and s is passed on: the other turns are kept, and nobody but
\* those who wait for this one loses the holder that is waited for.
LEMMA PassOnCares ==
  ASSUME TypeOK, NEW i \in Instance, NEW s \in Session, NEW pcs \in [Pulse -> Places], PassOn(pcs, i, s), req' = req,
         \A j \in Instance, t \in Session : ~(j = i /\ t = s) /\ owner[j][t] # NoPulse =>
            /\ owner[j][t] \in Pulse /\ Ins(owner[j][t]) = j /\ Ses(owner[j][t]) = t
            /\ pcs[owner[j][t]] \notin {"idle", "waiting", "done"}
            /\ pcs[owner[j][t]] \in Recording => answer'[owner[j][t]].outcome = "conflict",
         \A q \in Pulse : pcs[q] = "waiting" /\ ~(Ins(q) = i /\ Ses(q) = s) => owner[Ins(q)][Ses(q)] # NoPulse
  PROVE  /\ \A j \in Instance, t \in Session : TurnHeld(j, t)'
         /\ \A q \in Pulse : Waited(q)'
<1>1. owner \in [Instance -> [Session -> Pulse \cup {NoPulse}]] /\ NoPulse \notin Pulse
  BY ControlAssumption DEF TypeOK
<1>2. \A q \in Pulse : Ins(q)' = Ins(q) /\ Ses(q)' = Ses(q) /\ Ins(q) \in Instance /\ Ses(q) \in Session
  BY PulseType DEF Ins, Ses
<1>3. CASE /\ Waiting(pcs, i, s) = {}
           /\ owner' = [owner EXCEPT ![i][s] = NoPulse]
           /\ pc' = pcs
  <2>1. /\ owner'[i][s] = NoPulse
        /\ \A j \in Instance, t \in Session : ~(j = i /\ t = s) => owner'[j][t] = owner[j][t]
    BY <1>1, <1>3
  <2>2. ASSUME NEW j \in Instance, NEW t \in Session PROVE TurnHeld(j, t)'
    <3>1. CASE j = i /\ t = s
      BY <2>1, <3>1 DEF TurnHeld
    <3>2. CASE ~(j = i /\ t = s)
      BY <1>2, <1>3, <2>1, <3>2 DEF TurnHeld
    <3>. QED BY <3>1, <3>2
  <2>3. ASSUME NEW q \in Pulse PROVE Waited(q)'
    BY <1>2, <1>3, <2>1 DEF Waited, Waiting
  <2>. QED BY <2>2, <2>3
<1>4. ASSUME NEW w \in Waiting(pcs, i, s),
             owner' = [owner EXCEPT ![i][s] = w], pc' = [pcs EXCEPT ![w] = "granted"]
      PROVE  (\A j \in Instance, t \in Session : TurnHeld(j, t)') /\ (\A q \in Pulse : Waited(q)')
  <2>1. w \in Pulse /\ pcs[w] = "waiting" /\ Ins(w) = i /\ Ses(w) = s /\ w # NoPulse
    BY <1>1 DEF Waiting
  <2>2. /\ owner'[i][s] = w
        /\ \A j \in Instance, t \in Session : ~(j = i /\ t = s) => owner'[j][t] = owner[j][t]
        /\ pc'[w] = "granted" /\ \A q \in Pulse : q # w => pc'[q] = pcs[q]
    BY <1>1, <1>4, <2>1
  <2>3. ASSUME NEW j \in Instance, NEW t \in Session PROVE TurnHeld(j, t)'
    <3>1. CASE j = i /\ t = s
      BY <1>2, <2>1, <2>2, <3>1 DEF TurnHeld, Recording
    <3>2. CASE ~(j = i /\ t = s)
      BY <1>2, <2>1, <2>2, <3>2 DEF TurnHeld
    <3>. QED BY <3>1, <3>2
  <2>4. ASSUME NEW q \in Pulse PROVE Waited(q)'
    BY <1>2, <2>1, <2>2 DEF Waited
  <2>. QED BY <2>3, <2>4
<1>. QED BY <1>3, <1>4 DEF PassOn

\* A handler leaves for good, with its turn or without.
LEMMA LeaveCares ==
  ASSUME TypeOK, TurnsAreCared, NEW p \in Pulse, pc[p] \in {"granted", "release"}, LeaveTurn(p, "done"), req' = req,
         \A q \in Pulse : q # p => answer'[q] = answer[q]
  PROVE  /\ \A j \in Instance, t \in Session : TurnHeld(j, t)'
         /\ \A q \in Pulse : Waited(q)'
<1>. DEFINE i == Ins(p)
            s == Ses(p)
            pcs == [pc EXCEPT ![p] = "done"]
<1>1. i \in Instance /\ s \in Session /\ pc \in [Pulse -> Places]
  BY PulseType
<1>2. pcs \in [Pulse -> Places] /\ pcs[p] = "done" /\ \A q \in Pulse : q # p => pcs[q] = pc[q]
  BY <1>1 DEF Places
<1>3. (\A j \in Instance, t \in Session : TurnHeld(j, t)) /\ (\A q \in Pulse : Waited(q))
  BY CaredByParts
<1>4. \A q \in Pulse : Ins(q)' = Ins(q) /\ Ses(q)' = Ses(q)
  BY DEF Ins, Ses
<1>. HIDE DEF pcs
<1>5. CASE owner[i][s] = p
  <2>1. PassOn(pcs, i, s)
    BY <1>5 DEF LeaveTurn, pcs
  <2>2. ASSUME NEW j \in Instance, NEW t \in Session, ~(j = i /\ t = s), owner[j][t] # NoPulse
        PROVE  /\ owner[j][t] \in Pulse /\ Ins(owner[j][t]) = j /\ Ses(owner[j][t]) = t
               /\ pcs[owner[j][t]] \notin {"idle", "waiting", "done"}
               /\ pcs[owner[j][t]] \in Recording => answer'[owner[j][t]].outcome = "conflict"
    <3>1. TurnHeld(j, t) /\ owner[j][t] # p
      BY <1>3, <2>2 DEF TurnHeld
    <3>. QED BY <1>2, <2>2, <3>1 DEF TurnHeld
  <2>3. ASSUME NEW q \in Pulse, pcs[q] = "waiting" PROVE owner[Ins(q)][Ses(q)] # NoPulse
    BY <1>2, <1>3, <2>3 DEF Waited
  <2>. HIDE DEF i, s
  <2>. QED BY <1>1, <1>2, <2>1, <2>2, <2>3, PassOnCares
<1>6. CASE owner[i][s] # p
  <2>1. pc' = pcs /\ owner' = owner
    BY <1>6 DEF LeaveTurn, pcs
  <2>2. ASSUME NEW j \in Instance, NEW t \in Session PROVE TurnHeld(j, t)'
    <3>1. TurnHeld(j, t) /\ (owner[j][t] # NoPulse => owner[j][t] # p)
      BY <1>3, <1>6 DEF TurnHeld
    <3>. QED BY <1>2, <1>4, <2>1, <3>1 DEF TurnHeld
  <2>3. ASSUME NEW q \in Pulse PROVE Waited(q)'
    BY <1>2, <1>3, <1>4, <2>1 DEF Waited
  <2>. QED BY <2>2, <2>3
<1>. QED BY <1>5, <1>6

\* A handler goes on and leaves the turns alone.
LEMMA GoOnCares ==
  ASSUME TypeOK, TurnsAreCared, NEW p \in Pulse, NEW place \in Places, Goto(p, place), UNCHANGED <<owner, req>>,
         \A q \in Pulse : q # p => answer'[q] = answer[q],
         place \notin {"idle", "waiting"},
         place = "done" => pc[p] = "waiting" \/ (pc[p] \in Recording /\ answer[p].outcome # "conflict"),
         place \in Recording => \/ pc[p] = "waiting" \/ answer'[p].outcome = "conflict"
                                \/ pc[p] \in Recording /\ answer'[p] = answer[p],
         pc[p] # "idle"
  PROVE  /\ \A j \in Instance, t \in Session : TurnHeld(j, t)'
         /\ \A q \in Pulse : Waited(q)'
<1>1. pc \in [Pulse -> Places]
  BY PulseType
<1>2. pc'[p] = place /\ \A q \in Pulse : q # p => pc'[q] = pc[q]
  BY <1>1 DEF Goto
<1>3. (\A j \in Instance, t \in Session : TurnHeld(j, t)) /\ (\A q \in Pulse : Waited(q))
  BY CaredByParts
<1>4. \A q \in Pulse : Ins(q)' = Ins(q) /\ Ses(q)' = Ses(q)
  BY DEF Ins, Ses
<1>5. ASSUME NEW j \in Instance, NEW t \in Session PROVE TurnHeld(j, t)'
  <2>1. CASE owner[j][t] = p
    BY <1>2, <1>3, <1>4, <2>1 DEF TurnHeld
  <2>2. CASE owner[j][t] # p
    BY <1>2, <1>3, <1>4, <2>2 DEF TurnHeld
  <2>. QED BY <2>1, <2>2
<1>6. ASSUME NEW q \in Pulse PROVE Waited(q)'
  BY <1>2, <1>3, <1>4 DEF Waited
<1>. QED BY <1>5, <1>6

\* The same after a step.
CaredNext == (\A i \in Instance, s \in Session : TurnHeld(i, s)') /\ (\A q \in Pulse : Waited(q)')
LEMMA CaredAfter ==
  ASSUME TypeOK', CaredNext
  PROVE  TurnsAreCared'
<1>1. \A i \in Instance, s \in Session : owner'[i][s] \in Pulse \cup {NoPulse}
  BY DEF TypeOK
<1>2. TurnHasHolder'
  BY <1>1 DEF CaredNext, TurnHasHolder, TurnHeld, Recording
<1>3. NoFreeTurnWhileWaiting'
  BY DEF CaredNext, NoFreeTurnWhileWaiting, Waited
<1>. QED BY <1>2, <1>3 DEF TurnsAreCared

LEMMA NextCares ==
  ASSUME TypeOK, TypeOK', TurnsAreCared, [Next]_vars
  PROVE  TurnsAreCared'
<1>0. (\A j \in Instance, t \in Session : TurnHeld(j, t)) /\ (\A q \in Pulse : Waited(q)) /\ pc \in [Pulse -> Places]
  BY CaredByParts DEF TypeOK
<1>1. ASSUME NEW p \in Pulse, Submit(p) PROVE CaredNext
  <2>1. pc[p] = "idle" /\ UNCHANGED <<req, answer>>
    BY <1>1 DEF Submit
  <2>2. \A q \in Pulse : Ins(q)' = Ins(q) /\ Ses(q)' = Ses(q) /\ Ins(q) \in Instance /\ Ses(q) \in Session
    BY <2>1, PulseType DEF Ins, Ses
  <2>3. p # NoPulse /\ owner \in [Instance -> [Session -> Pulse \cup {NoPulse}]]
    BY PulseType DEF TypeOK
  <2>4. CASE /\ owner[Ins(p)][Ses(p)] = NoPulse /\ Goto(p, "load")
             /\ owner' = [owner EXCEPT ![Ins(p)][Ses(p)] = p]
    <3>1. /\ owner'[Ins(p)][Ses(p)] = p
          /\ \A j \in Instance, t \in Session : ~(j = Ins(p) /\ t = Ses(p)) => owner'[j][t] = owner[j][t]
          /\ pc'[p] = "load" /\ \A q \in Pulse : q # p => pc'[q] = pc[q]
      BY <1>0, <2>2, <2>3, <2>4 DEF Goto
    <3>2. ASSUME NEW j \in Instance, NEW t \in Session PROVE TurnHeld(j, t)'
      <4>1. CASE j = Ins(p) /\ t = Ses(p)
        BY <2>2, <3>1, <4>1 DEF TurnHeld, Recording
      <4>2. CASE ~(j = Ins(p) /\ t = Ses(p))
        <5>1. TurnHeld(j, t) /\ owner[j][t] # p
          BY <1>0, <2>1, <2>3 DEF TurnHeld
        <5>. QED BY <2>1, <2>2, <3>1, <4>2, <5>1 DEF TurnHeld
      <4>. QED BY <4>1, <4>2
    <3>3. ASSUME NEW q \in Pulse PROVE Waited(q)'
      BY <1>0, <2>2, <2>3, <3>1 DEF Waited
    <3>. QED BY <3>2, <3>3 DEF CaredNext
  <2>5. CASE owner[Ins(p)][Ses(p)] # NoPulse /\ Goto(p, "waiting") /\ owner' = owner
    <3>1. pc'[p] = "waiting" /\ \A q \in Pulse : q # p => pc'[q] = pc[q]
      BY <1>0, <2>5 DEF Goto
    <3>2. ASSUME NEW j \in Instance, NEW t \in Session PROVE TurnHeld(j, t)'
      <4>1. TurnHeld(j, t) /\ owner[j][t] # p
        BY <1>0, <2>1, <2>3 DEF TurnHeld
      <4>. QED BY <2>1, <2>2, <2>5, <3>1, <4>1 DEF TurnHeld
    <3>3. ASSUME NEW q \in Pulse PROVE Waited(q)'
      BY <1>0, <2>2, <2>5, <3>1 DEF Waited
    <3>. QED BY <3>2, <3>3 DEF CaredNext
  <2>. QED BY <1>1, <2>4, <2>5 DEF Submit
<1>2. ASSUME NEW p \in Pulse, GiveUpGranted(p) \/ Release(p) PROVE CaredNext
  <2>1. /\ pc[p] \in {"granted", "release"} /\ LeaveTurn(p, "done") /\ req' = req
        /\ \A q \in Pulse : q # p => answer'[q] = answer[q]
    BY <1>2 DEF GiveUpGranted, Release, TypeOK
  <2>. QED BY <2>1, LeaveCares DEF CaredNext
<1>3. ASSUME NEW p \in Pulse,
             Start(p) \/ GiveUp(p) \/ LoadAndDecide(p) \/ Commit(p) \/ StoreFails(p) \/ Record(p)
      PROVE  CaredNext
  <2>0. answer \in [Pulse -> Answer] /\ answer[p] \in Answer
    BY DEF TypeOK
  <2>1. UNCHANGED <<owner, req>> /\ pc[p] # "idle" /\ \A q \in Pulse : q # p => answer'[q] = answer[q]
    BY <1>3, <2>0
    DEF Start, GiveUp, LoadAndDecide, StoreFails, Commit, CommitRealmMismatch, CommitConflict, CommitChange,
        CommitVerdict, FindNoRow, InsertUnlocked, Record, RecordLoad, RecordCommit, RecordFindNoRow, RecordInsert,
        RecordRefused, RecordLost, Conclude, Concluded
  <2>2. CASE Start(p) \/ GiveUp(p) \/ LoadAndDecide(p)
    <3>1. \E place \in {"load", "record", "release", "commit"} :
             Goto(p, place) /\ (place = "record" => pc[p] = "waiting")
      BY <2>2 DEF Start, GiveUp, LoadAndDecide
    <3>. QED BY <2>1, <3>1, GoOnCares DEF Places, Recording, CaredNext
  <2>3. CASE Commit(p) \/ StoreFails(p)
    <3>1. \E place \in {"load", "record", "release", "insert"} :
             Goto(p, place) /\ (place = "record" => answer'[p].outcome = "conflict")
      BY <2>0, <2>3
      DEF StoreFails, Commit, CommitRealmMismatch, CommitConflict, CommitChange, CommitVerdict, FindNoRow,
          InsertUnlocked, Conclude, Answer
    <3>. QED BY <2>1, <3>1, GoOnCares DEF Places, Recording, CaredNext
  <2>4. CASE Record(p)
    <3>1. /\ pc[p] \in Recording /\ answer' = answer
          /\ \E place \in {"recordCommit", "recordInsert", AfterRecord(p)} : Goto(p, place)
      BY <2>4 DEF Record, RecordLoad, RecordCommit, RecordFindNoRow, RecordInsert, RecordRefused, RecordLost, Recording
    <3>2. AfterRecord(p) = "release" \/ (AfterRecord(p) = "done" /\ answer[p].outcome # "conflict")
      BY DEF AfterRecord
    <3>. QED BY <2>1, <3>1, <3>2, GoOnCares DEF Places, Recording, CaredNext
  <2>. QED BY <1>3, <2>2, <2>3, <2>4
<1>4. ASSUME NEW i \in Instance, NEW s \in Session, Evict(i, s) PROVE CaredNext
  <2>1. PassOn(pc, i, s) /\ UNCHANGED <<req, answer>>
    BY <1>4 DEF Evict
  <2>2. \A j \in Instance, t \in Session : ~(j = i /\ t = s) /\ owner[j][t] # NoPulse =>
            /\ owner[j][t] \in Pulse /\ Ins(owner[j][t]) = j /\ Ses(owner[j][t]) = t
            /\ pc[owner[j][t]] \notin {"idle", "waiting", "done"}
            /\ pc[owner[j][t]] \in Recording => answer'[owner[j][t]].outcome = "conflict"
    BY <1>0, <2>1 DEF TurnHeld
  <2>3. \A q \in Pulse : pc[q] = "waiting" /\ ~(Ins(q) = i /\ Ses(q) = s) => owner[Ins(q)][Ses(q)] # NoPulse
    BY <1>0 DEF Waited
  <2>4. pc \in [Pulse -> Places] /\ req' = req
    BY <1>0, <2>1
  <2>. QED BY <2>1, <2>2, <2>3, <2>4, PassOnCares DEF CaredNext
<1>5. ASSUME NEW i \in Instance, Crash(i) PROVE CaredNext
  <2>1. /\ owner' = [owner EXCEPT ![i] = [s \in Session |-> NoPulse]] /\ req' = req
        /\ pc' = [p \in Pulse |-> IF Ins(p) = i /\ pc[p] # "idle" THEN "done" ELSE pc[p]]
        /\ \A p \in Pulse : Ins(p) # i => answer'[p] = answer[p]
    BY <1>5 DEF Crash
  <2>2. \A q \in Pulse : Ins(q)' = Ins(q) /\ Ses(q)' = Ses(q) /\ Ins(q) \in Instance /\ Ses(q) \in Session
    BY <2>1, PulseType DEF Ins, Ses
  <2>3. \A j \in Instance, t \in Session : owner'[j][t] = IF j = i THEN NoPulse ELSE owner[j][t]
    BY <2>1 DEF TypeOK
  <2>4. ASSUME NEW j \in Instance, NEW t \in Session PROVE TurnHeld(j, t)'
    BY <1>0, <2>1, <2>2, <2>3 DEF TurnHeld
  <2>5. ASSUME NEW q \in Pulse PROVE Waited(q)'
    BY <1>0, <2>1, <2>2, <2>3 DEF Waited
  <2>. QED BY <2>4, <2>5 DEF CaredNext
<1>6. ASSUME UNCHANGED vars PROVE CaredNext
  BY <1>0, <1>6 DEF vars, TurnHeld, Waited, Ins, Ses, CaredNext
<1>7. CaredNext
  BY <1>1, <1>2, <1>3, <1>4, <1>5, <1>6 DEF Next, Handle, Quiet
<1>. QED BY <1>7, CaredAfter

\* Neither a grant that raced with giving up nor a crash leaves a turn to
\* nobody, and nobody waits for a turn that is free.
THEOREM NoTurnIsWasted == Spec => []TurnsAreCared
<1>1. Init => TurnsAreCared
  BY DEF Init, TurnsAreCared, TurnHasHolder, NoFreeTurnWhileWaiting
<1>2. TypeOK /\ TypeOK' /\ TurnsAreCared /\ [Next]_vars => TurnsAreCared'
  BY NextCares
<1>. QED BY <1>1, <1>2, TypeCorrect, PTL DEF Spec

-----------------------------------------------------------------------------
(* The answers *)

Ended == {"release", "done"}
Conclusions == {"applied", "noop", "state_rejected", "policy_denied", "policy_unavailable"}

\* The audit row that a conclusion stands for.
OnRecord(p) ==
  \E k \in DOMAIN audit[Ses(p)] :
    /\ audit[Ses(p)][k].pulse = p
    /\ audit[Ses(p)][k].outcome = answer[p].outcome
    /\ audit[Ses(p)][k].rev = answer[p].rev

\* What is wanted of the answer of a pulse, from the moment it is made up.
Told(p) ==
  pc[p] \in Ended =>
    /\ answer[p].outcome \in Conclusions => OnRecord(p)
    /\ answer[p].outcome \notin {"applied", "error", "none"} => EffectsOf(p) = {}

\* Only an attempt that was busy, or lost its last race, is recorded apart.
RecordAnswered(p) == pc[p] \in Recording => answer[p].outcome \in {"busy", "conflict"}

\* Once a session has a revision it has a row, whose realm is that of the entry.
RealmKept(s) ==
  \A k \in DOMAIN audit[s] :
    audit[s][k].rev > 0 => row[s] # NoRow /\ audit[s][k].realm = row[s].realm

\* The invariant on top of IInv.
AnswersInv ==
  /\ \A p \in Pulse : Told(p)
  /\ \A p \in Pulse : RecordAnswered(p)
  /\ \A s \in Session : RealmKept(s)

Concluding(p) == CommitChange(p) \/ CommitVerdict(p) \/ InsertUnlocked(p)
Adding(p) == Concluding(p) \/ RecordCommit(p) \/ RecordInsert(p)

\* What p adds to the audit speaks for p.
Entry(p, a) ==
  /\ audit' = [audit EXCEPT ![Ses(p)] = Append(@, a)]
  /\ a.pulse = p /\ a.outcome = verdict[p].outcome /\ a.realm = req[p].realm

LEMMA AddsEntry ==
  ASSUME IInv, NEW p \in Pulse, Adding(p)
  PROVE  \E a \in AuditRow :
           /\ Entry(p, a)
           /\ a.rev > 0 => row'[Ses(p)] # NoRow /\ row'[Ses(p)].realm = req[p].realm
           /\ Concluding(p) => Conclude(p, a.rev)
           /\ req' = req
<1>1. TypeOK /\ VerdictSound(p)
  BY DEF IInv, VerdictIsSound
<1>2. /\ seen[p].state \in States /\ verdict[p] \in Verdict /\ verdict[p].to \in States
      /\ req[p].realm \in Realm /\ req[p].cmd \in Commands /\ Ses(p) \in Session
  BY <1>1 DEF TypeOK, Row, Verdict, Request, Ses
<1>3. LockedRow(p) \in Row
  BY <1>1, LockedRowType
<1>4. CASE CommitChange(p)
  <2> DEFINE new == [realm |-> LockedRow(p).realm, state |-> verdict[p].to,
                     rev |-> LockedRow(p).rev + 1, last |-> p, cmd |-> req[p].cmd]
             a == AuditOf(p, seen[p].state, verdict[p].to, new.rev)
  <2>1. /\ row' = [row EXCEPT ![Ses(p)] = new] /\ audit' = [audit EXCEPT ![Ses(p)] = Append(@, a)]
        /\ Conclude(p, new.rev) /\ req' = req /\ LockedRow(p).realm = req[p].realm
    BY <1>4 DEF CommitChange, SameRealm
  <2>2. new \in Row
    BY <1>2, <1>3 DEF Row
  <2>3. a \in AuditRow /\ a.rev = new.rev
    BY <1>2, <2>2 DEF AuditOf, AuditRow, Row, Verdict
  <2>4. row'[Ses(p)] = new /\ new # NoRow
    BY <1>1, <1>2, <2>1, <2>2, ControlAssumption DEF TypeOK, Row
  <2>5. a.pulse = p /\ a.outcome = verdict[p].outcome /\ a.realm = req[p].realm /\ new.realm = req[p].realm
    BY <2>1 DEF AuditOf
  <2>. HIDE DEF a, new
  <2>. QED BY <2>1, <2>3, <2>4, <2>5 DEF Entry
<1>5. CASE CommitVerdict(p) \/ RecordCommit(p)
  <2> DEFINE a == AuditOf(p, seen[p].state, row[Ses(p)].state, row[Ses(p)].rev)
  <2>1. /\ row[Ses(p)] # NoRow /\ row' = row /\ req' = req /\ audit' = [audit EXCEPT ![Ses(p)] = Append(@, a)]
        /\ row[Ses(p)].realm = req[p].realm
    BY <1>5 DEF CommitVerdict, RecordCommit, SameRealm, LockedRow
  <2>2. row[Ses(p)] \in Row
    BY <1>1, <1>2, <2>1 DEF TypeOK
  <2>3. a \in AuditRow /\ a.rev = row[Ses(p)].rev
    BY <1>2, <2>2 DEF AuditOf, AuditRow, Row, Verdict
  <2>4. a.pulse = p /\ a.outcome = verdict[p].outcome /\ a.realm = req[p].realm
    BY DEF AuditOf
  <2>5. Concluding(p) => Conclude(p, row[Ses(p)].rev)
    BY <1>1, <1>5 DEF Concluding, CommitVerdict, RecordCommit, CommitChange, InsertUnlocked
  <2>. HIDE DEF a
  <2>. QED BY <2>1, <2>3, <2>4, <2>5 DEF Entry
<1>6. CASE InsertUnlocked(p) \/ RecordInsert(p)
  <2> DEFINE a == AuditOf(p, seen[p].state, seen[p].state, 0)
  <2>1. row' = row /\ req' = req /\ audit' = [audit EXCEPT ![Ses(p)] = Append(@, a)]
    BY <1>6 DEF InsertUnlocked, RecordInsert
  <2>2. a \in AuditRow /\ a.rev = 0
    BY <1>2 DEF AuditOf, AuditRow, Verdict
  <2>3. a.pulse = p /\ a.outcome = verdict[p].outcome /\ a.realm = req[p].realm
    BY DEF AuditOf
  <2>4. Concluding(p) => Conclude(p, 0)
    BY <1>1, <1>6 DEF Concluding, CommitVerdict, RecordInsert, CommitChange, InsertUnlocked
  <2>. HIDE DEF a
  <2>5. Concluding(p) => Conclude(p, a.rev)
    BY <2>2, <2>4 DEF Conclude, Concluded
  <2>6. ~(a.rev > 0)
    BY <2>2
  <2>7. Entry(p, a)
    BY <2>1, <2>3 DEF Entry
  <2>. QED BY <2>1, <2>2, <2>5, <2>6, <2>7
<1>. QED BY <1>4, <1>5, <1>6 DEF Adding, Concluding

\* What an entry leaves as it was.
LEMMA EntryKeeps ==
  ASSUME TypeOK, NEW p \in Pulse, NEW a \in AuditRow, Entry(p, a), req' = req
  PROVE  /\ \A s \in Session : \A k \in DOMAIN audit[s] :
              k \in DOMAIN audit'[s] /\ audit'[s][k] = audit[s][k]
         /\ \A s \in Session : \A k \in DOMAIN audit'[s] :
              \/ k \in DOMAIN audit[s] /\ audit'[s][k] = audit[s][k]
              \/ s = Ses(p) /\ audit'[s][k] = a
         /\ \E k \in DOMAIN audit'[Ses(p)] : audit'[Ses(p)][k] = a
<1>1. audit \in [Session -> Seq(AuditRow)] /\ Ses(p) \in Session
  BY DEF TypeOK, Request, Ses
<1>2. /\ audit[Ses(p)] \in Seq(AuditRow) /\ audit'[Ses(p)] = Append(audit[Ses(p)], a)
      /\ \A s \in Session : s # Ses(p) => audit'[s] = audit[s]
  BY <1>1 DEF Entry
<1>3. /\ DOMAIN audit'[Ses(p)] = 1 .. Len(audit[Ses(p)]) + 1 /\ DOMAIN audit[Ses(p)] = 1 .. Len(audit[Ses(p)])
      /\ Len(audit[Ses(p)]) \in Nat /\ audit'[Ses(p)][Len(audit[Ses(p)]) + 1] = a
      /\ \A k \in 1 .. Len(audit[Ses(p)]) : audit'[Ses(p)][k] = audit[Ses(p)][k]
  BY <1>2
<1>4. \A s \in Session : \A k \in DOMAIN audit[s] : k \in DOMAIN audit'[s] /\ audit'[s][k] = audit[s][k]
  BY <1>2, <1>3
<1>5. ASSUME NEW s \in Session, NEW k \in DOMAIN audit'[s]
      PROVE  \/ k \in DOMAIN audit[s] /\ audit'[s][k] = audit[s][k]
             \/ s = Ses(p) /\ audit'[s][k] = a
  <2>1. CASE s = Ses(p)
    <3>. DEFINE n == Len(audit[Ses(p)])
    <3>1. k = n + 1 \/ k \in 1 .. n
      BY <1>3, <2>1
    <3>. QED BY <1>3, <2>1, <3>1
  <2>2. CASE s # Ses(p)
    BY <1>2, <2>2
  <2>. QED BY <2>1, <2>2
<1>6. \E k \in DOMAIN audit'[Ses(p)] : audit'[Ses(p)][k] = a
  <2>. DEFINE n == Len(audit[Ses(p)])
  <2>1. n + 1 \in DOMAIN audit'[Ses(p)] /\ audit'[Ses(p)][n + 1] = a
    BY <1>3
  <2>. QED BY <2>1
<1>. QED BY <1>4, <1>5, <1>6

\* The effects of a pulse are those of before unless it is its own effect that
\* is added.
LEMMA EntryEffects ==
  ASSUME TypeOK, NEW p \in Pulse, NEW a \in AuditRow, Entry(p, a), req' = req, NEW q \in Pulse,
         q # p \/ a.outcome # "applied"
  PROVE  EffectsOf(q)' = EffectsOf(q)
<1>1. Ses(q)' = Ses(q) /\ Ses(q) \in Session
  BY DEF TypeOK, Request, Ses
<1>2. a.pulse = p
  BY DEF Entry
<1>. QED BY <1>1, <1>2, EntryKeeps DEF EffectsOf, Applied

-----------------------------------------------------------------------------
(* What a step does to an answer *)

\* The answers of the pulses that conclude nothing in this step.
Fine(q) ==
  \/ pc'[q] \notin Ended
  \/ pc[q] \in Ended /\ answer'[q] = answer[q]
  \/ answer'[q].outcome \in {"error", "none"}
  \/ pc[q] \notin Ended /\ answer'[q].outcome \in {"realm_mismatch", "conflict", "busy"}

LEMMA StepIsFine ==
  ASSUME IInv, [Next]_vars, NEW q \in Pulse, RecordAnswered(q)
  PROVE  Fine(q) \/ Concluding(q)
<1>0. /\ pc \in [Pulse -> Places] /\ answer \in [Pulse -> Answer] /\ answer[q] \in Answer /\ TypeOK
      /\ pc[q] \in Places
  BY DEF IInv, TypeOK
<1>1. ASSUME NEW p \in Pulse, Submit(p) \/ Start(p) \/ GiveUp(p) PROVE Fine(q)
  BY <1>0, <1>1 DEF Submit, Start, GiveUp, Goto, Fine, Ended
<1>2. ASSUME NEW p \in Pulse, GiveUpGranted(p) \/ Release(p) PROVE Fine(q)
  <2>1. /\ LeaveTurn(p, "done") /\ "done" \in Places
        /\ \A r \in Pulse : r # p => answer'[r] = answer[r]
    BY <1>0, <1>2 DEF GiveUpGranted, Release, Places
  <2>2. CASE q # p
    <3>1. pc'[q] = pc[q] \/ pc'[q] = "granted"
      BY <1>0, <2>1, <2>2, LeaveTurnMoves
    <3>. QED BY <2>1, <2>2, <3>1 DEF Fine, Ended
  <2>3. CASE q = p
    BY <1>0, <1>2, <2>3 DEF GiveUpGranted, Release, Failure, NoAnswer, Fine, Ended
  <2>. QED BY <2>2, <2>3
<1>3. ASSUME NEW p \in Pulse, LoadAndDecide(p) PROVE Fine(q)
  <2>1. CASE q # p
    BY <1>0, <1>3, <2>1 DEF LoadAndDecide, Goto, Fine, Ended
  <2>2. CASE q = p
    BY <1>0, <1>3, <2>2 DEF LoadAndDecide, Goto, Fine, Ended, NoAnswer
  <2>. QED BY <2>1, <2>2
<1>4. ASSUME NEW p \in Pulse, CommitRealmMismatch(p) \/ CommitConflict(p) \/ FindNoRow(p) PROVE Fine(q)
  BY <1>0, <1>4 DEF CommitRealmMismatch, CommitConflict, FindNoRow, Goto, Fine, Ended, Answer
<1>5. ASSUME NEW p \in Pulse, Concluding(p) PROVE Fine(q) \/ Concluding(q)
  <2>1. CASE q # p
    BY <1>0, <1>5, <2>1
    DEF Concluding, CommitChange, CommitVerdict, InsertUnlocked, Conclude, Concluded, Goto, Fine, Ended
  <2>. QED BY <1>5, <2>1
<1>6. ASSUME NEW p \in Pulse, StoreFails(p) PROVE Fine(q)
  BY <1>0, <1>6 DEF StoreFails, Goto, Fine, Ended, Failure, NoAnswer
<1>7. ASSUME NEW p \in Pulse, Record(p) PROVE Fine(q)
  <2>1. pc[p] \in Recording /\ answer' = answer /\ \E place \in Places : Goto(p, place)
    BY <1>7
    DEF Record, RecordLoad, RecordCommit, RecordFindNoRow, RecordInsert, RecordRefused, RecordLost, Recording,
        AfterRecord, Places
  <2>. QED BY <1>0, <2>1 DEF Goto, Fine, Ended, RecordAnswered, Recording
<1>8. ASSUME NEW i \in Instance, NEW s \in Session, Evict(i, s) PROVE Fine(q)
  <2>1. pc'[q] = pc[q] \/ pc'[q] = "granted"
    BY <1>0, <1>8, PassOnMoves DEF Evict
  <2>. QED BY <1>8, <2>1 DEF Evict, Fine, Ended
<1>9. ASSUME NEW i \in Instance, Crash(i) PROVE Fine(q)
  BY <1>0, <1>9 DEF Crash, Fine, Ended, NoAnswer
<1>10. ASSUME UNCHANGED vars PROVE Fine(q)
  BY <1>0, <1>10 DEF vars, Fine
<1>. QED
  BY <1>1, <1>2, <1>3, <1>4, <1>5, <1>6, <1>7, <1>8, <1>9, <1>10
  DEF Next, Handle, Commit, Quiet, Concluding

LEMMA NextRecordAnswered ==
  ASSUME IInv, [Next]_vars, NEW q \in Pulse, RecordAnswered(q)
  PROVE  RecordAnswered(q)'
<1>0. /\ pc \in [Pulse -> Places] /\ answer \in [Pulse -> Answer] /\ answer[q] \in Answer /\ TypeOK
      /\ pc[q] \in Places
  BY DEF IInv, TypeOK
<1>1. ASSUME NEW p \in Pulse, Submit(p) \/ Start(p) \/ GiveUp(p) PROVE RecordAnswered(q)'
  BY <1>0, <1>1 DEF Submit, Start, GiveUp, Goto, RecordAnswered, Recording, NoAnswer
<1>2. ASSUME NEW p \in Pulse, GiveUpGranted(p) \/ Release(p) PROVE RecordAnswered(q)'
  <2>1. /\ LeaveTurn(p, "done") /\ "done" \in Places
        /\ \A r \in Pulse : r # p => answer'[r] = answer[r]
    BY <1>0, <1>2 DEF GiveUpGranted, Release, Places
  <2>2. pc'[q] = (IF q = p THEN "done" ELSE pc[q]) \/ pc'[q] = "granted"
    BY <1>0, <2>1, LeaveTurnMoves
  <2>. QED BY <2>1, <2>2 DEF RecordAnswered, Recording
<1>3. ASSUME NEW p \in Pulse, LoadAndDecide(p) \/ StoreFails(p) PROVE RecordAnswered(q)'
  BY <1>0, <1>3 DEF LoadAndDecide, StoreFails, Goto, RecordAnswered, Recording
<1>4. ASSUME NEW p \in Pulse, CommitRealmMismatch(p) \/ CommitConflict(p) \/ FindNoRow(p) PROVE RecordAnswered(q)'
  BY <1>0, <1>4 DEF CommitRealmMismatch, CommitConflict, FindNoRow, Goto, RecordAnswered, Recording, Answer
<1>5. ASSUME NEW p \in Pulse, Concluding(p) PROVE RecordAnswered(q)'
  BY <1>0, <1>5
  DEF Concluding, CommitChange, CommitVerdict, InsertUnlocked, Conclude, Concluded, Goto, RecordAnswered, Recording
<1>6. ASSUME NEW p \in Pulse, Record(p) PROVE RecordAnswered(q)'
  <2>1. pc[p] \in Recording /\ answer' = answer /\ \E place \in Places : Goto(p, place)
    BY <1>6
    DEF Record, RecordLoad, RecordCommit, RecordFindNoRow, RecordInsert, RecordRefused, RecordLost, Recording,
        AfterRecord, Places
  <2>. QED BY <1>0, <2>1 DEF Goto, RecordAnswered
<1>7. ASSUME NEW i \in Instance, NEW s \in Session, Evict(i, s) PROVE RecordAnswered(q)'
  <2>1. pc'[q] = pc[q] \/ pc'[q] = "granted"
    BY <1>0, <1>7, PassOnMoves DEF Evict
  <2>. QED BY <1>7, <2>1 DEF Evict, RecordAnswered, Recording
<1>8. ASSUME NEW i \in Instance, Crash(i) PROVE RecordAnswered(q)'
  BY <1>0, <1>8 DEF Crash, RecordAnswered, Recording
<1>9. ASSUME UNCHANGED vars PROVE RecordAnswered(q)'
  BY <1>9 DEF vars, RecordAnswered
<1>. QED
  BY <1>1, <1>2, <1>3, <1>4, <1>5, <1>6, <1>7, <1>8, <1>9
  DEF Next, Handle, Commit, Quiet, Concluding

\* A fine answer remains told if entries stay and no effect of its own is added.
LEMMA ToldKept ==
  ASSUME NEW q \in Pulse, Fine(q), Told(q), EffectsInPlace(q), EffectsOf(q)' = EffectsOf(q), Ses(q)' = Ses(q),
         \A k \in DOMAIN audit[Ses(q)] : k \in DOMAIN audit'[Ses(q)] /\ audit'[Ses(q)][k] = audit[Ses(q)][k]
  PROVE  Told(q)'
<1>1. CASE pc'[q] \notin Ended
  BY <1>1 DEF Told
<1>2. CASE pc[q] \in Ended /\ answer'[q] = answer[q]
  <2>1. OnRecord(q) => OnRecord(q)'
    BY <1>2 DEF OnRecord
  <2>. QED BY <1>2, <2>1 DEF Told
<1>3. CASE answer'[q].outcome \in {"error", "none"}
  BY <1>3 DEF Told, Conclusions
<1>4. CASE pc[q] \notin Ended /\ answer'[q].outcome \in {"realm_mismatch", "conflict", "busy"}
  <2>1. EffectsOf(q) = {}
    BY <1>4 DEF EffectsInPlace, Ended
  <2>. QED BY <1>4, <2>1 DEF Told, Conclusions
<1>. QED BY <1>1, <1>2, <1>3, <1>4 DEF Fine

LEMMA NextTold ==
  ASSUME IInv, [Next]_vars, NEW q \in Pulse, Told(q), RecordAnswered(q)
  PROVE  Told(q)'
<1>1. TypeOK /\ EffectsInPlace(q) /\ VerdictSound(q) /\ \A p \in Pulse : VerdictSound(p)
  BY DEF IInv, EffectsAreInPlace, VerdictIsSound
<1>2. CASE Concluding(q)
  <2>1. PICK a \in AuditRow : Entry(q, a) /\ Conclude(q, a.rev) /\ req' = req
    BY <1>2, AddsEntry DEF Adding
  <2>2. Ses(q)' = Ses(q)
    BY <2>1 DEF Ses
  <2>3. answer \in [Pulse -> Answer] /\ pc[q] \notin Ended /\ EffectsOf(q) = {}
    BY <1>1, <1>2
    DEF TypeOK, Concluding, CommitChange, CommitVerdict, InsertUnlocked, Ended, EffectsInPlace
  <2>4. CASE answer' = [answer EXCEPT ![q] = Failure]
    BY <2>3, <2>4 DEF Told, Failure, NoAnswer, Conclusions
  <2>5. CASE Concluded(q, a.rev)
    <3>1. answer'[q].outcome = verdict[q].outcome /\ answer'[q].rev = a.rev
      BY <2>3, <2>5 DEF Concluded
    <3>2. OnRecord(q)'
      <4>1. PICK k \in DOMAIN audit'[Ses(q)] : audit'[Ses(q)][k] = a
        BY <1>1, <2>1, EntryKeeps
      <4>. QED BY <2>1, <2>2, <3>1, <4>1 DEF OnRecord, Entry
    <3>3. answer'[q].outcome # "applied" => EffectsOf(q)' = {}
      <4>1. a.outcome = verdict[q].outcome
        BY <2>1 DEF Entry
      <4>. QED BY <1>1, <2>1, <2>3, <3>1, <4>1, EntryEffects
    <3>. QED BY <3>2, <3>3 DEF Told
  <2>. QED BY <2>1, <2>4, <2>5 DEF Conclude
<1>3. CASE ~Concluding(q)
  <2>1. Fine(q)
    BY <1>3, StepIsFine
  <2>2. ASSUME NEW p \in Pulse, Adding(p) PROVE Told(q)'
    <3>1. PICK a \in AuditRow : Entry(p, a) /\ req' = req
      BY <1>1, <2>2, AddsEntry
    <3>2. q # p \/ a.outcome # "applied"
      <4>1. CASE q = p
        <5>1. RecordCommit(p) \/ RecordInsert(p)
          BY <1>3, <2>2, <4>1 DEF Adding
        <5>2. verdict[p].outcome # "applied"
          BY <1>1, <5>1 DEF RecordCommit, RecordInsert, VerdictSound
        <5>. QED BY <3>1, <5>2 DEF Entry
      <4>. QED BY <4>1
    <3>3. EffectsOf(q)' = EffectsOf(q)
      BY <1>1, <3>1, <3>2, EntryEffects
    <3>4. Ses(q) \in Session /\ Ses(q)' = Ses(q)
      BY <1>1, <3>1 DEF TypeOK, Request, Ses
    <3>. QED BY <1>1, <2>1, <3>1, <3>3, <3>4, EntryKeeps, ToldKept
  <2>3. CASE UNCHANGED <<row, audit, req>>
    <3>1. EffectsOf(q)' = EffectsOf(q) /\ Ses(q)' = Ses(q) /\ audit' = audit
      BY <2>3 DEF EffectsOf, Applied, Ses
    <3>. QED BY <1>1, <2>1, <3>1, ToldKept
  <2>. QED BY <2>2, <2>3, StepKinds DEF Adding, Concluding
<1>. QED BY <1>2, <1>3

\* No row changes its realm, and what is added at a revision is of the row's.
LEMMA NextRealmKept ==
  ASSUME IInv, [Next]_vars, NEW s \in Session, RealmKept(s)
  PROVE  RealmKept(s)'
<1>1. TypeOK
  BY DEF IInv
<1>2. ASSUME row[s] # NoRow PROVE row'[s] # NoRow /\ row'[s].realm = row[s].realm
  <2>1. ASSUME NEW p \in Pulse, CommitChange(p) PROVE row'[s] # NoRow /\ row'[s].realm = row[s].realm
    <3>. DEFINE new == [realm |-> LockedRow(p).realm, state |-> verdict[p].to,
                        rev |-> LockedRow(p).rev + 1, last |-> p, cmd |-> req[p].cmd]
    <3>1. row' = [row EXCEPT ![Ses(p)] = new] /\ Ses(p) \in Session
      BY <1>1, <2>1 DEF CommitChange, TypeOK, Request, Ses
    <3>2. new \in Row
      <4>1. LockedRow(p) \in Row
        BY <1>1, LockedRowType
      <4>. QED BY <1>1, <4>1 DEF Row, TypeOK, Verdict, Request
    <3>3. new # NoRow
      BY <3>2, ControlAssumption DEF Row
    <3>4. s = Ses(p) => new.realm = row[s].realm
      BY <1>2 DEF LockedRow
    <3>. HIDE DEF new
    <3>. QED BY <1>1, <1>2, <3>1, <3>3, <3>4 DEF TypeOK
  <2>2. ASSUME row' = row PROVE row'[s] # NoRow /\ row'[s].realm = row[s].realm
    BY <1>2, <2>2
  <2>. QED BY <2>1, <2>2, StepKinds DEF CommitVerdict, InsertUnlocked, RecordCommit, RecordInsert
<1>3. ASSUME NEW p \in Pulse, Adding(p) PROVE RealmKept(s)'
  <2>1. PICK a \in AuditRow : /\ Entry(p, a) /\ req' = req
                              /\ a.rev > 0 => row'[Ses(p)] # NoRow /\ row'[Ses(p)].realm = req[p].realm
    BY <1>3, AddsEntry
  <2>2. ASSUME NEW k \in DOMAIN audit'[s], audit'[s][k].rev > 0
        PROVE  row'[s] # NoRow /\ audit'[s][k].realm = row'[s].realm
    <3>1. CASE k \in DOMAIN audit[s] /\ audit'[s][k] = audit[s][k]
      BY <1>2, <2>2, <3>1 DEF RealmKept
    <3>2. CASE s = Ses(p) /\ audit'[s][k] = a
      BY <2>1, <2>2, <3>2 DEF Entry
    <3>. QED BY <1>1, <2>1, <3>1, <3>2, EntryKeeps
  <2>. QED BY <2>2 DEF RealmKept
<1>4. CASE UNCHANGED <<row, audit, req>>
  BY <1>4 DEF RealmKept
<1>. QED BY <1>3, <1>4, StepKinds DEF Adding, Concluding

LEMMA NextAnswers == IInv /\ AnswersInv /\ [Next]_vars => AnswersInv'
<1>. SUFFICES ASSUME IInv, AnswersInv, [Next]_vars PROVE AnswersInv'
  OBVIOUS
<1>1. ASSUME NEW q \in Pulse PROVE Told(q)' /\ RecordAnswered(q)'
  BY NextTold, NextRecordAnswered DEF AnswersInv
<1>2. ASSUME NEW s \in Session PROVE RealmKept(s)'
  BY NextRealmKept DEF AnswersInv
<1>. QED BY <1>1, <1>2 DEF AnswersInv

LEMMA InitAnswers == Init => AnswersInv
<1>. SUFFICES ASSUME Init PROVE AnswersInv
  OBVIOUS
<1>1. ASSUME NEW q \in Pulse PROVE Told(q) /\ RecordAnswered(q)
  BY DEF Init, Told, RecordAnswered, Ended, Recording
<1>2. ASSUME NEW s \in Session PROVE RealmKept(s)
  BY DEF Init, RealmKept
<1>. QED BY <1>1, <1>2 DEF AnswersInv

\* The audit tells the callers' story and no other realm's: a conclusion that a
\* caller is told is on record at the revision told, a refusal means that there
\* was no effect, and an entry at a revision is of the realm of its session.
THEOREM AuditTellsTheTruth == Spec => []AuditIsTrue
<1>1. AnswersInv => AuditIsTrue
  <2>. SUFFICES ASSUME AnswersInv PROVE AuditIsTrue
    OBVIOUS
  <2>1. AnswerMatchesAudit
    BY DEF AnswersInv, Told, OnRecord, AnswerMatchesAudit, Ended, Conclusions
  <2>2. AuditStaysInRealm
    BY DEF AnswersInv, RealmKept, AuditStaysInRealm
  <2>. QED BY <2>1, <2>2 DEF AuditIsTrue
<1>. QED BY <1>1, InitAnswers, NextAnswers, Invariance, PTL DEF Spec
===============================================================================
