-------------------------------- MODULE MC_Live --------------------------------
(***************************************************************************)
(* What must come to an end, on small instances and under the fairness     *)
(* that the loops of the code provide: a control request, a trigger of a   *)
(* flow, a publication, a charge, an installation, the writes of a session *)
(* log, a command for a job, a wait for a future.  Every behaviour is one  *)
(* of a single component, the "world", which keeps its variables in the    *)
(* places s1 to s11 in the order in which its module declares them.        *)
(***************************************************************************)
EXTENDS Naturals

CONSTANTS Nil, NoRow, NoPulse, i1, i2, p1, p2, w1, w2, z

VARIABLES world, s1, s2, s3, s4, s5, s6, s7, s8, s9, s10, s11

vars == <<world, s1, s2, s3, s4, s5, s6, s7, s8, s9, s10, s11>>

Beyond10 == <<s11>>
Beyond9 == <<s10, s11>>
Beyond7 == <<s8, s9, Beyond9>>
Beyond4 == <<s5, s6, s7, Beyond7>>

Instances == INSTANCE SessionControl WITH
  Session <- {"s"}, Realm <- {"r"}, Instance <- {i1, i2}, Pulse <- {p1, p2}, Offered <- {"pause"},
  MaxAttempts <- 2, MaxFaults <- 1,
  row <- s1, audit <- s2, owner <- s3, pc <- s4, req <- s5, seen <- s6, verdict <- s7, attempt <- s8,
  answer <- s9, faults <- s10

Triggers == INSTANCE FlowTriggers WITH
  Automation <- {1}, Worker <- {w1, w2}, MaxTrigger <- 1, MaxVersion <- 1, MaxClaim <- 3, Expiry <- 1, None <- Nil,
  outbox <- s1, bound <- s2, run <- s3, version <- s4, enabled <- s5, worker <- s6, executed <- s7

Indexing == INSTANCE Knowledge WITH
  Worker <- {w1, w2}, Projector <- {z}, Editor <- {}, MaxVersion <- 2, MaxAttempts <- 2, MaxRemoval <- 0,
  publications <- s1, cycle <- s2, calling <- s3, orphans <- s4, source <- s5, queued <- s6, projector <- s7,
  vectors <- s8, reading <- s9, removals <- s10, texts <- s11

Ledger == INSTANCE Metering WITH
  Call <- {p1}, Tree <- {"user"}, Total <- 8, Soft <- 1, Overdraft <- 1, Usage <- {1},
  Publisher <- {z}, BatchSize <- 2, Consumer <- {w1}, MaxRetry <- 2, MaxMessage <- 2, MaxCrash <- 1, Disconnects <- FALSE,
  tree <- s1, call <- s2, outbox <- s3, batch <- s4, broker <- s5, consumer <- s6, attempts <- s7,
  ledger <- s8, dropped <- s9, peak <- s10, crashes <- s11

Provisions == INSTANCE Installs WITH
  Version <- {1, 2}, Handler <- {}, MaxTarget <- 1, MaxCrash <- 1, MaxDamage <- 1,
  target <- s1, disk <- s2, skills <- s3, state <- s4, job <- s5, report <- s6, process <- s7, request <- s8,
  count <- s9

Log == INSTANCE SessionLog WITH
  Node <- {1, 2}, MaxSeq <- 2, MaxIncarnation <- 2, MaxFailure <- 0, MaxLate <- 1, None <- Nil,
  lease <- s1, log <- s2, head <- s3, session <- s4, tail <- s5, write <- s6, token <- s7, fenced <- s8,
  renewal <- s9, up <- s10, past <- s11

Commands == INSTANCE JobControl WITH
  Job <- {1}, Command <- {p1, p2}, MaxFailure <- 1, MaxRestart <- 0, None <- Nil,
  job <- s1, known <- s2, execution <- s3, stream <- s4, record <- s5, command <- s6, batch <- s7, killed <- s8,
  count <- s9

Mail == INSTANCE Mailbox WITH
  Waiter <- {w1}, Settler <- {p1, p2}, Rejecting <- {p2}, Ttl <- 2, MaxRepeat <- 1, None <- Nil,
  future <- s1, settle <- s2, result <- s3, waiter <- s4

Init ==
  \/ world = "instances" /\ Instances!Init /\ s11 = Nil
  \/ world = "triggers" /\ Triggers!TriggerInit /\ s8 = Nil /\ s9 = Nil /\ s10 = Nil /\ s11 = Nil
  \/ world = "indexing" /\ Indexing!KnowledgeInit
  \/ world = "ledger" /\ Ledger!MeteringInit
  \/ world = "provisions" /\ Provisions!InstallInit /\ s10 = Nil /\ s11 = Nil
  \/ world = "log" /\ Log!SessionLogInit
  \/ world = "commands" /\ Commands!JobInit /\ s10 = Nil /\ s11 = Nil
  \/ world = "mail" /\ Mail!MailboxInit /\ s5 = Nil /\ s6 = Nil /\ s7 = Nil /\ s8 = Nil /\ s9 = Nil /\ s10 = Nil
     /\ s11 = Nil

InInstances(A) == world = "instances" /\ A /\ UNCHANGED <<world, Beyond10>>
InTriggers(A) == world = "triggers" /\ A /\ UNCHANGED <<world, Beyond7>>
InIndexing(A) == world = "indexing" /\ A /\ UNCHANGED world
InLedger(A) == world = "ledger" /\ A /\ UNCHANGED world
InProvisions(A) == world = "provisions" /\ A /\ UNCHANGED <<world, Beyond9>>
InLog(A) == world = "log" /\ A /\ UNCHANGED world
InCommands(A) == world = "commands" /\ A /\ UNCHANGED <<world, Beyond9>>
InMail(A) == world = "mail" /\ A /\ UNCHANGED <<world, Beyond4>>

Next ==
  \/ InInstances(Instances!Next)
  \/ InTriggers(Triggers!TriggerNext)
  \/ InIndexing(Indexing!KnowledgeNext)
  \/ InLedger(Ledger!MeteringNext)
  \/ InProvisions(Provisions!InstallNext)
  \/ InLog(Log!SessionLogNext)
  \/ InCommands(Commands!JobNext)
  \/ InMail(Mail!MailboxNext)

\* Handlers go on, tickers tick and workers poll. As a behaviour is one of a single world, one condition of each world makes
\* up one condition here.
Going1 ==
  \/ InInstances(Instances!Handle(p1)) \/ InTriggers(Triggers!Deliver(w1)) \/ InIndexing(Indexing!Dispatch(w1))
  \/ InLedger(Ledger!Publish(z)) \/ InProvisions(Provisions!Reconcile) \/ InLog(Log!Write(1)) \/ InCommands(Commands!Drain)
  \/ InMail(Mail!Poll(w1))
Going2 ==
  \/ InInstances(Instances!Handle(p2)) \/ InTriggers(Triggers!Deliver(w2)) \/ InIndexing(Indexing!Dispatch(w2))
  \/ InLedger(Ledger!Consume(w1)) \/ InLog(Log!Write(2)) \/ InCommands(Commands!ClaimExpires(p1))
  \/ InMail(Mail!Tick)
Going3 == InTriggers(Triggers!Tick) \/ InIndexing(Indexing!LockRow(z)) \/ InLedger(Ledger!Redeliver(1))
  \/ InLog(Log!Renewal(1)) \/ InCommands(Commands!ClaimExpires(p2))
Going4 == InTriggers(Triggers!RequeueStaleTriggers) \/ InLedger(Ledger!Redeliver(2)) \/ InLog(Log!Renewal(2))

\* A step that is tried again and again, and may fail each time, succeeds at some time: a file is written, the index answers,
\* the broker hands out a message, an outcome is recorded.
Tried1 == InIndexing(Indexing!Clear(z)) \/ InLedger(Ledger!Receive(w1, 1)) \/ InProvisions(Provisions!MoveAway)
Tried2 == InIndexing(Indexing!Fill(z)) \/ InLedger(Ledger!Receive(w1, 2)) \/ InProvisions(Provisions!Place)
Tried3 == InProvisions(Provisions!WriteManifest)
Tried4 == InProvisions(Provisions!ReplaceSkills)
Tried5 == InIndexing(Indexing!Attempt(w1)) \/ InProvisions(Provisions!WriteSnapshot)
Tried6 == InIndexing(Indexing!Attempt(w2)) \/ InProvisions(Provisions!WriteState)
Tried7 == InProvisions(Provisions!Report(TRUE))

Fairness ==
  /\ WF_vars(Going1) /\ WF_vars(Going2) /\ WF_vars(Going3) /\ WF_vars(Going4)
  /\ SF_vars(Tried1) /\ SF_vars(Tried2) /\ SF_vars(Tried3) /\ SF_vars(Tried4) /\ SF_vars(Tried5) /\ SF_vars(Tried6)
  /\ SF_vars(Tried7)

FairSpec == Init /\ [][Next]_vars /\ Fairness

-----------------------------------------------------------------------------
(* Properties.                                                             *)

\* Nothing is left to do.
Settled ==
  /\ world = "instances" => Instances!AllAnswered
  /\ world = "triggers" => Triggers!Settled
  /\ world = "indexing" => Indexing!Settled
  /\ world = "ledger" => Ledger!Settled
  /\ world = "provisions" => Provisions!Settled
  /\ world = "log" => Log!Settled
  /\ world = "commands" => Commands!Settled
  /\ world = "mail" => Mail!NobodyWaits

\* What is begun is brought to its end, whoever fails or dies in between: every control request is answered (Execute's
\* retries, recordVerdict, abandon), a trigger is delivered, or has had all claims of the model, a publication is confirmed
\* or given up and the index follows, a charge is in the ledger or was given up, a node ends with what its channel
\* selects, installed and reported, what a session has queued is written or given up and a node that lost its lease stops
\* writing, a command left for a node is taken by it, again if need be, and who waits for a future is told, at its expiry if
\* by nothing else.
EverythingEnds == <>[]Settled
===============================================================================
