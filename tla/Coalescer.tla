------------------------------ MODULE Coalescer ------------------------------
(***************************************************************************)
(* The batching window in front of the model providers (platform/control-  *)
(* plane/llm-gateway/internal/batch).  Requests for one model wait in a    *)
(* group; a group leaves when it is full or when its timer has run.  The   *)
(* timer's callback is a goroutine of its own: it may be late, and find    *)
(* another group under its model.                                          *)
(***************************************************************************)
EXTENDS Naturals, FiniteSets

CONSTANTS
  Request,   \* the requests
  Model,     \* the keys of the groups
  Window,    \* ticks a request may be held
  MaxBatch,  \* the size of a full group
  MaxGroup   \* bound: groups ever opened

None == 0
Group == 1 .. MaxGroup

VARIABLES
  caller,   \* [Request -> [at, group]]; at: "idle", "held", "leaving" (its context has ended), "sent" or "gone"
  group,    \* [Group -> [model, members, age, timer, left]]; timer: "none", "armed" or "fired"; left: ticks before it goes off
  groups,   \* the groups in the table: [Model -> a group or None]
  opened,   \* groups opened so far
  gauge,    \* the number of held requests the statistics show
  closed    \* Close has been called

coalescerVars == <<caller, group, groups, opened, gauge, closed>>

Fresh == [model |-> None, members |-> {}, age |-> 0, timer |-> "none", left |-> 0]

CoalescerInit ==
  /\ caller = [r \in Request |-> [at |-> "idle", group |-> None]]
  /\ group = [g \in Group |-> Fresh]
  /\ groups = [m \in Model |-> None]
  /\ opened = 0 /\ gauge = 0 /\ closed = FALSE

\* Close has been called (or the window is zero): the request passes.
Pass(r) ==
  /\ caller[r].at = "idle" /\ closed
  /\ caller' = [caller EXCEPT ![r].at = "sent"]
  /\ UNCHANGED <<group, groups, opened, gauge, closed>>

\* releaseLocked, of a group with these members.
Release(g, m, members) ==
  /\ caller' = [r \in Request |-> IF r \in members /\ caller[r].at # "leaving" THEN [at |-> "sent", group |-> g]
                                  ELSE IF r \in members THEN [caller[r] EXCEPT !.group = g] ELSE caller[r]]
  /\ groups' = [groups EXCEPT ![m] = None]
  /\ group' = [group EXCEPT ![g].members = {}, ![g].timer = IF @ = "armed" THEN "none" ELSE @]

\* Mutant: the window starts again with every request.
TimerFrom(g, m) == [group EXCEPT ![g] = [@ EXCEPT !.model = m, !.timer = "armed", !.left = Window]]

\* The timer of a group is started once, with its first request.
Timed(g, m) ==
  IF group[g].timer = "none" THEN [group EXCEPT ![g] = [@ EXCEPT !.model = m, !.timer = "armed", !.left = Window]] ELSE group

\* Acquire, under the lock: into the model's group, which leaves when it is full.
Acquire(r, m) ==
  LET g == IF groups[m] = None THEN opened + 1 ELSE groups[m]
      members == group[g].members \cup {r}
  IN /\ caller[r].at = "idle" /\ ~closed /\ g \in Group
     /\ opened' = IF groups[m] = None THEN g ELSE opened
     /\ IF Cardinality(members) >= MaxBatch
        THEN Release(g, m, members) /\ gauge' = gauge + 1 - Cardinality(members)
        ELSE /\ caller' = [caller EXCEPT ![r] = [at |-> "held", group |-> g]]
             /\ groups' = [groups EXCEPT ![m] = g]
             /\ group' = [Timed(g, m) EXCEPT ![g].members = members]
             /\ gauge' = gauge + 1
     /\ UNCHANGED closed

\* time.AfterFunc: the callback becomes a goroutine, which a later Stop does not reach.
Fire(g) ==
  /\ group[g].timer = "armed" /\ group[g].left = 0
  /\ group' = [group EXCEPT ![g].timer = "fired"]
  /\ UNCHANGED <<caller, groups, opened, gauge, closed>>

\* Mutant: the callback releases whatever group its model has now.
DueAny(g) == groups[group[g].model]

\* The group the callback releases: its own, while it is the one in the table.
Due(g) == IF groups[group[g].model] = g THEN g ELSE None

Silent(row) == [row EXCEPT !.timer = "none"]
Left(row) == [Silent(row) EXCEPT !.members = {}]

\* release
Callback(g) ==
  /\ group[g].timer = "fired"
  /\ IF Due(g) # None
     THEN LET d == Due(g)
          IN /\ caller' = [r \in Request |-> IF r \in group[d].members /\ caller[r].at = "held" THEN [caller[r] EXCEPT !.at = "sent"] ELSE caller[r]]
             /\ groups' = [groups EXCEPT ![group[g].model] = None]
             /\ group' = [x \in Group |-> IF x = d THEN Left(group[x]) ELSE IF x = g THEN Silent(group[x]) ELSE group[x]]
             /\ gauge' = gauge - Cardinality(group[d].members)
     ELSE group' = [group EXCEPT ![g] = Silent(@)] /\ UNCHANGED <<caller, groups, gauge>>
  /\ UNCHANGED <<opened, closed>>

\* The caller's context ends while the request is held.
Cancel(r) ==
  /\ caller[r].at = "held"
  /\ caller' = [caller EXCEPT ![r].at = "leaving"]
  /\ UNCHANGED <<group, groups, opened, gauge, closed>>

\* Mutant: a request that leaves keeps its seat.
SeatsKept(g, r) == group[g].members

SeatsLeft(g, r) == group[g].members \ {r}

\* drop and the last look at the channel: a group that has left in the meantime has released the request.
Drop(r) ==
  LET g == caller[r].group
      here == groups[group[g].model] = g
  IN /\ caller[r].at = "leaving"
     /\ caller' = [caller EXCEPT ![r].at = IF here \/ r \in group[g].members THEN "gone" ELSE "sent"]
     /\ IF here
        THEN /\ group' = [group EXCEPT ![g].members = SeatsLeft(g, r)]
             /\ gauge' = gauge - 1
        ELSE UNCHANGED <<group, gauge>>
     /\ UNCHANGED <<groups, opened, closed>>

\* Close: the timers stop, the table is emptied, and nobody is released.
Close ==
  /\ ~closed
  /\ closed' = TRUE
  /\ groups' = [m \in Model |-> None]
  /\ group' = [g \in Group |-> IF group[g].timer = "armed" THEN Silent(group[g]) ELSE group[g]]
  /\ UNCHANGED <<caller, opened, gauge>>

InTable == {g \in Group : \E m \in Model : groups[m] = g}

Older(row) == [row EXCEPT !.age = @ + 1, !.left = @ - 1]

\* A tick of the clock: a timer that is due goes off, and a callback finds the lock, before the next one.
Tick ==
  /\ InTable # {}
  /\ \A g \in InTable : group[g].timer = "armed" /\ group[g].left > 0 /\ group[g].age <= Window
  /\ group' = [g \in Group |-> IF g \in InTable THEN Older(group[g]) ELSE group[g]]
  /\ UNCHANGED <<caller, groups, opened, gauge, closed>>

CoalescerNext ==
  \/ Close \/ Tick
  \/ \E r \in Request : Pass(r) \/ Cancel(r) \/ Drop(r) \/ \E m \in Model : Acquire(r, m)
  \/ \E g \in Group : Fire(g) \/ Callback(g)

CoalescerSpec == CoalescerInit /\ [][CoalescerNext]_coalescerVars

-----------------------------------------------------------------------------

\* A request is held for no longer than the window, whoever joins or leaves its group (coalescer.go:20 "任何请求最多被延迟
\* Window，与并发数无关").
HeldIsBounded == \A g \in InTable : group[g].age <= Window

\* A seat in a group is a request that still waits, so that a group of callers who left cannot hold up those behind
\* them (coalescer.go:202-205), and a full group is never in the table.
SeatsAreTaken ==
  \A g \in InTable :
    /\ group[g].members = {r \in Request : caller[r].group = g /\ caller[r].at \in {"held", "leaving"}}
    /\ Cardinality(group[g].members) < MaxBatch

CoalescerHolds == HeldIsBounded /\ SeatsAreTaken

\* A request that is held leaves because its own group is full or has waited for the whole window: a late callback of
\* an earlier group never lets a later one go (coalescer.go:150-152, 173).
BatchesAreDue ==
  \A g \in InTable :
    (group[g].members # {} /\ group'[g].members = {} /\ ~\E r \in Request : caller'[r].at = "gone" /\ caller[r].at = "leaving")
       => group[g].age = Window \/ \E r \in Request : caller[r].at = "idle" /\ caller'[r].group = g
=============================================================================
