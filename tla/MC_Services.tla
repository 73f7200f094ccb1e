----------------------------- MODULE MC_Services ------------------------------
(***************************************************************************)
(* The services around the execution of tasks, on small instances.  They   *)
(* share no state that is modelled twice, so every behaviour is one of a   *)
(* single service, the "world".  The services keep their variables in the  *)
(* same twelve places, s1 to s12, in the order in which their modules      *)
(* declare them; the places a service has no use for stay empty.           *)
(***************************************************************************)
EXTENDS Integers, Sequences, FiniteSets, FiniteSetTheorems, TLAPS

CONSTANTS Nil, w1, w2, p, q, c1, c2, r1, r2, r3, r4

VARIABLES world, s1, s2, s3, s4, s5, s6, s7, s8, s9, s10, s11, s12

\* The places after the n-th.
Beyond11 == <<s12>>
Beyond10 == <<s11, Beyond11>>
Beyond9 == <<s10, Beyond10>>
Beyond8 == <<s9, Beyond9>>
Beyond7 == <<s8, Beyond8>>
Beyond6 == <<s7, Beyond7>>
Beyond5 == <<s6, Beyond6>>
Beyond4 == <<s5, Beyond5>>
Beyond3 == <<s4, Beyond4>>
vars == <<world, s1, s2, s3, Beyond3>>

\* They are empty.
Empty11 == s12 = Nil
Empty10 == s11 = Nil /\ Empty11
Empty9 == s10 = Nil /\ Empty10
Empty8 == s9 = Nil /\ Empty9
Empty7 == s8 = Nil /\ Empty8
Empty6 == s7 = Nil /\ Empty7
Empty5 == s6 = Nil /\ Empty6
Empty4 == s5 = Nil /\ Empty5
Empty3 == s4 = Nil /\ Empty4

\* What the clocks and the access to skills are tried with: fields of a cron expression and zones, grants and revocations.
Value(n) == [from |-> n, to |-> n, step |-> 1, single |-> TRUE]
Span(a, b, step) == [from |-> a, to |-> b, step |-> step, single |-> FALSE]
Fields(minute, hour, dom, month, dow) == [minute |-> minute, hour |-> hour, dom |-> dom, month |-> month, dow |-> dow]

Expressions ==
  {Fields({}, hour, {}, {}, {}) : hour \in {{Value(0)}, {Value(1), Value(3)}, {Span(1, 3, 2)}, {}}}
  \cup {Fields({Value(1)}, {Span(1, 2, 1)}, dom, month, dow) :
          dom \in {{Value(2)}, {Value(3)}, {Span(1, 3, 1)}}, month \in {{}, {Value(2)}}, dow \in {{}, {Value(3)}}}
  \cup {Fields({Value(2)}, {}, {}, {}, {}), Fields({}, {Span(2, 1, 1)}, {}, {}, {})}

Zones ==
  [at : {24}, before : {0}, after : {2}, picks : {"before", "after"}]
  \cup [at : {22, 27}, before : {2}, after : {0}, picks : {"before", "after"}]

Entry(s, kind, subject) == [skill |-> s, kind |-> kind, subject |-> subject]
Granted(s, v, kind, subject, children) ==
  [skill |-> s, version |-> v, kind |-> kind, subject |-> subject, children |-> children]

\* Whose skills are resolved, and with what.
Persons ==
  [human |-> TRUE, skill |-> {"s1"}, dept |-> {1, 2}, above |-> <<Nil, 1>>, changes |-> 4, grant |->
     {Granted("s1", Nil, "user", "u", FALSE), Granted("s1", 1, "role", "r", FALSE), Granted("s1", 1, "project", "p", FALSE),
      Granted("s1", 2, "department", 1, TRUE), Granted("s1", 1, "department", 1, TRUE),
      Granted("s1", Nil, "department", 2, FALSE)},
   revocation |-> {Entry("s1", "user", "u"), Entry("s1", "project", "p"), Entry("s1", "role", "r"), Entry("s1", "department", 1)}]

Agents ==
  [human |-> FALSE, skill |-> {"s1", "s2"}, dept |-> {1}, above |-> <<Nil>>, changes |-> 3, grant |->
     {Granted("s1", Nil, "agent", "a", FALSE), Granted("s1", 2, "agent", "a", FALSE), Granted("s2", 1, "agent", "a", FALSE),
      Granted("s2", 1, "department", 1, TRUE)},
   revocation |-> {Entry("s1", "agent", "a"), Entry("s2", "user", "u")}]

-----------------------------------------
(* The gateway to connectors, and what is proved of it: of the grants and of   *)
(* the calls, each in a world of its own.  The proofs read the places s1, s2,  *)
(* ... by the names their service gives them.                                  *)

Grants == INSTANCE OAuthGrants WITH
  Worker <- {w1, w2}, MaxGeneration <- 4, MaxManifest <- 2,
  connector <- s1, grant <- s2, tokens <- s3, cleanup <- s4, sweeping <- s5, request <- s6, consent <- s7,
  spent <- s8

connector == s1
grant == s2
tokens == s3
cleanup == s4
sweeping == s5
request == s6
consent == s7
spent == s8
Worker == {w1, w2}

USE DEF connector, grant, tokens, cleanup, sweeping, request, consent, spent, Worker

\* The exchange of a worker: the key it reserved, and whom its token is for.
AtWork == [step : {"exchange", "write", "finish", "fail"}, phase : {"exchanging", "refreshing"}, key : Nat,
           version : Nat, secret : {"code", "refresh"} \X Nat, login : Nat, refreshable : BOOLEAN]

GrantsAreTyped ==
  /\ connector \in [version : Nat, enabled : BOOLEAN]
  /\ grant \in [gen : Nat, version : Nat, key : Nat, login : Nat, late : BOOLEAN,
                state : {"disconnected", "authorizing", "exchanging", "refreshing", "connected",
                         "reauthorization_required"}]
  /\ cleanup \subseteq Nat /\ sweeping \in Nat /\ consent \in Nat
  /\ request \in [Worker -> {Grants!Idle} \cup AtWork]
  /\ spent \subseteq {"code", "refresh"} \X Nat

\* A row with a token uses the key its own generation reserved, and is the user's wish.
RowIsOfItsGeneration ==
  /\ grant.key \in {0, grant.gen}
  /\ grant.state \in {"exchanging", "refreshing", "connected"} => grant.key = grant.gen /\ grant.key # 0
  /\ grant.state \in Grants!Live => consent # 0
  /\ grant.state = "authorizing" => grant.login = consent /\ grant.login = grant.gen

\* Keys are older than the row or its own, and each is one exchange's.
KeysAreReserved ==
  /\ cleanup \subseteq 1..grant.gen
  /\ \A w \in Worker : request[w] # Grants!Idle =>
       /\ request[w].key \in cleanup
       /\ request[w].key = grant.gen => request[w].login = consent /\ grant.state # "connected"
       /\ \A v \in Worker \ {w} : request[v].key # request[w].key
  /\ sweeping # 0 => sweeping \in 1..grant.gen /\ sweeping # grant.key /\ \A w \in Worker : request[w].key # sweeping

\* What is finished has its token in the vault.
FinishedIsStored ==
  \A w \in Worker : request[w].step = "finish" =>
    request[w].key \in DOMAIN tokens /\ tokens[request[w].key].login = request[w].login

\* A connected grant's token is in the vault and is the user's wish.
ConnectedIsStored ==
  grant.state = "connected" => grant.key \in DOMAIN tokens /\ tokens[grant.key].login = consent

\* Secrets that were, or are about to be, presented are older than the row.
SecretsAreOlder ==
  /\ \A s \in spent : s[2] < grant.gen
  /\ \A w \in Worker : request[w].step = "exchange" => request[w].secret[2] < grant.gen

GrantsInv ==
  /\ GrantsAreTyped /\ RowIsOfItsGeneration /\ KeysAreReserved /\ FinishedIsStored /\ SecretsAreOlder
  /\ ConnectedIsStored /\ Grants!TokensAreTracked /\ Grants!SecretsAreUsedOnce

LEMMA GrantsInit == Grants!OAuthInit => GrantsInv
<1>. SUFFICES ASSUME Grants!OAuthInit PROVE GrantsInv
  OBVIOUS
<1>. USE DEF Grants!OAuthInit, Grants!Idle, Grants!Fresh
<1>1. GrantsAreTyped
  BY DEF GrantsAreTyped
<1>2. DOMAIN tokens = {}
  OBVIOUS
<1>3. RowIsOfItsGeneration /\ KeysAreReserved /\ FinishedIsStored /\ SecretsAreOlder
  BY DEF RowIsOfItsGeneration, KeysAreReserved, FinishedIsStored, SecretsAreOlder, Grants!Live
<1>4. ConnectedIsStored /\ Grants!TokensAreTracked /\ Grants!SecretsAreUsedOnce
  BY <1>2 DEF ConnectedIsStored, Grants!TokensAreTracked, Grants!SecretsAreUsedOnce
<1>. QED BY <1>1, <1>3, <1>4 DEF GrantsInv

\* The parts of the invariant about rows and keys, and the type of an exchange.
LEMMA GrantTypes ==
  ASSUME GrantsInv
  PROVE  /\ grant.gen \in Nat /\ grant.key \in Nat /\ grant.gen + 1 \in Nat /\ connector.version \in Nat
         /\ Grants!Keyed(grant) \subseteq 1..grant.gen /\ cleanup \subseteq 1..grant.gen
         /\ \A w \in Worker : request[w] # Grants!Idle => request[w] \in AtWork /\ request[w].key \in 1..grant.gen
         /\ \A w \in Worker : request[w] = Grants!Idle => request[w].step = "idle" /\ request[w].key = 0
<1>1. grant.gen \in Nat /\ grant.key \in Nat /\ connector.version \in Nat
  BY DEF GrantsInv, GrantsAreTyped
<1>2. grant.key \in {0, grant.gen} /\ cleanup \subseteq 1..grant.gen
  BY DEF GrantsInv, RowIsOfItsGeneration, KeysAreReserved
<1>3. Grants!Keyed(grant) \subseteq 1..grant.gen
  BY <1>1, <1>2 DEF Grants!Keyed
<1>4. ASSUME NEW w \in Worker, request[w] # Grants!Idle PROVE request[w] \in AtWork /\ request[w].key \in 1..grant.gen
  BY <1>2, <1>4 DEF GrantsInv, GrantsAreTyped, KeysAreReserved
<1>5. ASSUME NEW w \in Worker, request[w] = Grants!Idle PROVE request[w].step = "idle" /\ request[w].key = 0
  BY <1>5 DEF Grants!Idle
<1>. QED BY <1>1, <1>2, <1>3, <1>4, <1>5

\* The row moves on to a generation without a token: what was on its way is late.
LEMMA RowMovesOn ==
  ASSUME GrantsInv, UNCHANGED <<connector, tokens, sweeping, spent>>,
         grant' \in [gen : Nat, version : Nat, key : Nat, login : Nat, late : BOOLEAN,
                     state : {"disconnected", "authorizing", "reauthorization_required"}],
         grant'.gen = grant.gen + 1, grant'.key = 0, cleanup' = cleanup \cup Grants!Keyed(grant), consent' \in Nat,
         grant'.state = "authorizing" => grant'.login = grant'.gen /\ consent' = grant'.gen,
         request' \in [Worker -> {Grants!Idle} \cup AtWork], \A w \in Worker : request'[w] \in {Grants!Idle, request[w]}
  PROVE  GrantsInv'
<1>1. GrantsAreTyped'
  <2>1. cleanup' \subseteq Nat
    BY GrantTypes
  <2>2. grant' \in [gen : Nat, version : Nat, key : Nat, login : Nat, late : BOOLEAN,
                    state : {"disconnected", "authorizing", "exchanging", "refreshing", "connected",
                             "reauthorization_required"}]
    OBVIOUS
  <2>. QED BY <2>1, <2>2 DEF GrantsInv, GrantsAreTyped
<1>2. RowIsOfItsGeneration' /\ ConnectedIsStored'
  BY GrantTypes DEF GrantsInv, RowIsOfItsGeneration, ConnectedIsStored, Grants!Live
<1>3. KeysAreReserved'
  <2>1. cleanup' \subseteq 1..grant'.gen
    BY GrantTypes
  <2>2. ASSUME NEW w \in Worker, request'[w] # Grants!Idle
        PROVE  /\ request'[w].key \in cleanup' /\ request'[w].key # grant'.gen
               /\ \A v \in Worker \ {w} : request'[v].key # request'[w].key
    <3>1. request'[w] = request[w] /\ request[w] # Grants!Idle
      BY <2>2
    <3>2. request[w].key \in 1..grant.gen /\ request[w].key \in cleanup
      BY <3>1, GrantTypes DEF GrantsInv, KeysAreReserved
    <3>3. ASSUME NEW v \in Worker \ {w} PROVE request'[v].key # request'[w].key
      BY <3>1, <3>2, <3>3, GrantTypes DEF GrantsInv, KeysAreReserved, Grants!Idle
    <3>. QED BY <3>1, <3>2, <3>3, GrantTypes
  <2>3. sweeping' # 0 => /\ sweeping' \in 1..grant'.gen /\ sweeping' # grant'.key
                         /\ \A w \in Worker : request'[w].key # sweeping'
    BY GrantTypes DEF GrantsInv, KeysAreReserved, Grants!Idle
  <2>. QED BY <2>1, <2>2, <2>3 DEF KeysAreReserved
<1>4. FinishedIsStored' /\ Grants!TokensAreTracked'
  BY DEF GrantsInv, FinishedIsStored, Grants!TokensAreTracked, Grants!Idle
<1>5. SecretsAreOlder'
  <2>1. ASSUME NEW s \in spent PROVE s[2] < grant'.gen
    BY <2>1, GrantTypes DEF GrantsInv, SecretsAreOlder, GrantsAreTyped
  <2>2. ASSUME NEW w \in Worker, request'[w].step = "exchange" PROVE request'[w].secret[2] < grant'.gen
    <3>1. request'[w] = request[w] /\ request[w] \in AtWork
      BY <2>2, GrantTypes DEF Grants!Idle
    <3>. QED BY <2>2, <3>1, GrantTypes DEF GrantsInv, SecretsAreOlder, AtWork
  <2>. QED BY <2>1, <2>2 DEF SecretsAreOlder
<1>6. Grants!SecretsAreUsedOnce'
  BY DEF GrantsInv, Grants!SecretsAreUsedOnce, Grants!Idle
<1>. QED BY <1>1, <1>2, <1>3, <1>4, <1>5, <1>6 DEF GrantsInv

LEMMA RowSteps ==
  ASSUME GrantsInv, Grants!Begin \/ Grants!Disconnect \/ Grants!Retire \/ \E login \in 1..4 : Grants!Deny(login)
  PROVE  GrantsInv'
<1>1. request' = request /\ request' \in [Worker -> {Grants!Idle} \cup AtWork] /\ consent' \in Nat
  BY GrantTypes DEF GrantsInv, GrantsAreTyped, Grants!Begin, Grants!Disconnect, Grants!Retire, Grants!Deny
<1>2. UNCHANGED <<connector, tokens, sweeping, spent>>
  BY DEF Grants!Begin, Grants!Disconnect, Grants!Retire, Grants!Deny
<1>3. CASE Grants!Begin
  <2>1. grant' = [gen |-> grant.gen + 1, version |-> connector.version, state |-> "authorizing",
                  key |-> 0, login |-> grant.gen + 1, late |-> FALSE]
        /\ cleanup' = cleanup \cup Grants!Keyed(grant) /\ consent' = grant.gen + 1
    BY <1>3 DEF Grants!Begin
  <2>2. grant' \in [gen : Nat, version : Nat, key : Nat, login : Nat, late : BOOLEAN,
                    state : {"disconnected", "authorizing", "reauthorization_required"}]
    BY <2>1, GrantTypes
  <2>3. grant'.gen = grant.gen + 1 /\ grant'.key = 0 /\ grant'.login = grant'.gen /\ consent' = grant'.gen
    BY <2>1
  <2>. QED BY <1>1, <1>2, <2>1, <2>2, <2>3, RowMovesOn
<1>4. CASE Grants!Disconnect \/ Grants!Retire \/ \E login \in 1..4 : Grants!Deny(login)
  <2>1. PICK state \in {"disconnected", "reauthorization_required"} : Grants!Cleared(state)
    BY <1>4 DEF Grants!Disconnect, Grants!Retire, Grants!Deny
  <2>2. grant' = [gen |-> grant.gen + 1, version |-> connector.version, state |-> state,
                  key |-> 0, login |-> 0, late |-> FALSE]
        /\ cleanup' = cleanup \cup Grants!Keyed(grant)
    BY <2>1 DEF Grants!Cleared
  <2>3. grant' \in [gen : Nat, version : Nat, key : Nat, login : Nat, late : BOOLEAN,
                    state : {"disconnected", "authorizing", "reauthorization_required"}]
    BY <2>2, GrantTypes
  <2>4. grant'.gen = grant.gen + 1 /\ grant'.key = 0 /\ grant'.state # "authorizing"
    BY <2>2
  <2>. QED BY <1>1, <1>2, <2>2, <2>3, <2>4, RowMovesOn
<1>. QED BY <1>3, <1>4

\* The connector changes, or time passes.
LEMMA ConnectorSteps ==
  ASSUME GrantsInv, Grants!Upsert \/ Grants!Switch \/ Grants!DeadlinePasses \/ UNCHANGED Grants!oauthVars
  PROVE  GrantsInv'
<1>1. CASE Grants!Upsert \/ Grants!Switch \/ UNCHANGED Grants!oauthVars
  <2>1. UNCHANGED <<grant, tokens, cleanup, sweeping, request, consent, spent>>
    BY <1>1 DEF Grants!Upsert, Grants!Switch, Grants!oauthVars
  <2>2. connector' \in [version : Nat, enabled : BOOLEAN]
    <3>1. connector \in [version : Nat, enabled : BOOLEAN]
      BY DEF GrantsInv, GrantsAreTyped
    <3>2. CASE Grants!Upsert
      BY <3>1, <3>2 DEF Grants!Upsert
    <3>3. CASE Grants!Switch
      BY <3>1, <3>3 DEF Grants!Switch
    <3>4. CASE UNCHANGED Grants!oauthVars
      BY <3>1, <3>4 DEF Grants!oauthVars
    <3>. QED BY <1>1, <3>2, <3>3, <3>4
  <2>3. GrantsAreTyped'
    BY <2>1, <2>2 DEF GrantsInv, GrantsAreTyped
  <2>4. RowIsOfItsGeneration' /\ KeysAreReserved' /\ FinishedIsStored' /\ SecretsAreOlder'
    BY <2>1 DEF GrantsInv, RowIsOfItsGeneration, KeysAreReserved, FinishedIsStored, SecretsAreOlder
  <2>5. ConnectedIsStored' /\ Grants!TokensAreTracked' /\ Grants!SecretsAreUsedOnce'
    BY <2>1 DEF GrantsInv, ConnectedIsStored, Grants!TokensAreTracked, Grants!SecretsAreUsedOnce
  <2>. QED BY <2>3, <2>4, <2>5 DEF GrantsInv
<1>2. CASE Grants!DeadlinePasses
  <2>1. /\ UNCHANGED <<connector, tokens, cleanup, sweeping, request, consent, spent>>
        /\ grant' = [grant EXCEPT !.late = TRUE]
    BY <1>2 DEF Grants!DeadlinePasses
  <2>2. GrantsAreTyped'
    BY <2>1 DEF GrantsInv, GrantsAreTyped
  <2>3. /\ grant'.gen = grant.gen /\ grant'.key = grant.key /\ grant'.login = grant.login
        /\ grant'.state = grant.state
    BY <2>1 DEF GrantsInv, GrantsAreTyped
  <2>. QED BY <2>1, <2>2, <2>3 DEF GrantsInv, RowIsOfItsGeneration, KeysAreReserved, FinishedIsStored,
                             ConnectedIsStored, SecretsAreOlder, Grants!TokensAreTracked, Grants!SecretsAreUsedOnce
<1>. QED BY <1>1, <1>2

\* An exchange ends; it may have connected the grant.
LEMMA EndSteps ==
  ASSUME GrantsInv, NEW w \in Worker, Grants!Finish(w) \/ Grants!Fail(w) \/ Grants!Crash(w)
  PROVE  GrantsInv'
<1>1. request' = [request EXCEPT ![w] = Grants!Idle] /\ UNCHANGED <<connector, tokens, sweeping, spent, consent>>
  BY DEF Grants!Finish, Grants!Fail, Grants!Crash
<1>2. /\ request' \in [Worker -> {Grants!Idle} \cup AtWork] /\ request'[w] = Grants!Idle
      /\ \A v \in Worker : request'[v] \in {Grants!Idle, request[v]} /\ (v # w => request'[v] = request[v])
  BY <1>1 DEF GrantsInv, GrantsAreTyped
<1>3. CASE UNCHANGED <<grant, cleanup>>
  <2>1. GrantsAreTyped' /\ RowIsOfItsGeneration' /\ ConnectedIsStored' /\ Grants!TokensAreTracked' /\ FinishedIsStored'
    BY <1>1, <1>2, <1>3 DEF GrantsInv, GrantsAreTyped, RowIsOfItsGeneration, ConnectedIsStored, Grants!TokensAreTracked,
                            FinishedIsStored, Grants!Idle
  <2>2. KeysAreReserved'
    BY <1>1, <1>2, <1>3, GrantTypes DEF GrantsInv, KeysAreReserved, Grants!Idle
  <2>3. SecretsAreOlder' /\ Grants!SecretsAreUsedOnce'
    BY <1>1, <1>2, <1>3 DEF GrantsInv, SecretsAreOlder, Grants!SecretsAreUsedOnce, Grants!Idle
  <2>. QED BY <2>1, <2>2, <2>3 DEF GrantsInv
<1>4. CASE Grants!Fail(w) /\ Grants!Cleared("reauthorization_required")
  BY <1>1, <1>2, <1>4, GrantTypes, RowMovesOn DEF Grants!Cleared, GrantsInv, GrantsAreTyped
<1>5. CASE Grants!Finish(w) /\ Grants!MayFinish(request[w])
  <2>1. /\ grant' = [grant EXCEPT !.state = "connected"] /\ cleanup' = cleanup
        /\ request[w].step = "finish" /\ grant.gen = request[w].key /\ grant.state = request[w].phase
    BY <1>5 DEF Grants!Finish, Grants!MayFinish, Grants!Claimed
  <2>2. request[w] \in AtWork /\ request[w] # Grants!Idle
    BY <2>1, GrantTypes DEF Grants!Idle
  <2>3. grant.state \in {"exchanging", "refreshing"}
    BY <2>1, <2>2 DEF AtWork
  <2>4. /\ grant'.gen = grant.gen /\ grant'.key = grant.key /\ grant'.login = grant.login
        /\ grant'.state = "connected" /\ GrantsAreTyped'
    BY <1>1, <1>2, <2>1 DEF GrantsInv, GrantsAreTyped
  <2>5. RowIsOfItsGeneration'
    BY <1>1, <2>3, <2>4 DEF GrantsInv, RowIsOfItsGeneration, Grants!Live
  <2>6. ConnectedIsStored'
    BY <1>1, <2>1, <2>2, <2>3, <2>4
       DEF GrantsInv, ConnectedIsStored, FinishedIsStored, KeysAreReserved, RowIsOfItsGeneration
  <2>7. KeysAreReserved'
    <3>1. ASSUME NEW v \in Worker, request'[v] # Grants!Idle
          PROVE  /\ request'[v].key \in cleanup' /\ request'[v].key # grant'.gen
                 /\ \A x \in Worker \ {v} : request'[x].key # request'[v].key
      <4>1. v # w /\ request'[v] = request[v] /\ request[v] # Grants!Idle
        BY <1>2, <3>1
      <4>2. request[v].key \in cleanup /\ request[v].key # 0 /\ request[w].key # request[v].key
        BY <4>1, GrantTypes DEF GrantsInv, KeysAreReserved
      <4>3. ASSUME NEW x \in Worker \ {v} PROVE request'[x].key # request'[v].key
        BY <1>2, <4>1, <4>2, <4>3 DEF GrantsInv, KeysAreReserved, Grants!Idle
      <4>. QED BY <2>1, <2>4, <4>1, <4>2, <4>3
    <3>2. sweeping' # 0 => /\ sweeping' \in 1..grant'.gen /\ sweeping' # grant'.key
                           /\ \A v \in Worker : request'[v].key # sweeping'
      BY <1>1, <1>2, <2>4 DEF GrantsInv, KeysAreReserved, Grants!Idle
    <3>. QED BY <2>1, <2>4, <3>1, <3>2 DEF GrantsInv, KeysAreReserved
  <2>8. Grants!TokensAreTracked' /\ FinishedIsStored'
    BY <1>1, <1>2, <2>1 DEF GrantsInv, Grants!TokensAreTracked, FinishedIsStored, Grants!Idle
  <2>9. SecretsAreOlder' /\ Grants!SecretsAreUsedOnce'
    BY <1>1, <1>2, <2>4 DEF GrantsInv, SecretsAreOlder, Grants!SecretsAreUsedOnce, Grants!Idle
  <2>. QED BY <2>4, <2>5, <2>6, <2>7, <2>8, <2>9 DEF GrantsInv
<1>. QED BY <1>3, <1>4, <1>5 DEF Grants!Finish, Grants!Fail, Grants!Crash

\* A destination is committed: a key, and a generation, of its own.
LEMMA ReserveKeeps ==
  ASSUME GrantsInv, NEW w \in Worker, NEW phase \in {"exchanging", "refreshing"},
         NEW kind \in {"code", "refresh"}, Grants!Reserve(w, phase, <<kind, grant.gen>>, consent), consent # 0
  PROVE  GrantsInv'
<1>. DEFINE key == grant.gen + 1
            r == [step |-> "exchange", phase |-> phase, key |-> key, version |-> connector.version,
                  secret |-> <<kind, grant.gen>>, login |-> consent, refreshable |-> FALSE]
<1>1. /\ cleanup' = (cleanup \cup Grants!Keyed(grant)) \cup {key}
      /\ grant' = [gen |-> key, version |-> connector.version, state |-> phase, key |-> key, login |-> 0,
                   late |-> FALSE]
      /\ request' = [request EXCEPT ![w] = r] /\ request[w] = Grants!Idle
      /\ UNCHANGED <<connector, tokens, sweeping, consent, spent>>
  BY DEF Grants!Reserve
<1>2. r \in AtWork /\ r # Grants!Idle /\ r.key = key /\ r.step = "exchange" /\ r.login = consent
      /\ r.secret = <<kind, grant.gen>>
  BY GrantTypes DEF AtWork, Grants!Idle, GrantsInv, GrantsAreTyped
<1>3. /\ key \in Nat /\ key > grant.gen /\ grant.gen \in Nat
      /\ grant'.gen = key /\ grant'.key = key /\ grant'.state = phase
  BY <1>1, GrantTypes
<1>. HIDE DEF r
<1>4. /\ request' \in [Worker -> {Grants!Idle} \cup AtWork] /\ request'[w] = r
      /\ \A v \in Worker : v # w => request'[v] = request[v]
  BY <1>1, <1>2 DEF GrantsInv, GrantsAreTyped
<1>5. GrantsAreTyped'
  <2>1. grant' \in [gen : Nat, version : Nat, key : Nat, login : Nat, late : BOOLEAN,
                    state : {"disconnected", "authorizing", "exchanging", "refreshing", "connected",
                             "reauthorization_required"}]
    BY <1>1, <1>3, GrantTypes
  <2>2. cleanup' \subseteq Nat
    BY <1>1, <1>3, GrantTypes
  <2>. QED BY <1>1, <1>4, <2>1, <2>2 DEF GrantsInv, GrantsAreTyped
<1>6. RowIsOfItsGeneration' /\ ConnectedIsStored'
  BY <1>1, <1>3, GrantTypes DEF RowIsOfItsGeneration, ConnectedIsStored
<1>7. KeysAreReserved'
  <2>1. cleanup' \subseteq 1..grant'.gen
    BY <1>1, <1>3, GrantTypes
  <2>2. ASSUME NEW v \in Worker, request'[v] # Grants!Idle
        PROVE  /\ request'[v].key \in cleanup'
               /\ request'[v].key = grant'.gen => request'[v].login = consent' /\ grant'.state # "connected"
               /\ \A x \in Worker \ {v} : request'[x].key # request'[v].key
    <3>1. CASE v = w
      BY <1>1, <1>2, <1>3, <1>4, <3>1, GrantTypes
    <3>2. CASE v # w
      <4>1. request'[v] = request[v] /\ request[v] # Grants!Idle /\ request[v].key \in 1..grant.gen
        BY <1>4, <2>2, <3>2, GrantTypes
      <4>2. request[v].key \in cleanup /\ \A x \in Worker \ {v} : request[x].key # request[v].key
        BY <4>1 DEF GrantsInv, KeysAreReserved
      <4>. QED BY <1>1, <1>2, <1>3, <1>4, <4>1, <4>2
    <3>. QED BY <3>1, <3>2
  <2>3. sweeping' # 0 => /\ sweeping' \in 1..grant'.gen /\ sweeping' # grant'.key
                         /\ \A v \in Worker : request'[v].key # sweeping'
    BY <1>1, <1>2, <1>3, <1>4 DEF GrantsInv, KeysAreReserved
  <2>. QED BY <2>1, <2>2, <2>3 DEF KeysAreReserved
<1>8. FinishedIsStored' /\ Grants!TokensAreTracked'
  BY <1>1, <1>2, <1>4 DEF GrantsInv, FinishedIsStored, Grants!TokensAreTracked
<1>9. SecretsAreOlder'
  <2>1. ASSUME NEW s \in spent PROVE s[2] < grant'.gen
    BY <1>3, <2>1 DEF GrantsInv, SecretsAreOlder, GrantsAreTyped
  <2>2. ASSUME NEW v \in Worker, request'[v].step = "exchange" PROVE request'[v].secret[2] < grant'.gen
    <3>1. CASE v = w
      BY <1>2, <1>3, <1>4, <3>1
    <3>2. CASE v # w
      <4>1. request'[v] = request[v] /\ request[v] \in AtWork
        BY <1>4, <2>2, <3>2, GrantTypes DEF Grants!Idle
      <4>. QED BY <1>3, <2>2, <4>1 DEF GrantsInv, SecretsAreOlder, AtWork
    <3>. QED BY <3>1, <3>2
  <2>. QED BY <1>1, <2>1, <2>2 DEF SecretsAreOlder
<1>10. Grants!SecretsAreUsedOnce'
  <2>1. ASSUME NEW v \in Worker, v # w, request'[v].step = "exchange"
        PROVE  request'[v].secret # <<kind, grant.gen>>
    <3>1. request'[v] = request[v] /\ request[v].secret[2] < grant.gen
      BY <1>4, <2>1 DEF GrantsInv, SecretsAreOlder
    <3>. QED BY <1>3, <3>1
  <2>2. <<kind, grant.gen>> \notin spent
    BY <1>3 DEF GrantsInv, SecretsAreOlder
  <2>3. ASSUME NEW v \in Worker, request'[v].step = "exchange"
        PROVE  /\ request'[v].secret \notin spent'
               /\ \A x \in Worker \ {v} : request'[x].step = "exchange" => request'[x].secret # request'[v].secret
    <3>1. CASE v = w
      BY <1>1, <1>2, <1>4, <2>1, <2>2, <3>1
    <3>2. CASE v # w
      BY <1>1, <1>2, <1>4, <2>1, <2>3, <3>2 DEF GrantsInv, Grants!SecretsAreUsedOnce
    <3>. QED BY <3>1, <3>2
  <2>. QED BY <2>3 DEF Grants!SecretsAreUsedOnce
<1>. QED BY <1>5, <1>6, <1>7, <1>8, <1>9, <1>10 DEF GrantsInv

LEMMA ReserveSteps ==
  ASSUME GrantsInv, NEW w \in Worker, Grants!Refresh(w) \/ \E login \in 1..4 : Grants!Complete(w, login)
  PROVE  GrantsInv'
<1>1. ASSUME NEW login \in 1..4, Grants!Complete(w, login) PROVE GrantsInv'
  <2>1. login = grant.gen /\ login = consent /\ consent # 0
    BY <1>1 DEF Grants!Complete, Grants!Expected, GrantsInv, RowIsOfItsGeneration, Grants!Live
  <2>. QED BY <1>1, <2>1, ReserveKeeps DEF Grants!Complete
<1>2. CASE Grants!Refresh(w)
  <2>1. grant.key = grant.gen /\ tokens[grant.key].login = consent /\ consent # 0
    BY <1>2 DEF Grants!Refresh, Grants!Connected, GrantsInv, RowIsOfItsGeneration, ConnectedIsStored, Grants!Live
  <2>. QED BY <1>2, <2>1, ReserveKeeps DEF Grants!Refresh
<1>. QED BY <1>1, <1>2

\* The provider is asked, the vault is written.
LEMMA ExchangeSteps ==
  ASSUME GrantsInv, NEW w \in Worker, Grants!Exchange(w) \/ Grants!ExchangeFails(w) \/ Grants!WriteToken(w)
  PROVE  GrantsInv'
<1>. DEFINE r == request[w]
<1>1. UNCHANGED <<connector, grant, cleanup, sweeping, consent>>
  BY DEF Grants!Exchange, Grants!ExchangeFails, Grants!WriteToken
<1>2. r \in AtWork /\ r # Grants!Idle
  BY GrantTypes DEF Grants!Exchange, Grants!ExchangeFails, Grants!WriteToken, Grants!Idle
<1>3. PICK n \in AtWork : /\ request' = [request EXCEPT ![w] = n]
                          /\ n.key = r.key /\ n.login = r.login /\ n.secret = r.secret /\ n.step # "exchange"
                          /\ n.step = "finish" => Grants!WriteToken(w)
  <2>1. CASE Grants!Exchange(w)
    <3>1. PICK refreshable \in BOOLEAN :
            request' = [request EXCEPT ![w] = [r EXCEPT !.step = "write", !.refreshable = refreshable]]
      BY <2>1 DEF Grants!Exchange
    <3>2. PICK n \in AtWork : n = [r EXCEPT !.step = "write", !.refreshable = refreshable]
      BY <1>2 DEF AtWork
    <3>3. n.step = "write" /\ n.key = r.key /\ n.login = r.login /\ n.secret = r.secret
      BY <1>2, <3>2 DEF AtWork
    <3>. QED BY <3>1, <3>2, <3>3
  <2>2. CASE Grants!ExchangeFails(w)
    <3>1. request' = [request EXCEPT ![w] = [r EXCEPT !.step = "fail"]]
      BY <2>2 DEF Grants!ExchangeFails
    <3>2. PICK n \in AtWork : n = [r EXCEPT !.step = "fail"]
      BY <1>2 DEF AtWork
    <3>3. n.step = "fail" /\ n.key = r.key /\ n.login = r.login /\ n.secret = r.secret
      BY <1>2, <3>2 DEF AtWork
    <3>. QED BY <3>1, <3>2, <3>3
  <2>3. CASE Grants!WriteToken(w)
    <3>1. PICK next \in {"finish", "fail"} : request' = [request EXCEPT ![w] = [r EXCEPT !.step = next]]
      BY <2>3 DEF Grants!WriteToken
    <3>2. PICK n \in AtWork : n = [r EXCEPT !.step = next]
      BY <1>2 DEF AtWork
    <3>3. n.step = next /\ n.key = r.key /\ n.login = r.login /\ n.secret = r.secret
      BY <1>2, <3>2 DEF AtWork
    <3>. QED BY <2>3, <3>1, <3>2, <3>3
  <2>. QED BY <2>1, <2>2, <2>3
<1>4. /\ request' \in [Worker -> {Grants!Idle} \cup AtWork] /\ request'[w] = n /\ n # Grants!Idle
      /\ \A v \in Worker : v # w => request'[v] = request[v]
  BY <1>3 DEF GrantsInv, GrantsAreTyped, AtWork, Grants!Idle
<1>5. \A v \in Worker : /\ request'[v].key = request[v].key
                        /\ request'[v] = Grants!Idle <=> request[v] = Grants!Idle
                        /\ request'[v].login = request[v].login \/ request[v] = Grants!Idle
  BY <1>2, <1>3, <1>4
<1>6. spent' = spent \/ (r.step = "exchange" /\ spent' = spent \cup {r.secret})
  BY DEF Grants!Exchange, Grants!ExchangeFails, Grants!WriteToken
<1>7. /\ r.key \in cleanup
      /\ r.key = grant.gen => r.login = consent /\ grant.state # "connected"
      /\ \A v \in Worker \ {w} : request[v].key # r.key
  BY <1>2 DEF GrantsInv, KeysAreReserved
<1>8. \/ tokens' = tokens
      \/ /\ DOMAIN tokens' = DOMAIN tokens \cup {r.key} /\ tokens'[r.key].login = r.login
         /\ \A k \in DOMAIN tokens : k # r.key => tokens'[k] = tokens[k]
  BY DEF Grants!Exchange, Grants!ExchangeFails, Grants!WriteToken, Grants!Stored
<1>9. n.step = "finish" => r.key \in DOMAIN tokens' /\ tokens'[r.key].login = r.login
  BY <1>3 DEF Grants!WriteToken, Grants!Stored
<1>. HIDE DEF r
<1>10. GrantsAreTyped'
  <2>1. spent' \subseteq {"code", "refresh"} \X Nat
    BY <1>2, <1>6 DEF GrantsInv, GrantsAreTyped, AtWork
  <2>. QED BY <1>1, <1>4, <2>1 DEF GrantsInv, GrantsAreTyped
<1>11. RowIsOfItsGeneration'
  BY <1>1 DEF GrantsInv, RowIsOfItsGeneration
<1>12. ConnectedIsStored'
  BY <1>1, <1>7, <1>8 DEF GrantsInv, ConnectedIsStored, RowIsOfItsGeneration
<1>13. KeysAreReserved'
  BY <1>1, <1>5 DEF GrantsInv, KeysAreReserved
<1>14. FinishedIsStored'
  <2>. SUFFICES ASSUME NEW v \in Worker, request'[v].step = "finish"
       PROVE  request'[v].key \in DOMAIN tokens' /\ tokens'[request'[v].key].login = request'[v].login
    BY DEF FinishedIsStored
  <2>1. CASE v = w
    BY <1>3, <1>4, <1>9, <2>1
  <2>2. CASE v # w
    BY <1>4, <1>7, <1>8, <2>2 DEF GrantsInv, FinishedIsStored
  <2>. QED BY <2>1, <2>2
<1>15. Grants!TokensAreTracked'
  BY <1>1, <1>7, <1>8 DEF GrantsInv, Grants!TokensAreTracked
<1>16. SecretsAreOlder'
  BY <1>1, <1>3, <1>4, <1>6 DEF GrantsInv, SecretsAreOlder, r
<1>17. Grants!SecretsAreUsedOnce'
  BY <1>3, <1>4, <1>6 DEF GrantsInv, Grants!SecretsAreUsedOnce, r
<1>. QED BY <1>10, <1>11, <1>12, <1>13, <1>14, <1>15, <1>16, <1>17 DEF GrantsInv

\* Maintenance deletes nothing that is in use or may still be written.
LEMMA SweepSteps ==
  ASSUME GrantsInv, (\E k \in 1..4 : Grants!SelectKey(k)) \/ Grants!DestroyToken \/ Grants!ForgetKey \/ Grants!AbandonSweep
  PROVE  GrantsInv'
<1>1. UNCHANGED <<connector, grant, request, consent, spent>>
  BY DEF Grants!SelectKey, Grants!DestroyToken, Grants!ForgetKey, Grants!AbandonSweep
<1>2. /\ cleanup' \subseteq cleanup
      /\ \A k \in cleanup : k \notin cleanup' => k = sweeping /\ sweeping # 0 /\ k \notin DOMAIN tokens
  BY DEF Grants!SelectKey, Grants!DestroyToken, Grants!ForgetKey, Grants!AbandonSweep
<1>3. \/ sweeping' \in {0, sweeping}
      \/ sweeping' \in cleanup /\ sweeping' # grant.key /\ \A w \in Worker : request[w].key # sweeping'
  BY DEF Grants!SelectKey, Grants!DestroyToken, Grants!ForgetKey, Grants!AbandonSweep, Grants!Orphaned
<1>4. /\ DOMAIN tokens' \subseteq DOMAIN tokens
      /\ \A k \in DOMAIN tokens : k # sweeping \/ sweeping = 0 => k \in DOMAIN tokens' /\ tokens'[k] = tokens[k]
  BY DEF Grants!SelectKey, Grants!DestroyToken, Grants!ForgetKey, Grants!AbandonSweep
<1>5. GrantsAreTyped'
  <2>1. cleanup \subseteq Nat /\ sweeping \in Nat
    BY DEF GrantsInv, GrantsAreTyped
  <2>2. cleanup' \subseteq Nat
    BY <1>2, <2>1
  <2>3. sweeping' \in Nat
    <3>1. sweeping' \in {0, sweeping} \cup cleanup
      BY <1>3
    <3>. QED BY <2>1, <3>1
  <2>. QED BY <1>1, <2>2, <2>3 DEF GrantsInv, GrantsAreTyped
<1>6. RowIsOfItsGeneration' /\ SecretsAreOlder' /\ Grants!SecretsAreUsedOnce'
  BY <1>1 DEF GrantsInv, RowIsOfItsGeneration, SecretsAreOlder, Grants!SecretsAreUsedOnce
<1>7. KeysAreReserved'
  BY <1>1, <1>2, <1>3, GrantTypes DEF GrantsInv, KeysAreReserved
<1>8. ConnectedIsStored'
  BY <1>1, <1>4 DEF GrantsInv, ConnectedIsStored, KeysAreReserved
<1>9. FinishedIsStored'
  BY <1>1, <1>4, GrantTypes DEF GrantsInv, FinishedIsStored, KeysAreReserved, Grants!Idle
<1>10. Grants!TokensAreTracked'
  BY <1>2, <1>4 DEF GrantsInv, Grants!TokensAreTracked
<1>. QED BY <1>5, <1>6, <1>7, <1>8, <1>9, <1>10 DEF GrantsInv

LEMMA GrantsNext == GrantsInv /\ [Grants!OAuthNext]_Grants!oauthVars => GrantsInv'
<1>. SUFFICES ASSUME GrantsInv, [Grants!OAuthNext]_Grants!oauthVars PROVE GrantsInv'
  OBVIOUS
<1>1. CASE UNCHANGED Grants!oauthVars
  BY <1>1, ConnectorSteps
<1>2. CASE Grants!OAuthNext
  BY <1>2, RowSteps, ConnectorSteps, EndSteps, ReserveSteps, ExchangeSteps, SweepSteps DEF Grants!OAuthNext
<1>. QED BY <1>1, <1>2

LEMMA GrantsSound == GrantsInv => Grants!GrantHolds
BY DEF GrantsInv, Grants!GrantHolds, Grants!GrantIsConsented, ConnectedIsStored, RowIsOfItsGeneration, Grants!Shown,
   Grants!Live

-----------------------------------------
Tools == INSTANCE Invocations WITH
  User <- {"ann", "bob"}, Call <- {c1, c2}, MaxApproval <- 1, MaxVersion <- 2, Sensitive <- {1}, Probes <- 2,
  manifest <- s1, cached <- s2, approvals <- s3, calls <- s4, breaker <- s5

manifest == s1
cached == s2
approvals == s3
calls == s4
breaker == s5
User == {"ann", "bob"}
Call == {c1, c2}

USE DEF manifest, cached, approvals, calls, breaker, User, Call

\* A call in progress: the approval it carries, and what it found out.
InProgress ==
  [step : {"invoke"}, user : User, approval : Nat]
  \cup [step : {"ask", "routed"}, user : User, approval : Nat, version : Nat]
  \cup [step : {"calling"}, mode : {"closed", "half_open"}, user : User, approval : Nat, version : Nat]

ApprovalRow == [user : User, version : Nat, status : {"pending", "approved", "rejected", "consumed"},
        approver : User \cup {"nobody"}, live : BOOLEAN]

CallsAreTyped ==
  /\ manifest \in [version : Nat, enabled : BOOLEAN] /\ cached \in Nat
  /\ \A a \in Tools!Asked : approvals[a] \in ApprovalRow
  /\ calls \in [Call -> {Tools!Resting} \cup InProgress]

\* Who decided is not who asked.
OthersDecide ==
  \A a \in Tools!Asked :
    approvals[a].status \in {"approved", "consumed"} => approvals[a].approver \in User \ {approvals[a].user}

\* An approval is consumed by the one call that carries it, from its first step on.
CarriedOnce ==
  \A c \in Call : calls[c] # Tools!Resting /\ calls[c].approval # 0 =>
    /\ calls[c].approval \in Tools!Asked /\ approvals[calls[c].approval].status = "consumed"
    /\ approvals[calls[c].approval].user = calls[c].user
    /\ \A d \in Call \ {c} : calls[d] # Tools!Resting => calls[d].approval # calls[c].approval

\* What passed the gates and is sensitive carries an approval.
GatesPassed ==
  \A c \in Call : calls[c].step \in {"routed", "calling"} /\ calls[c].version \in {1} => calls[c].approval # 0

CallsInv == CallsAreTyped /\ OthersDecide /\ CarriedOnce /\ GatesPassed /\ Tools!ProbesAreOut

LEMMA CallsInit == Tools!InvocationInit => CallsInv
<1>. SUFFICES ASSUME Tools!InvocationInit PROVE CallsInv
  OBVIOUS
<1>1. Tools!Asked = {} /\ \A c \in Call : calls[c] = Tools!Resting
  BY DEF Tools!InvocationInit, Tools!Asked
<1>. QED BY <1>1 DEF Tools!InvocationInit, CallsInv, CallsAreTyped, OthersDecide, CarriedOnce, GatesPassed,
                     Tools!ProbesAreOut, Tools!Resting

\* The types of a call and of what a lookup finds.
LEMMA CallTypes ==
  ASSUME CallsInv
  PROVE  /\ Tools!Found \subseteq Nat
         /\ \A c \in Call : calls[c].step = "resting" <=> calls[c] = Tools!Resting
         /\ \A c \in Call : calls[c] # Tools!Resting =>
              calls[c] \in InProgress /\ calls[c].approval \in Nat /\ calls[c].user \in User
         /\ \A c \in Call : calls[c].step \in {"ask", "routed", "calling"} => calls[c].version \in Nat
<1>1. Tools!Found \subseteq Nat
  BY DEF CallsInv, CallsAreTyped, Tools!Found
<1>2. ASSUME NEW c \in Call
      PROVE  /\ calls[c].step = "resting" <=> calls[c] = Tools!Resting
             /\ calls[c] # Tools!Resting => calls[c] \in InProgress /\ calls[c].approval \in Nat /\ calls[c].user \in User
             /\ calls[c].step \in {"ask", "routed", "calling"} => calls[c].version \in Nat
  <2>1. CASE calls[c] = Tools!Resting
    BY <2>1 DEF Tools!Resting
  <2>2. CASE calls[c] \in InProgress
    BY <2>2 DEF InProgress, Tools!Resting
  <2>. QED BY <2>1, <2>2 DEF CallsInv, CallsAreTyped
<1>. QED BY <1>1, <1>2

\* The administrators' steps leave the calls alone, and what was consumed.
LEMMA AdministratorSteps ==
  ASSUME CallsInv,
         \/ \E local \in BOOLEAN : Tools!Upsert(local) \/ Tools!Switch(local)
         \/ Tools!CacheExpires
         \/ \E a \in Tools!Approval : Tools!ApprovalExpires(a)
         \/ \E a \in Tools!Approval, approver \in User, decision \in {"approved", "rejected"} :
              Tools!Decide(a, approver, decision)
         \/ UNCHANGED Tools!invocationVars
  PROVE  CallsInv'
<1>1. UNCHANGED <<calls, breaker>>
  BY DEF Tools!Upsert, Tools!Switch, Tools!CacheExpires, Tools!ApprovalExpires, Tools!Decide,
         Tools!invocationVars
<1>2. manifest' \in [version : Nat, enabled : BOOLEAN] /\ cached' \in Nat
  <2>1. manifest \in [version : Nat, enabled : BOOLEAN] /\ cached \in Nat
    BY DEF CallsInv, CallsAreTyped
  <2>2. ASSUME NEW local \in BOOLEAN, Tools!Upsert(local)
        PROVE  manifest' \in [version : Nat, enabled : BOOLEAN] /\ cached' \in Nat
    BY <2>1, <2>2 DEF Tools!Upsert, Tools!Forgets
  <2>3. ASSUME NEW local \in BOOLEAN, Tools!Switch(local)
        PROVE  manifest' \in [version : Nat, enabled : BOOLEAN] /\ cached' \in Nat
    BY <2>1, <2>3 DEF Tools!Switch, Tools!Forgets
  <2>4. CASE Tools!CacheExpires
    BY <2>1, <2>4 DEF Tools!CacheExpires
  <2>5. CASE UNCHANGED <<manifest, cached>>
    BY <2>1, <2>5
  <2>. QED BY <2>2, <2>3, <2>4, <2>5 DEF Tools!ApprovalExpires, Tools!Decide, Tools!invocationVars
<1>3. /\ Tools!Asked' = Tools!Asked
      /\ \A a \in Tools!Asked : /\ approvals'[a] \in ApprovalRow /\ approvals'[a].user = approvals[a].user
                                /\ approvals[a].status = "consumed" => approvals'[a].status = "consumed"
                                /\ approvals'[a].status \in {"approved", "consumed"} =>
                                     approvals'[a].approver \in User \ {approvals[a].user}
  <2>1. \A a \in Tools!Asked : approvals[a] \in ApprovalRow
    BY DEF CallsInv, CallsAreTyped
  <2>2. CASE UNCHANGED approvals
    BY <2>1, <2>2 DEF CallsInv, OthersDecide, ApprovalRow, Tools!Asked
  <2>3. ASSUME NEW b \in Tools!Approval, Tools!ApprovalExpires(b)
        PROVE  /\ Tools!Asked' = Tools!Asked
               /\ \A a \in Tools!Asked : /\ approvals'[a] \in ApprovalRow /\ approvals'[a].user = approvals[a].user
                                         /\ approvals'[a].status = approvals[a].status
                                         /\ approvals'[a].approver = approvals[a].approver
    <3>1. b \in Tools!Asked /\ approvals' = [approvals EXCEPT ![b] = [approvals[b] EXCEPT !.live = FALSE]]
      BY <2>3 DEF Tools!ApprovalExpires
    <3>2. PICK row \in ApprovalRow : row = [approvals[b] EXCEPT !.live = FALSE]
      BY <2>1, <3>1 DEF ApprovalRow
    <3>3. row.user = approvals[b].user /\ row.status = approvals[b].status /\ row.approver = approvals[b].approver
      BY <2>1, <3>1, <3>2 DEF ApprovalRow
    <3>. QED BY <2>1, <3>1, <3>2, <3>3 DEF Tools!Asked
  <2>4. ASSUME NEW b \in Tools!Approval, NEW approver \in User, NEW decision \in {"approved", "rejected"},
               Tools!Decide(b, approver, decision)
        PROVE  /\ Tools!Asked' = Tools!Asked
               /\ \A a \in Tools!Asked : \/ approvals'[a] = approvals[a]
                                         \/ /\ approvals'[a] \in ApprovalRow /\ approvals'[a].user = approvals[a].user
                                            /\ approvals[a].status = "pending" /\ approvals'[a].approver = approver
                                            /\ approver # approvals[a].user
    <3>1. /\ b \in Tools!Asked /\ approvals[b].status = "pending" /\ approvals[b].user # approver
          /\ approvals' = [approvals EXCEPT ![b] =
               [approvals[b] EXCEPT !.status = decision, !.approver = approver]]
      BY <2>4 DEF Tools!Decide, Tools!Decidable
    <3>2. PICK row \in ApprovalRow : row = [approvals[b] EXCEPT !.status = decision, !.approver = approver]
      BY <2>1, <3>1 DEF ApprovalRow
    <3>3. row.user = approvals[b].user /\ row.approver = approver
      BY <2>1, <3>1, <3>2 DEF ApprovalRow
    <3>. QED BY <2>1, <3>1, <3>2, <3>3 DEF Tools!Asked
  <2>5. CASE \E b \in Tools!Approval : Tools!ApprovalExpires(b)
    BY <2>3, <2>5 DEF CallsInv, OthersDecide
  <2>6. CASE \E b \in Tools!Approval, approver \in User, decision \in {"approved", "rejected"} :
               Tools!Decide(b, approver, decision)
    BY <2>1, <2>4, <2>6 DEF CallsInv, OthersDecide
  <2>. QED BY <2>2, <2>5, <2>6 DEF Tools!Upsert, Tools!Switch, Tools!CacheExpires,
              Tools!invocationVars
<1>4. CallsAreTyped' /\ OthersDecide'
  BY <1>1, <1>2, <1>3 DEF CallsInv, CallsAreTyped, OthersDecide
<1>5. CarriedOnce'
  BY <1>1, <1>3 DEF CallsInv, CarriedOnce
<1>6. GatesPassed' /\ Tools!ProbesAreOut'
  BY <1>1 DEF CallsInv, GatesPassed, Tools!ProbesAreOut, Tools!Calling
<1>. QED BY <1>4, <1>5, <1>6 DEF CallsInv

\* A step of a call keeps the approval it carries, or the call ends.
LEMMA CallMovesOn ==
  ASSUME CallsInv, NEW c \in Call, NEW n \in {Tools!Resting} \cup InProgress, calls' = [calls EXCEPT ![c] = n],
         n # Tools!Resting => n.approval = calls[c].approval /\ n.user = calls[c].user /\ calls[c] # Tools!Resting,
         n.step \in {"routed", "calling"} /\ n.version \in {1} => n.approval # 0,
         UNCHANGED manifest, cached' \in Nat,
         \A a \in Tools!Asked : a \in Tools!Asked' /\ approvals'[a] = approvals[a],
         \A a \in Tools!Asked' \ Tools!Asked : approvals'[a] \in ApprovalRow /\ approvals'[a].status = "pending",
         Tools!ProbesAreOut'
  PROVE  CallsInv'
<1>1. /\ calls' \in [Call -> {Tools!Resting} \cup InProgress] /\ calls'[c] = n
      /\ \A d \in Call : d # c => calls'[d] = calls[d]
  BY DEF CallsInv, CallsAreTyped
<1>2. CallsAreTyped' /\ OthersDecide'
  BY <1>1 DEF CallsInv, CallsAreTyped, OthersDecide, ApprovalRow
<1>3. CarriedOnce'
  <2>1. \A d \in Call : calls'[d] # Tools!Resting =>
          calls[d] # Tools!Resting /\ calls'[d].approval = calls[d].approval /\ calls'[d].user = calls[d].user
    BY <1>1
  <2>. QED BY <2>1 DEF CallsInv, CarriedOnce
<1>4. GatesPassed'
  BY <1>1 DEF CallsInv, GatesPassed
<1>. QED BY <1>2, <1>3, <1>4 DEF CallsInv

\* A call that was not out leaves the probes as they are.
LEMMA ProbesStay ==
  ASSUME CallsInv, NEW c \in Call, NEW n, calls' = [calls EXCEPT ![c] = n], UNCHANGED breaker, calls[c].step # "calling"
  PROVE  Tools!ProbesAreOut'
BY DEF CallsInv, CallsAreTyped, Tools!ProbesAreOut, Tools!Calling

LEMMA GateSteps ==
  ASSUME CallsInv, NEW c \in Call, Tools!Route(c) \/ Tools!AskApproval(c) \/ Tools!Refuse(c)
  PROVE  CallsInv'
<1>1. calls[c].step \in {"invoke", "ask", "routed"} /\ UNCHANGED <<manifest, breaker>> /\ cached' \in Nat
  BY CallTypes DEF Tools!Route, Tools!AskApproval, Tools!Refuse, CallsInv, CallsAreTyped
<1>2. calls[c] # Tools!Resting /\ calls[c] \in InProgress /\ calls[c].approval \in Nat /\ calls[c].user \in User
  BY <1>1, CallTypes
<1>3. CASE Tools!Route(c)
  <2>1. PICK version \in Nat, step \in {"ask", "routed"} :
          /\ calls' = [calls EXCEPT ![c] =
               [step |-> step, user |-> calls[c].user, approval |-> calls[c].approval, version |-> version]]
          /\ step = "routed" /\ version \in {1} => calls[c].approval # 0
    BY <1>3, CallTypes DEF Tools!Route, Tools!NeedsApproval
  <2>2. PICK n \in InProgress :
          n = [step |-> step, user |-> calls[c].user, approval |-> calls[c].approval, version |-> version]
    BY <1>2 DEF InProgress
  <2>3. UNCHANGED approvals /\ Tools!Asked' = Tools!Asked
    BY <1>3 DEF Tools!Route, Tools!Asked
  <2>. QED BY <1>1, <1>2, <2>1, <2>2, <2>3, CallMovesOn, ProbesStay
<1>4. CASE Tools!AskApproval(c)
  <2>1. calls' = [calls EXCEPT ![c] = Tools!Resting]
    BY <1>4 DEF Tools!AskApproval
  <2>2. PICK n : \E version \in Nat : approvals' =
          [a \in Tools!Asked \cup {n} |->
            IF a \in Tools!Asked THEN approvals[a]
            ELSE [user |-> calls[c].user, version |-> version, status |-> "pending",
                  approver |-> "nobody", live |-> TRUE]]
    <3>1. Tools!Found \subseteq Nat
      BY CallTypes
    <3>. QED BY <1>4, <3>1 DEF Tools!AskApproval
  <2>3. \A a \in Tools!Asked : a \in Tools!Asked' /\ approvals'[a] = approvals[a]
    BY <2>2 DEF Tools!Asked
  <2>4. \A a \in Tools!Asked' \ Tools!Asked : approvals'[a] \in ApprovalRow /\ approvals'[a].status = "pending"
    BY <1>2, <2>2 DEF Tools!Asked, ApprovalRow
  <2>. QED BY <1>1, <1>2, <2>1, <2>3, <2>4, CallMovesOn, ProbesStay DEF Tools!Resting
<1>5. CASE Tools!Refuse(c)
  BY <1>1, <1>2, <1>5, CallMovesOn, ProbesStay DEF Tools!Refuse, Tools!Resting, Tools!Asked
<1>. QED BY <1>3, <1>4, <1>5

\* A call goes out, and returns.
LEMMA UpstreamSteps ==
  ASSUME CallsInv, NEW c \in Call, Tools!Allow(c) \/ Tools!Return(c)
  PROVE  CallsInv'
<1>1. /\ calls[c].step \in {"routed", "calling"}
      /\ UNCHANGED <<manifest, approvals, cached>> /\ cached' \in Nat /\ Tools!Asked' = Tools!Asked
  BY DEF Tools!Allow, Tools!Return, CallsInv, CallsAreTyped, Tools!Asked
<1>2. /\ calls[c] # Tools!Resting /\ calls[c] \in InProgress
      /\ calls[c].approval \in Nat /\ calls[c].user \in User /\ calls[c].version \in Nat
  BY <1>1, CallTypes
<1>3. CASE Tools!Allow(c)
  <2>1. PICK mode \in {"closed", "half_open"} :
          /\ mode = "closed" => breaker'.state = "closed"
          /\ calls' = [calls EXCEPT ![c] = [step |-> "calling", mode |-> mode, user |-> calls[c].user,
                                            approval |-> calls[c].approval, version |-> calls[c].version]]
    BY <1>3 DEF Tools!Allow, Tools!Admits, Tools!Admitted
  <2>2. PICK n \in InProgress : n = [step |-> "calling", mode |-> mode, user |-> calls[c].user,
                                     approval |-> calls[c].approval, version |-> calls[c].version]
    BY <1>2 DEF InProgress
  <2>3. n.version \in {1} => n.approval # 0
    BY <1>3, <2>2 DEF Tools!Allow, CallsInv, GatesPassed
  <2>4. Tools!ProbesAreOut'
    BY <2>1 DEF Tools!ProbesAreOut, Tools!Calling, CallsInv, CallsAreTyped
  <2>. QED BY <1>1, <1>2, <2>1, <2>2, <2>3, <2>4, CallMovesOn
<1>4. CASE Tools!Return(c)
  <2>1. calls' = [calls EXCEPT ![c] = Tools!Resting]
    BY <1>4 DEF Tools!Return
  <2>2. Tools!ProbesAreOut'
    <3>1. CASE calls[c].mode = "half_open"
      BY <1>4, <3>1 DEF Tools!Return, Tools!FinishHalfOpen, Tools!Closes, Tools!Opened,
                        Tools!ProbesAreOut
    <3>2. CASE calls[c].mode = "closed"
      <4>1. breaker' \in {breaker, Tools!Opened}
        BY <1>4, <3>2 DEF Tools!Return, Tools!FinishClosed
      <4>. QED BY <2>1, <3>2, <4>1 DEF Tools!Opened, Tools!ProbesAreOut, Tools!Calling, CallsInv,
                  CallsAreTyped
    <3>. QED BY <1>4, <3>1, <3>2 DEF Tools!Return
  <2>. QED BY <1>1, <1>2, <2>1, <2>2, CallMovesOn DEF Tools!Resting
<1>. QED BY <1>3, <1>4

\* A call begins, and takes the approval with it.
LEMMA BeginSteps ==
  ASSUME CallsInv, NEW c \in Call, NEW user \in User,
         Tools!Invoke(c, user) \/ \E a \in Tools!Approval : Tools!InvokeApproved(c, user, a)
  PROVE  CallsInv'
<1>1. calls[c] = Tools!Resting /\ UNCHANGED <<manifest, breaker>> /\ cached' \in Nat
  BY CallTypes DEF Tools!Invoke, Tools!InvokeApproved, CallsInv, CallsAreTyped
<1>2. PICK a \in Nat :
        /\ calls' = [calls EXCEPT ![c] = [step |-> "invoke", user |-> user, approval |-> a]]
        /\ \/ a = 0 /\ approvals' = approvals
           \/ /\ a # 0 /\ a \in Tools!Asked /\ approvals[a].status = "approved" /\ approvals[a].user = user
              /\ approvals' = [approvals EXCEPT ![a] = [approvals[a] EXCEPT !.status = "consumed"]]
  <2>1. CASE Tools!Invoke(c, user)
    BY <2>1 DEF Tools!Invoke
  <2>2. ASSUME NEW a \in Tools!Approval, Tools!InvokeApproved(c, user, a)
        PROVE  /\ a \in Nat /\ a # 0
               /\ calls' = [calls EXCEPT ![c] = [step |-> "invoke", user |-> user, approval |-> a]]
               /\ a \in Tools!Asked /\ approvals[a].status = "approved" /\ approvals[a].user = user
               /\ approvals' = [approvals EXCEPT ![a] = [approvals[a] EXCEPT !.status = "consumed"]]
    BY <2>2 DEF Tools!InvokeApproved, Tools!Usable, Tools!Approval
  <2>. QED BY <2>1, <2>2
<1>3. PICK n \in InProgress : n = [step |-> "invoke", user |-> user, approval |-> a]
  BY DEF InProgress
<1>4. /\ calls' \in [Call -> {Tools!Resting} \cup InProgress] /\ calls'[c] = n
      /\ \A d \in Call : d # c => calls'[d] = calls[d]
  BY <1>2, <1>3 DEF CallsInv, CallsAreTyped
<1>5. /\ Tools!Asked' = Tools!Asked
      /\ \A b \in Tools!Asked : b # a => approvals'[b] = approvals[b]
      /\ a # 0 => /\ a \in Tools!Asked /\ approvals[a].status = "approved" /\ approvals[a].user = user
                  /\ approvals'[a] \in ApprovalRow /\ approvals'[a].status = "consumed" /\ approvals'[a].user = user
                  /\ approvals'[a].approver = approvals[a].approver
      /\ a = 0 => approvals' = approvals
  <2>1. CASE a = 0 /\ approvals' = approvals
    BY <2>1 DEF Tools!Asked
  <2>2. CASE /\ a # 0 /\ a \in Tools!Asked /\ approvals[a].status = "approved" /\ approvals[a].user = user
             /\ approvals' = [approvals EXCEPT ![a] = [approvals[a] EXCEPT !.status = "consumed"]]
    <3>1. approvals[a] \in ApprovalRow
      BY <2>2 DEF CallsInv, CallsAreTyped
    <3>2. PICK row \in ApprovalRow : row = [approvals[a] EXCEPT !.status = "consumed"]
      BY <3>1 DEF ApprovalRow
    <3>3. row.status = "consumed" /\ row.user = approvals[a].user /\ row.approver = approvals[a].approver
      BY <3>1, <3>2 DEF ApprovalRow
    <3>. QED BY <2>2, <3>2, <3>3 DEF Tools!Asked
  <2>. QED BY <1>2, <2>1, <2>2
<1>6. CallsAreTyped'
  BY <1>1, <1>4, <1>5 DEF CallsInv, CallsAreTyped
<1>7. OthersDecide'
  BY <1>5 DEF CallsInv, OthersDecide
<1>8. CarriedOnce'
  <2>1. ASSUME NEW d \in Call, calls'[d] # Tools!Resting, calls'[d].approval # 0, d # c
        PROVE  calls'[d].approval # a /\ calls[d].approval \in Tools!Asked
    BY <1>4, <1>5, <2>1 DEF CallsInv, CarriedOnce
  <2>2. ASSUME NEW d \in Call, calls'[d] # Tools!Resting, calls'[d].approval # 0
        PROVE  /\ calls'[d].approval \in Tools!Asked' /\ approvals'[calls'[d].approval].status = "consumed"
               /\ approvals'[calls'[d].approval].user = calls'[d].user
               /\ \A e \in Call \ {d} : calls'[e] # Tools!Resting => calls'[e].approval # calls'[d].approval
    <3>1. CASE d = c
      BY <1>3, <1>4, <1>5, <2>1, <2>2, <3>1
    <3>2. CASE d # c
      BY <1>3, <1>4, <1>5, <2>1, <2>2, <3>2 DEF CallsInv, CarriedOnce
    <3>. QED BY <3>1, <3>2
  <2>. QED BY <2>2 DEF CarriedOnce
<1>9. GatesPassed'
  BY <1>3, <1>4 DEF CallsInv, GatesPassed
<1>10. Tools!ProbesAreOut'
  <2>1. calls[c].step # "calling"
    BY <1>1 DEF Tools!Resting
  <2>. QED BY <1>1, <1>2, <2>1, ProbesStay
<1>. QED BY <1>6, <1>7, <1>8, <1>9, <1>10 DEF CallsInv

LEMMA CallsNext == CallsInv /\ [Tools!InvocationNext]_Tools!invocationVars => CallsInv'
<1>. SUFFICES ASSUME CallsInv, [Tools!InvocationNext]_Tools!invocationVars PROVE CallsInv'
  OBVIOUS
<1>1. CASE UNCHANGED Tools!invocationVars
  BY <1>1, AdministratorSteps
<1>2. CASE Tools!InvocationNext
  BY <1>2, AdministratorSteps, GateSteps, UpstreamSteps, BeginSteps DEF Tools!InvocationNext
<1>. QED BY <1>1, <1>2

LEMMA CallsSound == CallsInv => Tools!CallsHold
<1>. SUFFICES ASSUME CallsInv PROVE Tools!ApprovalsAreOneShot
  BY DEF CallsInv, Tools!CallsHold
<1>1. ASSUME NEW c \in Tools!Calling
      PROVE  /\ calls[c] # Tools!Resting
             /\ calls[c].version \in {1} => calls[c].approval # 0
  BY CallTypes DEF Tools!Calling, CallsInv, GatesPassed
<1>. QED BY <1>1 DEF Tools!ApprovalsAreOneShot, CallsInv, CarriedOnce, OthersDecide, Tools!Calling

-----------------------------------------
(* Projects. *)

Projects == INSTANCE Projects WITH
  User <- {"ann", "bob"}, Client <- {c1, c2}, Name <- {"n"}, MaxDecision <- 3, Report <- {"r"}, MaxRequests <- 4,
  project <- s1, stamped <- s2, members <- s3, rows <- s4, budget <- s5, decisions <- s6, reports <- s7,
  handler <- s8, requests <- s9

project == s1
stamped == s2
members == s3
rows == s4
budget == s5
decisions == s6
reports == s7
handler == s8
requests == s9

USE DEF project, stamped, members, rows, budget, decisions, reports, handler, requests

Decision == [of : Nat, by : Nat]

\* Decisions point at decisions there are; the two pointers of a pair agree; and a project that is gone has left nothing.
ProjectInv ==
  /\ decisions \in Seq(Decision)
  /\ \A d \in 1..Len(decisions) : decisions[d].of <= Len(decisions) /\ decisions[d].by <= Len(decisions)
  /\ Projects!PointersAgree /\ Projects!NothingIsOrphaned
  /\ stamped \in BOOLEAN /\ (project = Projects!None => ~stamped)

LEMMA ProjectStarts == Projects!ProjectInit => ProjectInv
<1>. SUFFICES ASSUME Projects!ProjectInit PROVE ProjectInv
  OBVIOUS
<1>1. decisions = << >> /\ decisions \in Seq(Decision) /\ Len(decisions) = 0
  BY DEF Projects!ProjectInit
<1>2. Projects!NothingIsOrphaned /\ stamped \in BOOLEAN /\ ~stamped
  BY DEF Projects!ProjectInit, Projects!NothingIsOrphaned, Projects!None
<1>3. Projects!PointersAgree
  BY <1>1 DEF Projects!PointersAgree
<1>. QED BY <1>1, <1>2, <1>3 DEF ProjectInv

\* A decision is appended.
LEMMA DecisionSteps ==
  ASSUME ProjectInv, NEW c \in Call, Projects!AppendDecision(c)
  PROVE  ProjectInv'
<1>. DEFINE n == Len(decisions)
<1>. DEFINE old == handler[c].args
<1>1. /\ n \in Nat /\ DOMAIN decisions = 1..n
      /\ \A d \in 1..n : decisions[d] \in Decision
  BY DEF ProjectInv
<1>2. old = 0 \/ (old \in 1..n /\ decisions[old].by = 0)
  BY <1>1 DEF Projects!AppendDecision, Projects!Superseded
<1>3. /\ Projects!Pointed(old) = [d \in 1..n |-> IF d = old THEN [of |-> decisions[d].of, by |-> n + 1] ELSE decisions[d]]
      /\ \A d \in 1..n : Projects!Pointed(old)[d] \in Decision
  BY <1>1 DEF Projects!Pointed, Decision
<1>4. Projects!Pointed(old) \in Seq(Decision) /\ Len(Projects!Pointed(old)) = n
  BY <1>1, <1>3
<1>5. decisions' = Append(Projects!Pointed(old), [of |-> old, by |-> 0]) /\ [of |-> old, by |-> 0] \in Decision
  BY <1>1, <1>2 DEF Projects!AppendDecision, Decision
<1>6. /\ decisions' \in Seq(Decision) /\ Len(decisions') = n + 1
      /\ decisions'[n + 1] = [of |-> old, by |-> 0]
      /\ \A d \in 1..n : decisions'[d] = IF d = old THEN [of |-> decisions[d].of, by |-> n + 1] ELSE decisions[d]
  <2>1. decisions' \in Seq(Decision) /\ Len(decisions') = n + 1 /\ decisions'[n + 1] = [of |-> old, by |-> 0]
    BY <1>1, <1>4, <1>5
  <2>2. \A d \in 1..n : decisions'[d] = Projects!Pointed(old)[d]
    BY <1>1, <1>4, <1>5
  <2>. QED BY <1>3, <2>1, <2>2
<1>a. /\ decisions'[n + 1].of = old /\ decisions'[n + 1].by = 0 /\ n \in Nat
      /\ old = 0 \/ (old \in 1..n /\ decisions[old].by = 0)
      /\ \A d \in 1..n : decisions'[d].of = decisions[d].of /\ decisions'[d].by = IF d = old THEN n + 1 ELSE decisions[d].by
      /\ \A d \in 1..n : decisions[d].of \in 0..n /\ decisions[d].by \in 0..n
  <2>1. \A d \in 1..n : decisions[d].of \in 0..n /\ decisions[d].by \in 0..n
    BY <1>1 DEF ProjectInv, Decision
  <2>2. decisions'[n + 1].of = old /\ decisions'[n + 1].by = 0
    BY <1>6
  <2>3. \A d \in 1..n : decisions'[d].of = decisions[d].of /\ decisions'[d].by = IF d = old THEN n + 1 ELSE decisions[d].by
    <3>. HIDE DEF old
    <3>. SUFFICES ASSUME NEW d \in 1..n
         PROVE  decisions'[d].of = decisions[d].of /\ decisions'[d].by = IF d = old THEN n + 1 ELSE decisions[d].by
      OBVIOUS
    <3>1. CASE d = old
      <4>1. decisions'[d] = [of |-> decisions[d].of, by |-> n + 1]
        BY <1>6, <3>1
      <4>. QED BY <3>1, <4>1
    <3>2. CASE d # old
      <4>1. decisions'[d] = decisions[d]
        BY <1>6, <3>2
      <4>. QED BY <3>2, <4>1
    <3>. QED BY <3>1, <3>2
  <2>. HIDE DEF old
  <2>. QED BY <1>1, <1>2, <2>1, <2>2, <2>3
<1>7. \A d \in 1..Len(decisions') : decisions'[d].of <= Len(decisions') /\ decisions'[d].by <= Len(decisions')
  <2>1. ASSUME NEW d \in 1..(n + 1) PROVE decisions'[d].of <= n + 1 /\ decisions'[d].by <= n + 1
    <3>1. CASE d = n + 1
      BY <1>a, <3>1
    <3>2. CASE d \in 1..n
      BY <1>a, <3>2
    <3>. QED BY <1>a, <3>1, <3>2
  <2>. QED BY <1>6, <2>1
<1>8. Projects!PointersAgree'
  <2>. SUFFICES ASSUME NEW d \in 1..(n + 1), NEW e \in 1..(n + 1) PROVE decisions'[d].of = e <=> decisions'[e].by = d
    BY <1>1, <1>6 DEF Projects!PointersAgree
  <2>1. \A a, b \in 1..n : decisions[a].of = b <=> decisions[b].by = a
    BY <1>1 DEF ProjectInv, Projects!PointersAgree
  <2>2. CASE d = n + 1 /\ e = n + 1
    BY <1>a, <2>2
  <2>3. CASE d = n + 1 /\ e \in 1..n
    <3>1. decisions[e].by # n + 1
      BY <1>a, <2>3
    <3>. QED BY <1>a, <2>3, <3>1
  <2>4. CASE d \in 1..n /\ e = n + 1
    BY <1>a, <2>4
  <2>5. CASE d \in 1..n /\ e \in 1..n
    <3>1. e = old => decisions[e].by = 0 /\ decisions[d].of # e
      BY <1>a, <2>1, <2>5
    <3>. QED BY <1>a, <2>1, <2>5, <3>1
  <2>. QED BY <1>1, <2>2, <2>3, <2>4, <2>5
<1>. QED BY <1>6, <1>7, <1>8 DEF Projects!AppendDecision, ProjectInv, Projects!NothingIsOrphaned

LEMMA ProjectKeeps == ProjectInv /\ [Projects!ProjectNext]_(Projects!projectVars) => ProjectInv'
<1>. SUFFICES ASSUME ProjectInv, [Projects!ProjectNext]_(Projects!projectVars) PROVE ProjectInv'
  OBVIOUS
<1>1. CASE UNCHANGED Projects!projectVars
  BY <1>1 DEF Projects!projectVars, ProjectInv, Projects!PointersAgree, Projects!NothingIsOrphaned
<1>2. ASSUME NEW c \in Call, Projects!AppendDecision(c) PROVE ProjectInv'
  BY <1>2, DecisionSteps
<1>3. CASE UNCHANGED decisions /\ UNCHANGED <<project, stamped, members, rows, budget>>
  BY <1>3 DEF ProjectInv, Projects!PointersAgree, Projects!NothingIsOrphaned
<1>4. CASE UNCHANGED decisions /\ Projects!NothingIsOrphaned' /\ stamped' \in BOOLEAN /\ (project' = Projects!None => ~stamped')
  BY <1>4 DEF ProjectInv, Projects!PointersAgree
<1>5. ASSUME NEW user \in User, Projects!CreateProject(user) PROVE ProjectInv'
  <2>1. Projects!NothingIsOrphaned' /\ UNCHANGED <<decisions, stamped>> /\ ~stamped /\ project' # Projects!None
    BY <1>5 DEF Projects!CreateProject, ProjectInv, Projects!NothingIsOrphaned, Projects!None
  <2>. QED BY <1>4, <2>1 DEF ProjectInv
<1>6. ASSUME NEW c \in Call, NEW user \in User, NEW op, NEW args, Projects!Require(c, user, op, args) PROVE ProjectInv'
  BY <1>3, <1>6 DEF Projects!Require
<1>7. ASSUME NEW c \in Call,
             \/ Projects!GiveUp(c) \/ Projects!ReadMember(c) \/ Projects!ReadStatus(c) \/ Projects!CreateTaskReport(c)
             \/ Projects!ReadReport(c) \/ Projects!ConfirmTaskReport(c)
      PROVE  ProjectInv'
  BY <1>3, <1>7 DEF Projects!GiveUp, Projects!ReadMember, Projects!ReadStatus, Projects!CreateTaskReport,
     Projects!ReadReport, Projects!ConfirmTaskReport
<1>8. ASSUME NEW c \in Call, Projects!AddMember(c) \/ Projects!UpsertRow(c) \/ Projects!DeleteAutomation(c) PROVE ProjectInv'
  <2>1. UNCHANGED <<decisions, stamped, project, budget>>
    BY <1>8 DEF Projects!AddMember, Projects!UpsertRow, Projects!DeleteAutomation
  <2>2. project = Projects!None => members' = members /\ rows' = {}
    <3>1. CASE Projects!AddMember(c)
      BY <3>1 DEF Projects!AddMember
    <3>2. CASE Projects!UpsertRow(c)
      BY <3>2 DEF Projects!UpsertRow, Projects!Hangs
    <3>3. CASE Projects!DeleteAutomation(c)
      BY <3>3 DEF Projects!DeleteAutomation, ProjectInv, Projects!NothingIsOrphaned
    <3>. QED BY <1>8, <3>1, <3>2, <3>3
  <2>. QED BY <1>4, <2>1, <2>2 DEF ProjectInv, Projects!NothingIsOrphaned
<1>9. ASSUME NEW c \in Call, Projects!WriteMember(c) PROVE ProjectInv'
  <2>1. members # << >>
    <3>1. handler[c].args.user \in DOMAIN members
      BY <1>9 DEF Projects!WriteMember
    <3>2. DOMAIN << >> = {}
      OBVIOUS
    <3>. QED BY <3>1, <3>2
  <2>2. project # Projects!None
    BY <2>1 DEF ProjectInv, Projects!NothingIsOrphaned
  <2>3. UNCHANGED <<project, stamped, rows, budget, decisions>>
    BY <1>9 DEF Projects!WriteMember
  <2>. QED BY <1>4, <2>2, <2>3 DEF ProjectInv, Projects!NothingIsOrphaned
<1>10. ASSUME NEW c \in Call, Projects!WriteStatus(c) \/ Projects!DeleteProject(c) PROVE ProjectInv'
  <2>1. CASE Projects!WriteStatus(c)
    <3>1. /\ project # Projects!None /\ project' \in {"archived", "active"} /\ stamped' = (project' = "archived")
          /\ UNCHANGED <<members, rows, budget, decisions>>
      BY <2>1 DEF Projects!WriteStatus, Projects!TransitionProject
    <3>. QED BY <1>4, <3>1 DEF ProjectInv, Projects!NothingIsOrphaned, Projects!None
  <2>2. CASE Projects!DeleteProject(c)
    BY <1>4, <2>2 DEF Projects!DeleteProject, ProjectInv, Projects!NothingIsOrphaned, Projects!None
  <2>. QED BY <1>10, <2>1, <2>2
<1>11. CASE Projects!ProjectNext
  <2>. USE DEF Projects!addMember, Projects!updateOrRemoveMember, Projects!putRow, Projects!deleteAutomation,
               Projects!transition, Projects!delete, Projects!appendDecision,
               Projects!createTaskReport, Projects!confirmReport
  <2>. QED BY <1>2, <1>5, <1>6, <1>7, <1>8, <1>9, <1>10, <1>11 DEF Projects!ProjectNext
<1>. QED BY <1>1, <1>11

LEMMA ProjectSound == ProjectInv => Projects!RecordsHold
BY DEF ProjectInv, Projects!RecordsHold

\* Decisions that are superseded, and reports that are confirmed, are left as they are.
LEMMA DecisionsStand ==
  ASSUME ProjectInv, NEW c \in Call, Projects!AppendDecision(c)
  PROVE  \A d \in DOMAIN decisions : d \in DOMAIN decisions' /\ (Projects!Superseded(d) => decisions'[d] = decisions[d])
<1>. DEFINE n == Len(decisions)
<1>. DEFINE old == handler[c].args
<1>1. /\ n \in Nat /\ DOMAIN decisions = 1..n
      /\ \A d \in 1..n : decisions[d] \in Decision
  BY DEF ProjectInv
<1>2. old = 0 \/ (old \in 1..n /\ ~Projects!Superseded(old))
  BY <1>1 DEF Projects!AppendDecision
<1>3. /\ Projects!Pointed(old) = [d \in 1..n |-> IF d = old THEN [of |-> decisions[d].of, by |-> n + 1] ELSE decisions[d]]
      /\ \A d \in 1..n : Projects!Pointed(old)[d] \in Decision
  BY <1>1 DEF Projects!Pointed, Decision
<1>4. Projects!Pointed(old) \in Seq(Decision) /\ Len(Projects!Pointed(old)) = n
  BY <1>1, <1>3
<1>5. decisions' = Append(Projects!Pointed(old), [of |-> old, by |-> 0]) /\ [of |-> old, by |-> 0] \in Decision
  BY <1>1, <1>2 DEF Projects!AppendDecision, Decision
<1>6. DOMAIN decisions' = 1..(n + 1) /\ \A d \in 1..n : decisions'[d] = Projects!Pointed(old)[d]
  BY <1>1, <1>4, <1>5
<1>7. \A d \in 1..n : Projects!Superseded(d) => d # old
  BY <1>2
<1>8. \A d \in 1..n : d # old => decisions'[d] = decisions[d]
  BY <1>3, <1>6
<1>. HIDE DEF old
<1>. QED BY <1>1, <1>6, <1>7, <1>8

LEMMA ReportsStand ==
  ASSUME NEW c \in Call, Projects!CreateTaskReport(c) \/ Projects!ConfirmTaskReport(c)
  PROVE  \A r \in DOMAIN reports : r \in DOMAIN reports' /\ (reports[r].status = "confirmed" => reports'[r] = reports[r])
<1>1. ASSUME Projects!CreateTaskReport(c), NEW r \in DOMAIN reports PROVE r \in DOMAIN reports' /\ reports'[r] = reports[r]
  <2>1. PICK x, y : x \notin DOMAIN reports
          /\ reports' = [z \in DOMAIN reports \union {x} |-> IF z = x THEN y ELSE reports[z]]
    BY <1>1 DEF Projects!CreateTaskReport, Projects!With
  <2>. QED BY <2>1
<1>2. ASSUME Projects!ConfirmTaskReport(c), NEW r \in DOMAIN reports
      PROVE  r \in DOMAIN reports' /\ (reports[r].status = "confirmed" => reports'[r] = reports[r])
  <2>. DEFINE x == handler[c].args
  <2>1. reports[x].status = "draft" /\ reports' = [reports EXCEPT ![x].status = "confirmed", ![x].by = handler[c].user]
    BY <1>2 DEF Projects!ConfirmTaskReport, Projects!IsDraft
  <2>2. PICK mid : mid = [reports EXCEPT ![x].status = "confirmed"]
    OBVIOUS
  <2>3. reports' = [mid EXCEPT ![x].by = handler[c].user]
    BY <2>1, <2>2, Zenon
  <2>. HIDE DEF x
  <2>4. DOMAIN mid = DOMAIN reports /\ (r # x => mid[r] = reports[r])
    BY <2>2
  <2>5. DOMAIN reports' = DOMAIN mid /\ (r # x /\ r \in DOMAIN mid => reports'[r] = mid[r])
    BY <2>3
  <2>. QED BY <2>1, <2>4, <2>5
<1>. QED BY <1>1, <1>2

LEMMA ProjectStands == ProjectInv /\ [Projects!ProjectNext]_(Projects!projectVars) => Projects!RecordsStand
<1>. SUFFICES ASSUME ProjectInv, [Projects!ProjectNext]_(Projects!projectVars) PROVE Projects!RecordsStand
  OBVIOUS
<1>1. CASE UNCHANGED <<decisions, reports>>
  BY <1>1 DEF Projects!RecordsStand
<1>2. ASSUME NEW c \in Call, Projects!AppendDecision(c) PROVE Projects!RecordsStand
  <2>1. UNCHANGED reports
    BY <1>2 DEF Projects!AppendDecision
  <2>. QED BY <1>2, <2>1, DecisionsStand DEF Projects!RecordsStand
<1>3. ASSUME NEW c \in Call, Projects!CreateTaskReport(c) \/ Projects!ConfirmTaskReport(c) PROVE Projects!RecordsStand
  <2>1. UNCHANGED decisions
    BY <1>3 DEF Projects!CreateTaskReport, Projects!ConfirmTaskReport
  <2>. QED BY <1>3, <2>1, ReportsStand DEF Projects!RecordsStand
<1>4. ASSUME NEW c \in Call, NEW user \in User, NEW op, NEW args, Projects!Require(c, user, op, args)
      PROVE  Projects!RecordsStand
  BY <1>1, <1>4 DEF Projects!Require
<1>5. ASSUME NEW user \in User, Projects!CreateProject(user) PROVE Projects!RecordsStand
  BY <1>1, <1>5 DEF Projects!CreateProject
<1>6. ASSUME NEW c \in Call,
             \/ Projects!GiveUp(c) \/ Projects!AddMember(c) \/ Projects!ReadMember(c) \/ Projects!WriteMember(c)
             \/ Projects!UpsertRow(c) \/ Projects!DeleteAutomation(c) \/ Projects!ReadStatus(c)
             \/ Projects!WriteStatus(c) \/ Projects!DeleteProject(c) \/ Projects!ReadReport(c)
      PROVE  Projects!RecordsStand
  BY <1>1, <1>6 DEF Projects!GiveUp, Projects!AddMember, Projects!ReadMember, Projects!WriteMember, Projects!UpsertRow,
     Projects!DeleteAutomation, Projects!ReadStatus, Projects!WriteStatus, Projects!DeleteProject, Projects!ReadReport
<1>7. CASE UNCHANGED Projects!projectVars
  BY <1>1, <1>7 DEF Projects!projectVars
<1>8. CASE Projects!ProjectNext
  <2>. USE DEF Projects!addMember, Projects!updateOrRemoveMember, Projects!putRow, Projects!deleteAutomation,
               Projects!transition, Projects!delete, Projects!appendDecision,
               Projects!createTaskReport, Projects!confirmReport
  <2>. QED BY <1>2, <1>3, <1>4, <1>5, <1>6, <1>8 DEF Projects!ProjectNext
<1>. QED BY <1>7, <1>8

-----------------------------------------
(* Access to skills, of a user and of an agent. *)

Access(k) == INSTANCE SkillAccess WITH
  Human <- k.human, Skill <- k.skill, Version <- {1, 2}, Dept <- k.dept, Above <- k.above, Grant <- k.grant,
  Revocation <- k.revocation, MaxChange <- k.changes, None <- Nil,
  above <- s1, dept <- s2, role <- s3, member <- s4, current <- s5, grants <- s6, revocations <- s7,
  reading <- s8, steady <- s9, changes <- s10

above == s1
dept == s2
role == s3
member == s4
current == s5
grants == s6
revocations == s7
reading == s8
steady == s9

USE DEF above, dept, role, member, current, grants, revocations, reading, steady

\* What is granted and revoked is of the five kinds.
AccessConstants(k) ==
  /\ k.human \in BOOLEAN
  /\ \A e \in k.grant \cup k.revocation : e.kind \in {"user", "agent", "project", "role", "department"}

\* A resolution is a record of ten fields.
ResolutionShape(r) ==
  r = [pc |-> r.pc, dept |-> r.dept, role |-> r.role, path |-> r.path, ancestors |-> r.ancestors,
       member |-> r.member, revoked |-> r.revoked, rows |-> r.rows, left |-> r.left, chosen |-> r.chosen]
USE DEF ResolutionShape

\* A resolution is a record of what has been read.
ReadingIsTyped(k) ==
  /\ ResolutionShape(reading)
  /\ reading.pc \in {"idle", "roles", "path", "ancestors", "member", "revocations", "grants", "resolve", "refused"}
  /\ grants \subseteq k.grant /\ revocations \subseteq k.revocation /\ steady \subseteq revocations
  /\ \A c \in reading.rows : c.priority \in Nat

\* What has been read of the ground of a steady revocation is so still.
GroundIsRead(k, r) ==
  /\ r.kind = "role" => reading.pc = "roles" \/ reading.role
  /\ r.kind = "project" => reading.pc \in {"roles", "path", "ancestors", "member"} \/ reading.member
  /\ r.kind = "department" =>
       /\ reading.dept = dept
       /\ reading.pc \in {"roles", "path"} \/ reading.path = Access(k)!Path(above, dept)
       /\ reading.pc \in {"roles", "path", "ancestors"} \/ reading.ancestors = Access(k)!Now.ancestors

\* Its skill is marked once the revocations have been read.
SteadyIsSeen(k) ==
  \A r \in steady :
    /\ reading.pc # "idle" /\ Access(k)!Means(r, Access(k)!Now)
    /\ k.human => GroundIsRead(k, r)
    /\ reading.pc \in {"grants", "resolve", "refused"} => r.skill \in reading.revoked

\* The candidates for a skill that have been looked at.
Seen(k, s) == {c \in reading.rows \ reading.left : c.skill = s /\ s \notin reading.revoked}

\* The best of them is chosen, and those of its rank name its version.
BestIsChosen(k) ==
  /\ reading.pc \notin {"resolve", "refused"} => reading.chosen = << >>
  /\ reading.pc = "resolve" =>
       /\ reading.left \subseteq reading.rows
       /\ \A s \in DOMAIN reading.chosen : Seen(k, s) # {}
       /\ \A s : Seen(k, s) # {} =>
            /\ s \in DOMAIN reading.chosen /\ reading.chosen[s] \in Seen(k, s)
            /\ \A c \in Seen(k, s) : /\ c.priority <= reading.chosen[s].priority
                                     /\ c.priority = reading.chosen[s].priority => c.version = reading.chosen[s].version

AccessInv(k) == ReadingIsTyped(k) /\ SteadyIsSeen(k) /\ BestIsChosen(k)

LEMMA AccessStarts ==
  ASSUME NEW k
  PROVE  Access(k)!AccessInit => AccessInv(k)
BY DEF Access!AccessInit, AccessInv, ReadingIsTyped, SteadyIsSeen, BestIsChosen, Access!Idle

\* The steadiness of a revocation, after a step.
LEMMA WatchKeeps ==
  ASSUME NEW k, AccessInv(k), Access(k)!Watch, NEW r \in steady'
  PROVE  /\ reading'.pc # "idle" /\ r \in revocations' /\ Access(k)!Means(r, Access(k)!Now)'
         /\ r.kind = "department" => UNCHANGED <<above, dept>>
         /\ reading.pc # "idle" => r \in steady
BY DEF Access!Watch

\* The administrators' steps leave the resolution as it is.
LEMMA ChangeSteps ==
  ASSUME NEW k, AccessConstants(k), AccessInv(k), Access(k)!Watch,
         \/ Access(k)!DeleteSkillAccess \/ Access(k)!Transfer
         \/ \E g \in k.grant : Access(k)!GrantSkill(g)
         \/ \E r \in k.revocation : Access(k)!RevokeSkill(r)
         \/ \E s \in k.skill : Access(k)!NewVersion(s)
  PROVE  AccessInv(k)'
<1>1. reading' = reading
  BY DEF Access!DeleteSkillAccess, Access!Transfer, Access!GrantSkill, Access!RevokeSkill, Access!NewVersion
<1>2. grants' \subseteq k.grant /\ revocations' \subseteq k.revocation
  BY DEF AccessInv, ReadingIsTyped, Access!DeleteSkillAccess, Access!Transfer, Access!GrantSkill, Access!RevokeSkill,
         Access!NewVersion
<1>3. steady' \subseteq revocations'
  BY WatchKeeps
<1>4. ReadingIsTyped(k)' /\ BestIsChosen(k)'
  BY <1>1, <1>2, <1>3 DEF AccessInv, ReadingIsTyped, BestIsChosen, Seen
<1>5. SteadyIsSeen(k)'
  <2>. SUFFICES ASSUME NEW r \in steady'
       PROVE  /\ reading'.pc # "idle" /\ Access(k)!Means(r, Access(k)!Now)'
              /\ k.human => GroundIsRead(k, r)'
              /\ reading'.pc \in {"grants", "resolve", "refused"} => r.skill \in reading'.revoked
    BY DEF SteadyIsSeen
  <2>1. /\ reading'.pc # "idle" /\ Access(k)!Means(r, Access(k)!Now)'
        /\ r.kind = "department" => UNCHANGED <<above, dept>>
        /\ r \in steady
    BY <1>1, WatchKeeps
  <2>2. r.kind = "department" => Access(k)!Now.ancestors' = Access(k)!Now.ancestors
    BY <2>1 DEF Access!Now, Access!Ancestors
  <2>. QED BY <1>1, <2>1, <2>2 DEF AccessInv, SteadyIsSeen, GroundIsRead
<1>. QED BY <1>4, <1>5 DEF AccessInv

\* A step of the resolution sees the world as it stands.
LEMMA ReadingSteps ==
  ASSUME NEW k, AccessConstants(k), AccessInv(k), Access(k)!Watch, Access(k)!Unchanged,
         ResolutionShape(reading'),
         reading'.pc \in {"idle", "roles", "path", "ancestors", "member", "revocations", "grants", "resolve", "refused"},
         \A c \in reading'.rows : c.priority \in Nat,
         BestIsChosen(k)',
         \A r \in steady' : Access(k)!Means(r, Access(k)!Now) =>
           /\ k.human => GroundIsRead(k, r)'
           /\ reading'.pc \in {"grants", "resolve", "refused"} => r.skill \in reading'.revoked
  PROVE  AccessInv(k)'
<1>1. steady' \subseteq revocations'
  BY WatchKeeps
<1>2. ReadingIsTyped(k)'
  BY <1>1 DEF AccessInv, ReadingIsTyped, Access!Unchanged
<1>3. UNCHANGED Access(k)!Now
  BY DEF Access!Unchanged, Access!Now, Access!Ancestors
<1>4. SteadyIsSeen(k)'
  <2>. SUFFICES ASSUME NEW r \in steady'
       PROVE  /\ reading'.pc # "idle" /\ Access(k)!Means(r, Access(k)!Now)'
              /\ k.human => GroundIsRead(k, r)'
              /\ reading'.pc \in {"grants", "resolve", "refused"} => r.skill \in reading'.revoked
    BY DEF SteadyIsSeen
  <2>1. reading'.pc # "idle" /\ Access(k)!Means(r, Access(k)!Now)'
    BY WatchKeeps
  <2>2. Access(k)!Means(r, Access(k)!Now)
    BY <1>3, <2>1 DEF Access!Means
  <2>. QED BY <2>1, <2>2
<1>. QED BY <1>2, <1>4 DEF AccessInv

\* The statements before the grants are read.
LEMMA ContextSteps ==
  ASSUME NEW k, AccessConstants(k), AccessInv(k), Access(k)!Watch,
         \/ Access(k)!Begin \/ Access(k)!RoleIDs \/ Access(k)!DepartmentPath
         \/ Access(k)!DepartmentAncestors \/ Access(k)!ProjectMember
  PROVE  AccessInv(k)'
<1>0. Access(k)!Unchanged /\ UNCHANGED <<above, dept, role, member>>
  BY DEF Access!Begin, Access!RoleIDs, Access!DepartmentPath, Access!DepartmentAncestors, Access!ProjectMember,
     Access!Unchanged
<1>1. CASE Access(k)!Begin
  <2>1. /\ k.human => /\ reading'.pc = "roles" /\ reading'.dept = dept
        /\ reading'.pc \in {"roles", "revocations"} /\ reading'.rows = {} /\ reading'.chosen = << >>
        /\ ResolutionShape(reading')
    <3>1. CASE k.human
      BY <1>1, <3>1 DEF Access!Begin, Access!Idle
    <3>2. CASE ~k.human
      BY <1>1, <3>2 DEF Access!Begin, Access!Idle
    <3>. QED BY <3>1, <3>2
  <2>2. BestIsChosen(k)'
    BY <2>1 DEF BestIsChosen
  <2>3. ASSUME NEW r \in steady', k.human PROVE GroundIsRead(k, r)'
    BY <1>0, <2>1, <2>3 DEF GroundIsRead
  <2>. QED BY <1>0, <2>1, <2>2, <2>3, ReadingSteps
<1>2. CASE Access(k)!RoleIDs \/ Access(k)!DepartmentPath \/ Access(k)!DepartmentAncestors \/ Access(k)!ProjectMember
  <2>1. /\ reading'.pc \in {"path", "ancestors", "member", "revocations"}
        /\ reading.pc \in {"roles", "path", "ancestors", "member"}
        /\ reading'.rows = reading.rows /\ reading'.chosen = reading.chosen /\ reading'.dept = reading.dept
        /\ ResolutionShape(reading')
        /\ \/ reading.pc = "roles" /\ reading'.pc = "path" /\ reading'.role = (role.held /\ role.active)
           \/ reading.pc # "roles" /\ reading'.role = reading.role
        /\ \/ reading.pc = "path" /\ reading'.path = Access(k)!Path(above, reading.dept)
           \/ reading.pc # "path" /\ reading'.path = reading.path
        /\ \/ reading.pc = "ancestors" /\ reading'.pc = "member"
              /\ reading'.ancestors = Access(k)!Ancestors(reading.path)
           \/ reading.pc # "ancestors" /\ reading'.ancestors = reading.ancestors
        /\ \/ reading.pc = "member" /\ reading'.pc = "revocations" /\ reading'.member = member
           \/ reading.pc # "member" /\ reading'.pc # "revocations" /\ reading'.member = reading.member
        /\ reading.pc = "roles" <=> reading'.pc = "path"
        /\ reading.pc = "path" <=> reading'.pc = "ancestors"
        /\ reading.pc = "ancestors" <=> reading'.pc = "member"
    <3>1. CASE Access(k)!RoleIDs
      BY <3>1 DEF Access!RoleIDs, AccessInv, ReadingIsTyped
    <3>2. CASE Access(k)!DepartmentPath
      BY <3>2 DEF Access!DepartmentPath, AccessInv, ReadingIsTyped
    <3>3. CASE Access(k)!DepartmentAncestors
      BY <3>3 DEF Access!DepartmentAncestors, AccessInv, ReadingIsTyped
    <3>4. CASE Access(k)!ProjectMember
      BY <3>4 DEF Access!ProjectMember, AccessInv, ReadingIsTyped
    <3>. QED BY <1>2, <3>1, <3>2, <3>3, <3>4
  <2>2. BestIsChosen(k)'
    BY <2>1 DEF BestIsChosen, AccessInv
  <2>3. ASSUME NEW r \in steady', k.human, Access(k)!Means(r, Access(k)!Now) PROVE GroundIsRead(k, r)'
    <3>1. r \in steady /\ GroundIsRead(k, r)
      BY <2>1, <2>3, WatchKeeps DEF AccessInv, SteadyIsSeen
    <3>2. r.kind = "role" => reading'.pc = "roles" \/ reading'.role
      BY <2>1, <2>3, <3>1 DEF Access!Means, Access!Now, GroundIsRead
    <3>3. r.kind = "project" => reading'.pc \in {"roles", "path", "ancestors", "member"} \/ reading'.member
      BY <2>1, <2>3, <3>1 DEF Access!Means, Access!Now, GroundIsRead
    <3>4. r.kind = "department" =>
            /\ reading'.dept = dept
            /\ reading'.pc \in {"roles", "path"} \/ reading'.path = Access(k)!Path(above, dept)
            /\ reading'.pc \in {"roles", "path", "ancestors"} \/ reading'.ancestors = Access(k)!Now.ancestors
      BY <2>1, <2>3, <3>1 DEF Access!Now, GroundIsRead
    <3>5. UNCHANGED Access(k)!Now /\ Access(k)!Path(above, dept)' = Access(k)!Path(above, dept)
      BY <1>0 DEF Access!Now, Access!Path, Access!Ancestors
    <3>. QED BY <1>0, <3>2, <3>3, <3>4, <3>5 DEF GroundIsRead
  <2>. QED BY <1>0, <2>1, <2>2, <2>3, ReadingSteps DEF AccessInv, ReadingIsTyped
<1>. QED BY <1>1, <1>2

\* A revocation that means the worker is one that matches.
LEMMA SteadyMatches ==
  ASSUME NEW k, AccessConstants(k), AccessInv(k), reading.pc = "revocations", NEW r \in steady
  PROVE  Access(k)!MatchesRevocation(r, reading)
<1>1. /\ r.kind \in {"user", "agent", "project", "role", "department"} /\ Access(k)!Means(r, Access(k)!Now)
      /\ k.human => GroundIsRead(k, r)
  BY DEF AccessConstants, AccessInv, ReadingIsTyped, SteadyIsSeen
<1>. QED BY <1>1 DEF AccessConstants, Access!MatchesRevocation, Access!Means, Access!Now, GroundIsRead

\* Revocations and grants are read.
LEMMA EntrySteps ==
  ASSUME NEW k, AccessConstants(k), AccessInv(k), Access(k)!Watch, Access(k)!MatchingRevocations \/ Access(k)!Candidates
  PROVE  AccessInv(k)'
<1>0. Access(k)!Unchanged /\ UNCHANGED <<above, dept, role, member>>
  BY DEF Access!MatchingRevocations, Access!Candidates, Access!Unchanged
<1>1. \A r \in steady' : r \in steady
  BY WatchKeeps DEF Access!MatchingRevocations, Access!Candidates
<1>2. UNCHANGED Access(k)!Now /\ Access(k)!Path(above, dept)' = Access(k)!Path(above, dept)
  BY <1>0 DEF Access!Now, Access!Path, Access!Ancestors
<1>3. CASE Access(k)!MatchingRevocations
  <2>1. /\ reading'.pc = "grants" /\ reading.pc = "revocations"
        /\ reading'.revoked = {r.skill : r \in {x \in revocations : Access(k)!MatchesRevocation(x, reading)}}
        /\ reading'.rows = reading.rows /\ reading'.chosen = reading.chosen
        /\ UNCHANGED <<reading.dept, reading.role, reading.path, reading.ancestors, reading.member>>
        /\ ResolutionShape(reading')
    BY <1>3 DEF Access!MatchingRevocations, AccessInv, ReadingIsTyped
  <2>2. BestIsChosen(k)'
    BY <2>1 DEF BestIsChosen, AccessInv
  <2>3. ASSUME NEW r \in steady' PROVE r.skill \in reading'.revoked /\ (k.human => GroundIsRead(k, r)')
    <3>1. r \in steady /\ r \in revocations /\ (k.human => GroundIsRead(k, r))
      BY <1>1, <2>3 DEF AccessInv, SteadyIsSeen, ReadingIsTyped
    <3>2. Access(k)!MatchesRevocation(r, reading)
      BY <2>1, <3>1, SteadyMatches
    <3>3. k.human => GroundIsRead(k, r)'
      BY <1>0, <1>2, <2>1, <3>1 DEF GroundIsRead
    <3>. QED BY <2>1, <3>1, <3>2, <3>3
  <2>. QED BY <1>0, <2>1, <2>2, <2>3, ReadingSteps DEF AccessInv, ReadingIsTyped
<1>4. CASE Access(k)!Candidates
  <2>. DEFINE meant == {g \in grants : Access(k)!Priority(g) > 0}
              candidate(g) == [skill |-> g.skill, version |-> IF g.version = Nil THEN current[g.skill] ELSE g.version,
                               priority |-> Access(k)!Priority(g), kind |-> g.kind, subject |-> g.subject]
  <2>1. /\ reading'.pc = "resolve" /\ reading.pc = "grants"
        /\ reading'.rows = {candidate(g) : g \in meant} /\ reading'.left = reading'.rows
        /\ reading'.chosen = reading.chosen /\ reading'.revoked = reading.revoked
        /\ UNCHANGED <<reading.dept, reading.role, reading.path, reading.ancestors, reading.member>>
        /\ ResolutionShape(reading')
    BY <1>4 DEF Access!Candidates, AccessInv, ReadingIsTyped
  <2>2. \A c \in reading'.rows : c.priority \in Nat
    <3>1. ASSUME NEW g \in grants PROVE Access(k)!Priority(g) \in Nat
      <4>1. g.kind \in {"user", "agent", "project", "role", "department"}
        BY <3>1 DEF AccessConstants, AccessInv, ReadingIsTyped
      <4>. QED BY <4>1 DEF Access!Priority
    <3>. QED BY <2>1, <3>1
  <2>3. BestIsChosen(k)'
    BY <2>1 DEF BestIsChosen, AccessInv, Seen
  <2>4. ASSUME NEW r \in steady' PROVE r.skill \in reading'.revoked /\ (k.human => GroundIsRead(k, r)')
    <3>1. r \in steady /\ r.skill \in reading.revoked /\ (k.human => GroundIsRead(k, r))
      BY <1>1, <2>1, <2>4 DEF AccessInv, SteadyIsSeen
    <3>3. k.human => GroundIsRead(k, r)'
      BY <1>0, <1>2, <2>1, <3>1 DEF GroundIsRead
    <3>. QED BY <2>1, <3>1, <3>3
  <2>. QED BY <1>0, <2>1, <2>2, <2>3, <2>4, ReadingSteps
<1>. QED BY <1>3, <1>4

\* One candidate after the other is weighed.
LEMMA ResolveSteps ==
  ASSUME NEW k, AccessConstants(k), AccessInv(k), Access(k)!Watch, Access(k)!Resolve
  PROVE  AccessInv(k)'
<1>0. Access(k)!Unchanged /\ UNCHANGED <<above, dept, role, member>> /\ reading.pc = "resolve"
  BY DEF Access!Resolve, Access!Unchanged
<1>1. PICK c \in reading.left :
        reading' = IF Access(k)!Kept(c) /\ Access(k)!Prefers(c)
                     THEN [reading EXCEPT !.left = reading.left \ {c}, !.chosen = Access(k)!Choosing(c)]
                   ELSE IF Access(k)!Kept(c) /\ Access(k)!Conflicts(c) THEN [reading EXCEPT !.pc = "refused"]
                   ELSE [reading EXCEPT !.left = reading.left \ {c}]
  BY DEF Access!Resolve
<1>2. /\ reading'.pc \in {"resolve", "refused"} /\ reading'.rows = reading.rows
      /\ UNCHANGED <<reading.dept, reading.role, reading.path, reading.ancestors, reading.member, reading.revoked>>
      /\ ResolutionShape(reading')
      /\ reading'.pc = "resolve" =>
           /\ reading'.left = reading.left \ {c}
           /\ \/ Access(k)!Kept(c) /\ Access(k)!Prefers(c) /\ reading'.chosen = Access(k)!Choosing(c)
              \/ ~Access(k)!Kept(c) /\ reading'.chosen = reading.chosen
              \/ Access(k)!Kept(c) /\ ~Access(k)!Prefers(c) /\ ~Access(k)!Conflicts(c) /\ reading'.chosen = reading.chosen
  <2>1. CASE Access(k)!Kept(c) /\ Access(k)!Prefers(c)
    <3>1. reading' = [reading EXCEPT !.left = reading.left \ {c}, !.chosen = Access(k)!Choosing(c)]
      BY <1>1, <2>1
    <3>. QED BY <1>0, <2>1, <3>1 DEF AccessInv, ReadingIsTyped
  <2>2. CASE Access(k)!Kept(c) /\ ~Access(k)!Prefers(c) /\ Access(k)!Conflicts(c)
    <3>1. reading' = [reading EXCEPT !.pc = "refused"]
      BY <1>1, <2>2
    <3>. QED BY <1>0, <3>1 DEF AccessInv, ReadingIsTyped
  <2>3. CASE ~Access(k)!Kept(c)
    <3>1. reading' = [reading EXCEPT !.left = reading.left \ {c}]
      BY <1>1, <2>3
    <3>. QED BY <1>0, <2>3, <3>1 DEF AccessInv, ReadingIsTyped
  <2>4. CASE Access(k)!Kept(c) /\ ~Access(k)!Prefers(c) /\ ~Access(k)!Conflicts(c)
    <3>1. reading' = [reading EXCEPT !.left = reading.left \ {c}]
      BY <1>1, <2>4
    <3>. QED BY <1>0, <2>4, <3>1 DEF AccessInv, ReadingIsTyped
  <2>. QED BY <2>1, <2>2, <2>3, <2>4
<1>3. BestIsChosen(k)'
  <2>. SUFFICES ASSUME reading'.pc = "resolve"
       PROVE  /\ reading'.left \subseteq reading'.rows
              /\ \A s \in DOMAIN reading'.chosen : Seen(k, s)' # {}
              /\ \A s : Seen(k, s)' # {} =>
                   /\ s \in DOMAIN reading'.chosen /\ reading'.chosen[s] \in Seen(k, s)'
                   /\ \A d \in Seen(k, s)' : /\ d.priority <= reading'.chosen[s].priority
                                             /\ d.priority = reading'.chosen[s].priority => d.version = reading'.chosen[s].version
    BY <1>2 DEF BestIsChosen
  <2>1. c \in reading.rows /\ reading.left \subseteq reading.rows /\ reading'.left = reading.left \ {c}
    BY <1>0, <1>1, <1>2 DEF AccessInv, BestIsChosen
  <2>2. \A s : /\ s # c.skill => Seen(k, s)' = Seen(k, s)
               /\ s = c.skill => Seen(k, s)' = IF Access(k)!Kept(c) THEN Seen(k, s) \cup {c} ELSE {}
    BY <1>2, <2>1 DEF Seen, Access!Kept
  <2>3. ~Access(k)!Kept(c) => Seen(k, c.skill) = {}
    BY DEF Seen, Access!Kept
  <2>4. \A s : \A d \in Seen(k, s) \cup {c} : d.priority \in Nat
    BY <2>1 DEF Seen, AccessInv, ReadingIsTyped
  <2>5. /\ \A s \in DOMAIN reading.chosen : Seen(k, s) # {}
        /\ \A s : Seen(k, s) # {} =>
             /\ s \in DOMAIN reading.chosen /\ reading.chosen[s] \in Seen(k, s)
             /\ \A d \in Seen(k, s) : /\ d.priority <= reading.chosen[s].priority
                                      /\ d.priority = reading.chosen[s].priority => d.version = reading.chosen[s].version
    BY <1>0 DEF AccessInv, BestIsChosen
  <2>6. CASE ~Access(k)!Kept(c) /\ reading'.chosen = reading.chosen
    BY <1>2, <2>1, <2>2, <2>3, <2>5, <2>6
  <2>7. CASE Access(k)!Kept(c) /\ ~Access(k)!Prefers(c) /\ ~Access(k)!Conflicts(c) /\ reading'.chosen = reading.chosen
    <3>1. /\ c.skill \in DOMAIN reading.chosen /\ c.priority <= reading.chosen[c.skill].priority
          /\ c.priority = reading.chosen[c.skill].priority => c.version = reading.chosen[c.skill].version
      BY <2>4, <2>5, <2>7 DEF Access!Prefers, Access!Conflicts
    <3>. QED BY <1>2, <2>1, <2>2, <2>5, <2>7, <3>1
  <2>8. CASE Access(k)!Kept(c) /\ Access(k)!Prefers(c) /\ reading'.chosen = Access(k)!Choosing(c)
    <3>1. /\ DOMAIN reading'.chosen = DOMAIN reading.chosen \cup {c.skill} /\ reading'.chosen[c.skill] = c
          /\ \A s \in DOMAIN reading.chosen : s # c.skill => reading'.chosen[s] = reading.chosen[s]
      BY <2>8 DEF Access!Choosing
    <3>2. \A d \in Seen(k, c.skill) : d.priority < c.priority
      BY <2>4, <2>5, <2>8 DEF Access!Prefers
    <3>3. ASSUME NEW s, Seen(k, s)' # {}
          PROVE  /\ s \in DOMAIN reading'.chosen /\ reading'.chosen[s] \in Seen(k, s)'
                 /\ \A d \in Seen(k, s)' : /\ d.priority <= reading'.chosen[s].priority
                                           /\ d.priority = reading'.chosen[s].priority => d.version = reading'.chosen[s].version
      <4>1. CASE s = c.skill
        BY <2>2, <2>4, <2>8, <3>1, <3>2, <4>1
      <4>2. CASE s # c.skill
        BY <2>2, <2>5, <3>1, <3>3, <4>2
      <4>. QED BY <4>1, <4>2
    <3>4. \A s \in DOMAIN reading'.chosen : Seen(k, s)' # {}
      BY <2>2, <2>5, <2>8, <3>1
    <3>. QED BY <1>2, <2>1, <3>3, <3>4
  <2>. QED BY <1>2, <2>6, <2>7, <2>8
<1>4. ASSUME NEW r \in steady' PROVE r.skill \in reading'.revoked /\ (k.human => GroundIsRead(k, r)')
  <2>1. r \in steady /\ r.skill \in reading.revoked /\ (k.human => GroundIsRead(k, r))
    BY <1>0, <1>4, WatchKeeps DEF AccessInv, SteadyIsSeen
  <2>2. UNCHANGED Access(k)!Now /\ Access(k)!Path(above, dept)' = Access(k)!Path(above, dept)
    BY <1>0 DEF Access!Now, Access!Path, Access!Ancestors
  <2>3. k.human => GroundIsRead(k, r)'
    BY <1>0, <1>2, <2>1, <2>2 DEF GroundIsRead
  <2>. QED BY <1>2, <2>1, <2>3
<1>. QED BY <1>0, <1>2, <1>3, <1>4, ReadingSteps DEF AccessInv, ReadingIsTyped

LEMMA AnswerSteps ==
  ASSUME NEW k, AccessConstants(k), AccessInv(k), Access(k)!Watch, Access(k)!Answer
  PROVE  AccessInv(k)'
<1>1. reading' = Access(k)!Idle /\ Access(k)!Unchanged /\ steady' = {}
  BY DEF Access!Answer, Access!Watch, Access!Idle
<1>2. /\ reading'.pc = "idle" /\ reading'.rows = {} /\ reading'.chosen = << >>
      /\ ResolutionShape(reading')
  BY <1>1 DEF Access!Idle
<1>3. BestIsChosen(k)'
  BY <1>2 DEF BestIsChosen
<1>. QED BY <1>1, <1>2, <1>3, ReadingSteps

LEMMA AccessKeeps ==
  ASSUME NEW k
  PROVE  AccessConstants(k) /\ AccessInv(k) /\ [Access(k)!AccessNext]_(Access(k)!accessVars) => AccessInv(k)'
<1>. SUFFICES ASSUME AccessConstants(k), AccessInv(k), [Access(k)!AccessNext]_(Access(k)!accessVars) PROVE AccessInv(k)'
  OBVIOUS
<1>1. CASE UNCHANGED Access(k)!accessVars
  <2>1. /\ reading' = reading /\ steady' = steady /\ grants' = grants /\ revocations' = revocations
        /\ UNCHANGED <<above, dept, role, member>>
    BY <1>1 DEF Access!accessVars
  <2>2. UNCHANGED Access(k)!Now /\ Access(k)!Path(above, dept)' = Access(k)!Path(above, dept)
    BY <2>1 DEF Access!Now, Access!Path, Access!Ancestors
  <2>3. ReadingIsTyped(k)' /\ BestIsChosen(k)'
    BY <2>1 DEF AccessInv, ReadingIsTyped, BestIsChosen, Seen
  <2>4. ASSUME NEW r \in steady PROVE Access(k)!Means(r, Access(k)!Now)' /\ (k.human => GroundIsRead(k, r)')
    BY <2>1, <2>2 DEF AccessInv, SteadyIsSeen, Access!Means, GroundIsRead
  <2>5. SteadyIsSeen(k)'
    BY <2>1, <2>4 DEF AccessInv, SteadyIsSeen
  <2>. QED BY <2>3, <2>5 DEF AccessInv
<1>2. CASE Access(k)!AccessNext
  BY <1>2, ChangeSteps, ContextSteps, EntrySteps, ResolveSteps, AnswerSteps DEF Access!AccessNext
<1>. QED BY <1>1, <1>2

LEMMA AccessSound ==
  ASSUME NEW k
  PROVE  AccessInv(k) => Access(k)!SkillAccessHolds
<1>. SUFFICES ASSUME AccessInv(k), Access(k)!Answered PROVE Access(k)!RevocationsPrevail /\ Access(k)!HighestPrevails
  BY DEF Access!SkillAccessHolds, Access!RevocationsPrevail, Access!HighestPrevails
<1>1. reading.pc = "resolve" /\ reading.left = {}
  BY DEF Access!Answered
<1>2. \A s : Seen(k, s) = {c \in reading.rows : c.skill = s /\ s \notin reading.revoked}
  BY <1>1 DEF Seen
<1>3. /\ \A s \in DOMAIN reading.chosen : Seen(k, s) # {}
      /\ \A s : Seen(k, s) # {} =>
           /\ s \in DOMAIN reading.chosen /\ reading.chosen[s] \in Seen(k, s)
           /\ \A d \in Seen(k, s) : /\ d.priority <= reading.chosen[s].priority
                                    /\ d.priority = reading.chosen[s].priority => d.version = reading.chosen[s].version
  BY <1>1 DEF AccessInv, BestIsChosen
<1>4. Access(k)!RevocationsPrevail
  <2>. SUFFICES ASSUME NEW r \in steady PROVE r.skill \notin DOMAIN reading.chosen
    BY DEF Access!RevocationsPrevail
  <2>1. r.skill \in reading.revoked
    BY <1>1 DEF AccessInv, SteadyIsSeen
  <2>. QED BY <1>3, <2>1 DEF Seen
<1>5. Access(k)!HighestPrevails
  <2>. SUFFICES ASSUME NEW s \in k.skill
       PROVE  LET meant == Seen(k, s)
                  highest == {c \in meant : \A d \in meant : d.priority <= c.priority}
              IN /\ s \in DOMAIN reading.chosen <=> meant # {}
                 /\ s \in DOMAIN reading.chosen =>
                      reading.chosen[s] \in highest /\ \A c \in highest : c.version = reading.chosen[s].version
    BY <1>2 DEF Access!HighestPrevails
  <2>1. \A c \in Seen(k, s) : c.priority \in Nat
    BY DEF Seen, AccessInv, ReadingIsTyped
  <2>. QED BY <1>3, <2>1
<1>. QED BY <1>4, <1>5

-----------------------------------------
(* The channel of an artifact, and the versions it selects. *)

Version == {1, 2}
Digest == {1, 2}
Publisher == {p}
Admin == {c1, c2}
Percent == {50, 100}
Bucket == {20, 70}

Rollouts == INSTANCE Rollouts WITH
  MaxPut <- 3,
  blobs <- s1, artifact <- s2, trusted <- s3, publishing <- s4, rollout <- s5, putting <- s6, puts <- s7

blobs == s1
artifact == s2
publishing == s4
rollout == s5
putting == s6

USE DEF blobs, artifact, publishing, rollout, putting

RolloutConstants == Rollouts!None \notin Version /\ Rollouts!None \notin Digest /\ Percent \subseteq 0..100
  /\ Bucket \subseteq 0..99

\* A row of the channel names versions that are published, and needs another one while it is not at a hundred percent.
RowIsSound(row) ==
  row # Rollouts!NoRollout =>
    /\ row.version \in Version /\ artifact[row.version] # Rollouts!None /\ row.percent \in Percent
    /\ row.previous # Rollouts!None => row.previous \in Version /\ artifact[row.previous] # Rollouts!None
    /\ row.percent < 100 => row.previous # Rollouts!None
    /\ row.previous # row.version

\* What is indexed is stored, and what is stored of a publication is in the object store.
IndexIsStored ==
  /\ artifact \in [Version -> Digest \cup {Rollouts!None}]
  /\ publishing \in [Publisher -> [version : Version \cup {Rollouts!None}, digest : Digest \cup {Rollouts!None},
                                   stored : BOOLEAN]]
  /\ \A v \in Version : artifact[v] # Rollouts!None => <<v, artifact[v]>> \in blobs
  /\ \A by \in Publisher : publishing[by] # Rollouts!NotPublishing
       => publishing[by].version \in Version /\ publishing[by].digest \in Digest
  /\ \A by \in Publisher : publishing[by].stored => <<publishing[by].version, publishing[by].digest>> \in blobs

\* A change is to a version that is published, from a row that was sound.
ChangesAreSound ==
  /\ DOMAIN putting = Admin
  /\ \A a \in Admin : putting[a] # Rollouts!NotPutting =>
       /\ putting[a].version \in Version /\ artifact[putting[a].version] # Rollouts!None
       /\ putting[a].percent \in Percent /\ RowIsSound(putting[a].read)

RolloutInv == IndexIsStored /\ RowIsSound(rollout) /\ ChangesAreSound

LEMMA RolloutStarts == Rollouts!RolloutInit => RolloutInv
<1>. SUFFICES ASSUME Rollouts!RolloutInit PROVE RolloutInv
  OBVIOUS
<1>1. IndexIsStored
  BY DEF Rollouts!RolloutInit, IndexIsStored, Rollouts!NotPublishing
<1>. QED BY <1>1 DEF Rollouts!RolloutInit, RolloutInv, RowIsSound, ChangesAreSound

\* Versions stay published, with their bytes.
LEMMA PublishedStays ==
  ASSUME IndexIsStored, UNCHANGED artifact \/ \E by \in Publisher : Rollouts!InsertArtifact(by)
  PROVE  \A v \in Version : artifact[v] # Rollouts!None => artifact'[v] = artifact[v]
<1>1. CASE UNCHANGED artifact
  BY <1>1
<1>2. ASSUME NEW by \in Publisher, Rollouts!InsertArtifact(by), NEW v \in Version, artifact[v] # Rollouts!None
      PROVE  artifact'[v] = artifact[v]
  <2>1. artifact' = [artifact EXCEPT ![publishing[by].version] =
                         Rollouts!Indexed(publishing[by].version, publishing[by].digest)]
    BY <1>2 DEF Rollouts!InsertArtifact
  <2>. QED BY <1>2, <2>1 DEF IndexIsStored, Rollouts!Indexed
<1>. QED BY <1>1, <1>2

LEMMA IndexStays ==
  ASSUME RolloutConstants, IndexIsStored, [Rollouts!RolloutNext]_(Rollouts!rolloutVars)
  PROVE  IndexIsStored'
<1>1. CASE UNCHANGED <<blobs, artifact, publishing>>
  BY <1>1 DEF IndexIsStored
<1>2. ASSUME NEW by \in Publisher, NEW v \in Version, NEW d \in Digest, Rollouts!BeginPublish(by, v, d) PROVE IndexIsStored'
  <2>1. /\ publishing' = [publishing EXCEPT ![by] = [version |-> v, digest |-> d, stored |-> FALSE]]
        /\ UNCHANGED <<blobs, artifact>>
    BY <1>2 DEF Rollouts!BeginPublish
  <2>. QED BY <2>1 DEF IndexIsStored
<1>3. ASSUME NEW by \in Publisher, Rollouts!PutBytes(by) PROVE IndexIsStored'
  <2>1. /\ publishing' = [publishing EXCEPT ![by].stored = TRUE] /\ publishing[by] # Rollouts!NotPublishing
        /\ blobs' = blobs \cup {<<publishing[by].version, publishing[by].digest>>} /\ UNCHANGED artifact
    BY <1>3 DEF Rollouts!PutBytes
  <2>2. /\ publishing[by].version \in Version /\ publishing[by].digest \in Digest
        /\ publishing' \in [Publisher -> [version : Version \cup {Rollouts!None}, digest : Digest \cup {Rollouts!None},
                                          stored : BOOLEAN]]
    BY <2>1 DEF IndexIsStored
  <2>3. \A x \in Publisher : publishing'[x].version = publishing[x].version /\ publishing'[x].digest = publishing[x].digest
    BY <2>1 DEF IndexIsStored
  <2>4. \A x \in Publisher : x # by => publishing'[x] = publishing[x]
    BY <2>1 DEF IndexIsStored
  <2>5. \A x \in Publisher : publishing'[x] # Rollouts!NotPublishing
          => publishing'[x].version \in Version /\ publishing'[x].digest \in Digest
    BY <2>2, <2>3, <2>4 DEF IndexIsStored
  <2>6. \A x \in Publisher : publishing'[x].stored => <<publishing'[x].version, publishing'[x].digest>> \in blobs'
    BY <2>1, <2>3, <2>4 DEF IndexIsStored
  <2>. QED BY <2>1, <2>2, <2>5, <2>6 DEF IndexIsStored
<1>4. ASSUME NEW by \in Publisher, Rollouts!InsertArtifact(by) PROVE IndexIsStored'
  <2>1. /\ artifact' = [artifact EXCEPT ![publishing[by].version] =
                           Rollouts!Indexed(publishing[by].version, publishing[by].digest)]
        /\ publishing' = [publishing EXCEPT ![by] = Rollouts!NotPublishing] /\ UNCHANGED blobs
        /\ publishing[by].stored
    BY <1>4 DEF Rollouts!InsertArtifact, Rollouts!Indexable
  <2>2. /\ publishing[by].version \in Version /\ publishing[by].digest \in Digest
        /\ <<publishing[by].version, publishing[by].digest>> \in blobs
    BY <2>1 DEF IndexIsStored, Rollouts!NotPublishing
  <2>3. \A v \in Version : artifact'[v] # Rollouts!None => <<v, artifact'[v]>> \in blobs
    BY <2>1, <2>2 DEF IndexIsStored, Rollouts!Indexed
  <2>4. artifact' \in [Version -> Digest \cup {Rollouts!None}]
    BY <2>1, <2>2 DEF IndexIsStored, Rollouts!Indexed
  <2>. QED BY <2>1, <2>3, <2>4 DEF IndexIsStored, Rollouts!NotPublishing
<1>5. ASSUME NEW by \in Publisher, Rollouts!PublishFails(by) PROVE IndexIsStored'
  <2>1. publishing' = [publishing EXCEPT ![by] = Rollouts!NotPublishing] /\ UNCHANGED <<blobs, artifact>>
    BY <1>5 DEF Rollouts!PublishFails
  <2>. QED BY <2>1 DEF IndexIsStored, Rollouts!NotPublishing
<1>6. [Rollouts!RolloutNext]_(Rollouts!rolloutVars) =>
        \/ UNCHANGED <<blobs, artifact, publishing>>
        \/ \E by \in Publisher :
             \/ Rollouts!PutBytes(by) \/ Rollouts!InsertArtifact(by) \/ Rollouts!PublishFails(by)
             \/ \E v \in Version, d \in Digest : Rollouts!BeginPublish(by, v, d)
  BY DEF Rollouts!RolloutNext, Rollouts!rolloutVars, Rollouts!Distrust, Rollouts!BeginPut, Rollouts!CommitPut
<1>. QED BY <1>1, <1>2, <1>3, <1>4, <1>5, <1>6

\* How rows and changes move.
LEMMA ChannelSteps ==
  [Rollouts!RolloutNext]_(Rollouts!rolloutVars) =>
    /\ UNCHANGED artifact \/ \E by \in Publisher : Rollouts!InsertArtifact(by)
    /\ \/ UNCHANGED <<rollout, putting>>
       \/ \E a \in Admin : Rollouts!CommitPut(a) /\ UNCHANGED artifact
       \/ \E a \in Admin, v \in Version, percent \in Percent : Rollouts!BeginPut(a, v, percent) /\ UNCHANGED artifact
BY DEF Rollouts!RolloutNext, Rollouts!rolloutVars, Rollouts!Distrust, Rollouts!BeginPublish, Rollouts!PutBytes,
   Rollouts!InsertArtifact, Rollouts!PublishFails, Rollouts!BeginPut, Rollouts!CommitPut

LEMMA RolloutKeeps == RolloutConstants /\ RolloutInv /\ [Rollouts!RolloutNext]_(Rollouts!rolloutVars) => RolloutInv'
<1>. SUFFICES ASSUME RolloutConstants, RolloutInv, [Rollouts!RolloutNext]_(Rollouts!rolloutVars) PROVE RolloutInv'
  OBVIOUS
<1>1. IndexIsStored /\ IndexIsStored' /\ \A v \in Version : artifact[v] # Rollouts!None => artifact'[v] = artifact[v]
  BY IndexStays, PublishedStays, ChannelSteps DEF RolloutInv
<1>2. \A row : RowIsSound(row) => (row # Rollouts!NoRollout =>
         /\ row.version \in Version /\ artifact'[row.version] # Rollouts!None /\ row.percent \in Percent
         /\ row.previous # Rollouts!None => row.previous \in Version /\ artifact'[row.previous] # Rollouts!None
         /\ row.percent < 100 => row.previous # Rollouts!None
         /\ row.previous # row.version)
  BY <1>1 DEF RowIsSound
<1>3. CASE UNCHANGED <<rollout, putting>>
  BY <1>1, <1>2, <1>3 DEF RolloutInv, RowIsSound, ChangesAreSound
<1>4. ASSUME NEW a \in Admin, NEW v \in Version, NEW percent \in Percent, Rollouts!BeginPut(a, v, percent), UNCHANGED artifact
      PROVE  RolloutInv'
  <2>1. /\ artifact[v] # Rollouts!None /\ UNCHANGED rollout
        /\ \E l : putting' = [putting EXCEPT ![a] = [version |-> v, percent |-> percent, read |-> rollout, locked |-> l]]
    BY <1>4 DEF Rollouts!BeginPut
  <2>2. \A b \in Admin : putting'[b] # Rollouts!NotPutting =>
          /\ putting'[b].version \in Version /\ artifact'[putting'[b].version] # Rollouts!None
          /\ putting'[b].percent \in Percent /\ RowIsSound(putting'[b].read)
    BY <1>4, <2>1 DEF RolloutInv, ChangesAreSound
  <2>. QED BY <1>1, <1>4, <2>1, <2>2 DEF RolloutInv, ChangesAreSound, RowIsSound
<1>5. ASSUME NEW a \in Admin, Rollouts!CommitPut(a), UNCHANGED artifact PROVE RolloutInv'
  <2>1. /\ putting[a] # Rollouts!NotPutting /\ putting' = [putting EXCEPT ![a] = Rollouts!NotPutting]
        /\ \/ UNCHANGED rollout
           \/ /\ ~(putting[a].percent < 100 /\ Rollouts!Holdback(a) = Rollouts!None)
              /\ rollout' = [version |-> putting[a].version, previous |-> Rollouts!Holdback(a),
                             percent |-> putting[a].percent]
    BY <1>5 DEF Rollouts!CommitPut
  <2>2. /\ putting[a].version \in Version /\ artifact[putting[a].version] # Rollouts!None
        /\ putting[a].percent \in Percent /\ RowIsSound(putting[a].read)
    BY <2>1 DEF RolloutInv, ChangesAreSound
  <2>3. /\ Rollouts!Holdback(a) # putting[a].version
        /\ Rollouts!Holdback(a) # Rollouts!None
             => Rollouts!Holdback(a) \in Version /\ artifact[Rollouts!Holdback(a)] # Rollouts!None
    BY <2>2 DEF Rollouts!Holdback, RowIsSound, Rollouts!NoRollout, RolloutConstants
  <2>4. RowIsSound(rollout')
    BY <2>1, <2>2, <2>3 DEF RolloutInv, RowIsSound
  <2>. QED BY <1>1, <1>5, <2>1, <2>4 DEF RolloutInv, ChangesAreSound, RowIsSound
<1>. QED BY <1>3, <1>4, <1>5, ChannelSteps

LEMMA RolloutSound == RolloutConstants /\ RolloutInv => Rollouts!RolloutsHold
<1>. SUFFICES ASSUME RolloutConstants, RolloutInv, rollout # Rollouts!NoRollout PROVE Rollouts!RolloutsHold
  BY DEF Rollouts!RolloutsHold, Rollouts!SelectedIsFetchable, Rollouts!HoldbackIsAnother
<1>1. /\ rollout.version \in Version /\ artifact[rollout.version] # Rollouts!None /\ rollout.percent \in 0..100
      /\ rollout.previous # Rollouts!None => rollout.previous \in Version /\ artifact[rollout.previous] # Rollouts!None
      /\ rollout.percent < 100 => rollout.previous # Rollouts!None
      /\ rollout.previous # rollout.version
  BY DEF RolloutInv, RowIsSound, RolloutConstants
<1>2. ASSUME NEW b \in Bucket
      PROVE  LET v == Rollouts!Select(rollout, b)
             IN  v # Rollouts!None /\ artifact[v] # Rollouts!None /\ <<v, artifact[v]>> \in blobs
  BY <1>1 DEF Rollouts!Select, RolloutInv, IndexIsStored, RolloutConstants
<1>. QED BY <1>1, <1>2 DEF Rollouts!RolloutsHold, Rollouts!SelectedIsFetchable, Rollouts!HoldbackIsAnother

LEMMA RolloutWidens == RolloutConstants /\ RolloutInv /\ [Rollouts!RolloutNext]_(Rollouts!rolloutVars)
      => Rollouts!ReleasesOnlyWiden
<1>. SUFFICES ASSUME RolloutConstants, RolloutInv, [Rollouts!RolloutNext]_(Rollouts!rolloutVars)
              PROVE  Rollouts!ReleasesOnlyWiden
  OBVIOUS
<1>1. \A v \in Version : artifact[v] # Rollouts!None => artifact'[v] = artifact[v]
  BY PublishedStays, ChannelSteps DEF RolloutInv
<1>2. ASSUME rollout'.version = rollout.version, rollout'.percent >= rollout.percent, NEW b \in Bucket,
             Rollouts!Select(rollout, b) = rollout.version
      PROVE  Rollouts!Select(rollout', b) = rollout.version
  <2>1. CASE UNCHANGED rollout
    BY <1>2, <2>1 DEF Rollouts!Select
  <2>2. CASE rollout = Rollouts!NoRollout /\ ~UNCHANGED rollout
    <3>1. RowIsSound(rollout)' /\ rollout' # Rollouts!NoRollout
      BY <2>2, RolloutKeeps DEF RolloutInv
    <3>. QED BY <1>2, <2>2, <3>1 DEF RowIsSound, Rollouts!NoRollout, RolloutConstants
  <2>3. CASE rollout # Rollouts!NoRollout /\ rollout' # Rollouts!NoRollout
    <3>1. RowIsSound(rollout) /\ RowIsSound(rollout)'
      BY RolloutKeeps DEF RolloutInv
    <3>2. rollout.percent \in 0..100 /\ rollout'.percent \in 0..100 /\ rollout.previous # rollout.version /\ b \in 0..99
      BY <2>3, <3>1 DEF RowIsSound, RolloutConstants
    <3>3. b < rollout.percent
      BY <1>2, <3>2 DEF Rollouts!Select
    <3>4. b < rollout'.percent
      BY <1>2, <3>2, <3>3
    <3>. QED BY <1>2, <3>4 DEF Rollouts!Select
  <2>4. CASE rollout # Rollouts!NoRollout /\ rollout' = Rollouts!NoRollout
    <3>1. rollout.version \in Version
      BY <2>4 DEF RolloutInv, RowIsSound
    <3>. QED BY <1>2, <2>4, <3>1 DEF Rollouts!NoRollout, RolloutConstants
  <2>. QED BY <2>1, <2>2, <2>3, <2>4
<1>. QED BY <1>1, <1>2 DEF Rollouts!ReleasesOnlyWiden

LEMMA ChannelIsMeant == RolloutConstants
BY DEF RolloutConstants, Version, Digest, Percent, Bucket, Rollouts!None

-----------------------------------------
(* The releases of skills, undisturbed and with restarts of governance. *)

Content == {"good", "other", "bad"}
Loadable == {"good", "other"}
Undisturbed == [skill |-> {"s1", "s2"}, admin |-> {c1}, restarts |-> 0]
Restarted == [skill |-> {"s1"}, admin |-> {c1, c2}, restarts |-> 1]

Skills(k) == INSTANCE SkillReleases WITH
  Skill <- k.skill, Admin <- k.admin, MaxRestart <- k.restarts, None <- Nil,
  skill <- s1, source <- s2, request <- s3, bundle <- s4, refused <- s5, approved <- s6, restarts <- s7

skill == s1
source == s2
releasing == s3
bundle == s4
refused == s5
approved == s6
restarts == s7

USE DEF skill, source, releasing, bundle, refused, approved, restarts

SkillText(k) == {[content |-> c, digest |-> Skills(k)!Digest(c)] : c \in Content}
SkillRow(k) == [current : Version, published : Version \cup {Nil}, digest : {Skills(k)!Digest(c) : c \in Content} \cup {Nil}]
ReleaseConstants(k) == Nil \notin SkillText(k) /\ Nil \notin SkillRow(k)

\* A version is there, or nobody has saved it; and there are none of a skill that nobody has created.
RevisionsStand(k) ==
  /\ skill \in [k.skill -> SkillRow(k) \cup {Nil}]
  /\ source \in [k.skill -> [Version -> SkillText(k) \cup {Nil}]]
  /\ \A s \in k.skill : skill[s] = Nil => \A v \in Version : source[s][v] = Nil
  /\ \A s \in k.skill : skill[s] # Nil => source[s][skill[s].current] # Nil
  /\ restarts \in Nat /\ restarts <= k.restarts

\* What is being published is there.
RequestsStand(k) ==
  /\ DOMAIN releasing = k.admin
  /\ \A a \in k.admin : releasing[a] # Nil =>
       /\ releasing[a].skill \in k.skill /\ releasing[a].version \in Version
       /\ source[releasing[a].skill][releasing[a].version] # Nil

Revision(s, v) == [skill |-> s, version |-> v, content |-> source[s][v].content]

\* While no restart has made up pointers, everything that is published, or about to be, was approved and can be loaded.
OnlyApproved(k) ==
  /\ \A e \in approved : e.content \in Loadable
  /\ \A a \in k.admin : releasing[a] # Nil => Revision(releasing[a].skill, releasing[a].version) \in approved
  /\ k.restarts = 0 => /\ \A s \in k.skill : skill[s] # Nil /\ skill[s].published # Nil
                                             => Revision(s, skill[s].published) \in approved
                       /\ bundle \subseteq approved /\ ~refused

ReleaseInv(k) == RevisionsStand(k) /\ RequestsStand(k) /\ Skills(k)!PublishedStands /\ OnlyApproved(k)

LEMMA ReleaseStarts ==
  ASSUME NEW k
  PROVE  k.restarts \in Nat /\ Skills(k)!SkillReleaseInit => ReleaseInv(k)
BY DEF Skills!SkillReleaseInit, ReleaseInv, RevisionsStand, RequestsStand, Skills!PublishedStands, OnlyApproved

\* A version is saved that was not there: nothing that was is changed.
LEMMA SavingKeeps ==
  ASSUME NEW k, ReleaseConstants(k), ReleaseInv(k), NEW s \in k.skill, NEW v \in Version, NEW content \in Content,
         source[s][v] = Nil, Skills(k)!Saved(s, v, content), skill'[s] \in SkillRow(k), skill'[s].current = v,
         skill' = [skill EXCEPT ![s] = skill'[s]],
         skill'[s].published = Nil
           \/ (skill[s] # Nil /\ skill'[s].published = skill[s].published /\ skill'[s].digest = skill[s].digest),
         UNCHANGED <<releasing, bundle, refused, approved, restarts>>
  PROVE  ReleaseInv(k)'
<1>1. /\ [content |-> content, digest |-> Skills(k)!Digest(content)] \in SkillText(k)
      /\ [content |-> content, digest |-> Skills(k)!Digest(content)] # Nil
  BY DEF SkillText, ReleaseConstants
<1>2. source' = [source EXCEPT ![s][v] = [content |-> content, digest |-> Skills(k)!Digest(content)]]
  BY DEF Skills!Saved
<1>3. /\ source' \in [k.skill -> [Version -> SkillText(k) \cup {Nil}]] /\ source'[s][v] # Nil
      /\ \A x \in k.skill, y \in Version : source[x][y] # Nil => source'[x][y] = source[x][y]
      /\ \A x \in k.skill, y \in Version : x # s => source'[x][y] = source[x][y]
  BY <1>1, <1>2 DEF ReleaseInv, RevisionsStand
<1>4. \A x \in k.skill : x # s => skill'[x] = skill[x]
  BY DEF ReleaseInv, RevisionsStand
<1>5. skill' \in [k.skill -> SkillRow(k) \cup {Nil}]
  BY DEF ReleaseInv, RevisionsStand
<1>6. RevisionsStand(k)'
  <2>1. \A x \in k.skill : skill'[x] # Nil => source'[x][skill'[x].current] # Nil
    BY <1>3, <1>4 DEF ReleaseInv, RevisionsStand, SkillRow
  <2>2. \A x \in k.skill : skill'[x] = Nil => \A y \in Version : source'[x][y] = Nil
    BY <1>3, <1>4 DEF ReleaseInv, RevisionsStand, ReleaseConstants
  <2>. QED BY <1>3, <1>5, <2>1, <2>2 DEF ReleaseInv, RevisionsStand
<1>7. RequestsStand(k)'
  BY <1>3 DEF ReleaseInv, RequestsStand
<1>8. \A x \in k.skill : skill'[x] # Nil /\ skill'[x].published # Nil =>
         /\ skill[x] # Nil /\ skill'[x].published = skill[x].published /\ skill'[x].digest = skill[x].digest
         /\ skill[x].published \in Version /\ source'[x][skill[x].published] = source[x][skill[x].published]
         /\ source[x][skill[x].published] # Nil
  <2>. SUFFICES ASSUME NEW x \in k.skill, skill'[x] # Nil, skill'[x].published # Nil
       PROVE  /\ skill[x] # Nil /\ skill'[x].published = skill[x].published /\ skill'[x].digest = skill[x].digest
              /\ skill[x].published \in Version /\ source'[x][skill[x].published] = source[x][skill[x].published]
              /\ source[x][skill[x].published] # Nil
    OBVIOUS
  <2>1. skill[x] # Nil /\ skill'[x].published = skill[x].published /\ skill'[x].digest = skill[x].digest
    BY <1>4
  <2>2. skill[x].published \in Version /\ source[x][skill[x].published] # Nil
    BY <2>1 DEF ReleaseInv, RevisionsStand, Skills!PublishedStands, SkillRow
  <2>. QED BY <1>3, <2>1, <2>2
<1>9. Skills(k)!PublishedStands'
  BY <1>8 DEF ReleaseInv, Skills!PublishedStands
<1>10. OnlyApproved(k)'
  <2>1. \A a \in k.admin : releasing[a] # Nil
          => Revision(releasing[a].skill, releasing[a].version)' = Revision(releasing[a].skill, releasing[a].version)
    BY <1>3 DEF ReleaseInv, RequestsStand, Revision
  <2>2. \A a \in k.admin : releasing'[a] # Nil => Revision(releasing[a].skill, releasing[a].version)' \in approved
    BY <2>1 DEF ReleaseInv, OnlyApproved
  <2>3. ASSUME NEW x \in k.skill, skill'[x] # Nil, skill'[x].published # Nil, k.restarts = 0
        PROVE  Revision(x, skill[x].published)' \in approved
    BY <1>8, <2>3 DEF ReleaseInv, OnlyApproved, Revision
  <2>. QED BY <1>8, <2>2, <2>3 DEF ReleaseInv, OnlyApproved, Revision
<1>. QED BY <1>6, <1>7, <1>9, <1>10 DEF ReleaseInv

\* A row is pointed at a version that is there.
LEMMA PointedStands ==
  ASSUME NEW k, ReleaseInv(k), NEW row \in SkillRow(k), NEW s \in k.skill, NEW v \in Version, source[s][v] # Nil
  PROVE  /\ Skills(k)!Pointed(row, s, v) \in SkillRow(k) /\ Skills(k)!Pointed(row, s, v).published = v
         /\ Skills(k)!Pointed(row, s, v).current = row.current
         /\ Skills(k)!Pointed(row, s, v).digest = Skills(k)!Digest(source[s][v].content)
<1>1. source[s][v] \in SkillText(k)
  BY DEF ReleaseInv, RevisionsStand
<1>2. PICK c \in Content : source[s][v] = [content |-> c, digest |-> Skills(k)!Digest(c)]
  BY <1>1 DEF SkillText
<1>3. row = [current |-> row.current, published |-> row.published, digest |-> row.digest] /\ row.current \in Version
  BY DEF SkillRow
<1>4. PICK u, x, y : row = [current |-> u, published |-> x, digest |-> y] /\ row.current = u /\ u \in Version
  BY <1>3
<1>5. source[s][v].digest = Skills(k)!Digest(c)
  BY <1>2
<1>6. PICK mid : mid = [row EXCEPT !.published = v]
  OBVIOUS
<1>7. mid = [current |-> u, published |-> v, digest |-> y]
  BY <1>4, <1>6
<1>8. [mid EXCEPT !.digest = Skills(k)!Digest(c)] = [current |-> u, published |-> v, digest |-> Skills(k)!Digest(c)]
  BY <1>7
<1>9. Skills(k)!Pointed(row, s, v) = [mid EXCEPT !.digest = Skills(k)!Digest(c)]
  BY <1>5, <1>6, Zenon DEF Skills!Pointed
<1>. QED BY <1>2, <1>4, <1>8, <1>9 DEF SkillRow

LEMMA ReleaseKeeps ==
  ASSUME NEW k
  PROVE  ReleaseConstants(k) /\ k.restarts \in Nat /\ ReleaseInv(k) /\ [Skills(k)!SkillReleaseNext]_(Skills(k)!releaseVars)
           => ReleaseInv(k)'
<1>. SUFFICES ASSUME ReleaseConstants(k), k.restarts \in Nat, ReleaseInv(k),
                     [Skills(k)!SkillReleaseNext]_(Skills(k)!releaseVars)
              PROVE  ReleaseInv(k)'
  OBVIOUS
<1>1. ASSUME NEW s \in k.skill, NEW v \in Version, NEW content \in Content, Skills(k)!CreateSkill(s, v, content)
      PROVE  ReleaseInv(k)'
  <2>1. /\ skill[s] = Nil /\ skill' = [skill EXCEPT ![s] = [current |-> v, published |-> Nil, digest |-> Nil]]
        /\ Skills(k)!Saved(s, v, content) /\ UNCHANGED <<releasing, bundle, refused, approved, restarts>>
    BY <1>1 DEF Skills!CreateSkill
  <2>2. [current |-> v, published |-> Nil, digest |-> Nil] \in SkillRow(k)
    BY DEF SkillRow
  <2>3. skill'[s] = [current |-> v, published |-> Nil, digest |-> Nil] /\ skill' = [skill EXCEPT ![s] = skill'[s]]
    BY <2>1 DEF ReleaseInv, RevisionsStand
  <2>4. source[s][v] = Nil
    BY <2>1 DEF ReleaseInv, RevisionsStand
  <2>5. skill'[s] \in SkillRow(k) /\ skill'[s].current = v /\ skill'[s].published = Nil
    BY <2>2, <2>3
  <2>. QED BY <2>1, <2>3, <2>4, <2>5, SavingKeeps
<1>2. ASSUME NEW s \in k.skill, NEW v \in Version, NEW content \in Content, Skills(k)!CreateSkillVersion(s, v, content)
      PROVE  ReleaseInv(k)'
  <2>1. /\ skill[s] # Nil /\ skill' = [skill EXCEPT ![s].current = v] /\ source[s][v] = Nil
        /\ Skills(k)!Saved(s, v, content) /\ UNCHANGED <<releasing, bundle, refused, approved, restarts>>
    BY <1>2 DEF Skills!CreateSkillVersion, Skills!Unsaved
  <2>2. skill[s] \in SkillRow(k) /\ skill' = [skill EXCEPT ![s] = skill'[s]]
    BY <2>1 DEF ReleaseInv, RevisionsStand
  <2>3. /\ skill'[s] = [current |-> v, published |-> skill[s].published, digest |-> skill[s].digest]
        /\ skill'[s] \in SkillRow(k)
    BY <2>1, <2>2 DEF ReleaseInv, RevisionsStand, SkillRow
  <2>4. skill'[s].current = v /\ skill'[s].published = skill[s].published /\ skill'[s].digest = skill[s].digest
    BY <2>3
  <2>. QED BY <2>1, <2>2, <2>3, <2>4, SavingKeeps
<1>3. ASSUME NEW a \in k.admin, NEW s \in k.skill, NEW v \in Version, Skills(k)!AskPublish(a, s, v) PROVE ReleaseInv(k)'
  <2>1. /\ source[s][v] # Nil /\ source[s][v].content \in Loadable
        /\ releasing' = [releasing EXCEPT ![a] = [skill |-> s, version |-> v]]
        /\ approved' = approved \cup {Revision(s, v)}
        /\ UNCHANGED <<skill, source, bundle, refused, restarts>>
    BY <1>3 DEF Skills!AskPublish, Skills!Valid, Revision
  <2>2. RevisionsStand(k)' /\ Skills(k)!PublishedStands'
    BY <2>1 DEF ReleaseInv, RevisionsStand, Skills!PublishedStands
  <2>3. RequestsStand(k)'
    BY <2>1 DEF ReleaseInv, RequestsStand
  <2>4. Revision(s, v).content \in Loadable
    BY <2>1 DEF Revision
  <2>5. \A b \in k.admin : releasing'[b] # Nil => Revision(releasing'[b].skill, releasing'[b].version) \in approved'
    BY <2>1 DEF ReleaseInv, OnlyApproved, RequestsStand
  <2>6. \A x, y : Revision(x, y)' = Revision(x, y)
    BY <2>1 DEF Revision
  <2>7. OnlyApproved(k)'
    BY <2>1, <2>4, <2>5, <2>6 DEF ReleaseInv, OnlyApproved
  <2>. QED BY <2>2, <2>3, <2>7 DEF ReleaseInv
<1>4. ASSUME NEW a \in k.admin, Skills(k)!PublishSkillVersion(a) PROVE ReleaseInv(k)'
  <2>. DEFINE s == releasing[a].skill
  <2>. DEFINE v == releasing[a].version
  <2>1. /\ releasing[a] # Nil /\ skill' = [skill EXCEPT ![s] = Skills(k)!Pointed(skill[s], s, v)]
        /\ releasing' = [releasing EXCEPT ![a] = Nil] /\ UNCHANGED <<source, bundle, refused, approved, restarts>>
    BY <1>4 DEF Skills!PublishSkillVersion, Skills!Selected
  <2>2. s \in k.skill /\ v \in Version /\ source[s][v] # Nil
    BY <2>1 DEF ReleaseInv, RequestsStand
  <2>3. skill[s] # Nil /\ skill[s] \in SkillRow(k)
    BY <2>2 DEF ReleaseInv, RevisionsStand
  <2>4. /\ Skills(k)!Pointed(skill[s], s, v) \in SkillRow(k) /\ Skills(k)!Pointed(skill[s], s, v).published = v
        /\ Skills(k)!Pointed(skill[s], s, v).current = skill[s].current
        /\ Skills(k)!Pointed(skill[s], s, v).digest = Skills(k)!Digest(source[s][v].content)
    BY <2>2, <2>3, PointedStands
  <2>5. Revision(s, v) \in approved
    BY <2>1 DEF ReleaseInv, OnlyApproved
  <2>. HIDE DEF s, v
  <2>6. skill'[s] = Skills(k)!Pointed(skill[s], s, v) /\ \A x \in k.skill : x # s => skill'[x] = skill[x]
    BY <2>1, <2>2 DEF ReleaseInv, RevisionsStand
  <2>7. RevisionsStand(k)'
    <3>1. skill' \in [k.skill -> SkillRow(k) \cup {Nil}]
      BY <2>1, <2>4 DEF ReleaseInv, RevisionsStand
    <3>2. \A x \in k.skill : skill'[x] = Nil => \A y \in Version : source[x][y] = Nil
      BY <2>4, <2>6 DEF ReleaseInv, RevisionsStand, ReleaseConstants
    <3>3. \A x \in k.skill : skill'[x] # Nil => source[x][skill'[x].current] # Nil
      BY <2>3, <2>4, <2>6 DEF ReleaseInv, RevisionsStand
    <3>. QED BY <2>1, <3>1, <3>2, <3>3 DEF ReleaseInv, RevisionsStand
  <2>8. RequestsStand(k)'
    BY <2>1 DEF ReleaseInv, RequestsStand
  <2>9. Skills(k)!PublishedStands'
    BY <2>1, <2>2, <2>4, <2>6 DEF ReleaseInv, Skills!PublishedStands
  <2>10. \A x, y : Revision(x, y)' = Revision(x, y)
    BY <2>1 DEF Revision
  <2>11. \A x \in k.skill : k.restarts = 0 /\ skill'[x] # Nil /\ skill'[x].published # Nil
           => Revision(x, skill'[x].published) \in approved
    BY <2>4, <2>5, <2>6 DEF ReleaseInv, OnlyApproved
  <2>12. \A b \in k.admin : releasing'[b] # Nil => Revision(releasing'[b].skill, releasing'[b].version) \in approved
    BY <2>1 DEF ReleaseInv, OnlyApproved, RequestsStand
  <2>13. OnlyApproved(k)'
    BY <2>1, <2>10, <2>11, <2>12 DEF ReleaseInv, OnlyApproved
  <2>. QED BY <2>7, <2>8, <2>9, <2>13 DEF ReleaseInv
<1>5. ASSUME Skills(k)!Assemble PROVE ReleaseInv(k)'
  <2>1. /\ UNCHANGED <<skill, source, releasing, approved, restarts>>
        /\ bundle' = Skills(k)!Snapshot \/ bundle' = bundle
        /\ refused' = \E e \in Skills(k)!Snapshot : ~Skills(k)!Acceptable(e)
    BY <1>5 DEF Skills!Assemble
  <2>2. RevisionsStand(k)' /\ RequestsStand(k)' /\ Skills(k)!PublishedStands'
    BY <2>1 DEF ReleaseInv, RevisionsStand, RequestsStand, Skills!PublishedStands
  <2>3. ASSUME NEW e \in Skills(k)!Snapshot
        PROVE  /\ k.restarts = 0 => e \in approved /\ e.content \in Loadable
               /\ source[e.skill][e.version].digest = Skills(k)!Digest(e.content)
    <3>1. PICK s \in k.skill : /\ skill[s] # Nil /\ skill[s].published # Nil
                               /\ e = Revision(s, skill[s].published)
      BY <2>3 DEF Skills!Snapshot, Revision
    <3>2. skill[s].published \in Version /\ source[s][skill[s].published] # Nil
      BY <3>1 DEF ReleaseInv, RevisionsStand, Skills!PublishedStands, SkillRow
    <3>3. source[s][skill[s].published] \in SkillText(k)
      BY <3>2 DEF ReleaseInv, RevisionsStand
    <3>4. source[e.skill][e.version].digest = Skills(k)!Digest(e.content)
      <4>1. /\ e.skill = s /\ e.version = skill[s].published
            /\ e.content = source[s][skill[s].published].content
        BY <3>1 DEF Revision
      <4>2. PICK c \in Content : source[s][skill[s].published] = [content |-> c, digest |-> Skills(k)!Digest(c)]
        BY <3>3 DEF SkillText
      <4>. QED BY <4>1, <4>2
    <3>5. k.restarts = 0 => e \in approved
      BY <3>1 DEF ReleaseInv, OnlyApproved
    <3>. QED BY <3>4, <3>5 DEF ReleaseInv, OnlyApproved
  <2>4. k.restarts = 0 => Skills(k)!Snapshot \subseteq approved /\ ~refused'
    BY <2>1, <2>3 DEF Skills!Acceptable
  <2>5. \A x, y : Revision(x, y)' = Revision(x, y)
    BY <2>1 DEF Revision
  <2>6. OnlyApproved(k)'
    BY <2>1, <2>4, <2>5 DEF ReleaseInv, OnlyApproved
  <2>. QED BY <2>2, <2>6 DEF ReleaseInv
<1>6. ASSUME Skills(k)!Restart PROVE ReleaseInv(k)'
  <2>1. /\ restarts < k.restarts /\ restarts' = restarts + 1
        /\ skill' = [s \in k.skill |-> Skills(k)!Backfilled(skill[s], s)] /\ releasing' = [a \in k.admin |-> Nil]
        /\ UNCHANGED <<source, bundle, refused, approved>>
    BY <1>6 DEF Skills!Restart
  <2>2. ASSUME NEW s \in k.skill
        PROVE  \/ skill'[s] = skill[s]
               \/ /\ skill[s] # Nil /\ skill'[s] \in SkillRow(k) /\ skill'[s].published \in Version
                  /\ skill'[s].current = skill[s].current /\ source[s][skill'[s].published] # Nil
                  /\ skill'[s].digest = Skills(k)!Digest(source[s][skill'[s].published].content)
    <3>1. skill'[s] = skill[s] \/ (skill[s] # Nil /\ skill'[s] = Skills(k)!Pointed(skill[s], s, skill[s].current))
      BY <2>1 DEF Skills!Backfilled
    <3>2. CASE skill[s] # Nil /\ skill'[s] = Skills(k)!Pointed(skill[s], s, skill[s].current)
      <4>1. skill[s] \in SkillRow(k) /\ skill[s].current \in Version /\ source[s][skill[s].current] # Nil
        BY <3>2 DEF ReleaseInv, RevisionsStand, SkillRow
      <4>. QED BY <3>2, <4>1, PointedStands
    <3>. QED BY <3>1, <3>2
  <2>3. RevisionsStand(k)'
    <3>1. skill' \in [k.skill -> SkillRow(k) \cup {Nil}]
      BY <2>1, <2>2 DEF ReleaseInv, RevisionsStand
    <3>2. \A s \in k.skill : skill'[s] = Nil => \A v \in Version : source[s][v] = Nil
      BY <2>2 DEF ReleaseInv, RevisionsStand, ReleaseConstants
    <3>3. \A s \in k.skill : skill'[s] # Nil => source[s][skill'[s].current] # Nil
      BY <2>2 DEF ReleaseInv, RevisionsStand
    <3>4. restarts' \in Nat /\ restarts' <= k.restarts /\ UNCHANGED source
      BY <2>1 DEF ReleaseInv, RevisionsStand
    <3>5. source \in [k.skill -> [Version -> SkillText(k) \cup {Nil}]]
      BY DEF ReleaseInv, RevisionsStand
    <3>. QED BY <3>1, <3>2, <3>3, <3>4, <3>5 DEF RevisionsStand
  <2>4. RequestsStand(k)'
    BY <2>1 DEF RequestsStand
  <2>5. Skills(k)!PublishedStands'
    BY <2>1, <2>2 DEF ReleaseInv, Skills!PublishedStands
  <2>6. OnlyApproved(k)'
    BY <2>1 DEF ReleaseInv, OnlyApproved, RevisionsStand
  <2>. QED BY <2>3, <2>4, <2>5, <2>6 DEF ReleaseInv
<1>7. CASE UNCHANGED Skills(k)!releaseVars
  BY <1>7 DEF Skills!releaseVars, ReleaseInv, RevisionsStand, RequestsStand, Skills!PublishedStands, OnlyApproved, Revision
<1>. QED BY <1>1, <1>2, <1>3, <1>4, <1>5, <1>6, <1>7 DEF Skills!SkillReleaseNext

LEMMA ReleaseSound ==
  ASSUME NEW k
  PROVE  ReleaseInv(k) => Skills(k)!PublishedStands /\ (k.restarts = 0 => Skills(k)!SkillReleasesHold)
BY DEF ReleaseInv, OnlyApproved, Skills!SkillReleasesHold, Skills!BundleIsApproved, Skills!SnapshotIsServed

-----------------------------------------
(* Artifacts on a node: the provisioner, and the runtime that starts them. *)

Provisioned == [version |-> {1, 2}, handler |-> {}, targets |-> 2, crashes |-> 2, damages |-> 1]
Served == [version |-> {1}, handler |-> {c1, c2}, targets |-> 0, crashes |-> 0, damages |-> 1]

Installs(k) == INSTANCE Installs WITH
  Version <- k.version, Handler <- k.handler, MaxTarget <- k.targets, MaxCrash <- k.crashes, MaxDamage <- k.damages,
  target <- s1, disk <- s2, skills <- s3, state <- s4, job <- s5, report <- s6, process <- s7, request <- s8,
  count <- s9

target == s1
disk == s2
skills == s3
state == s4
job == s5
report == s6
process == s7
serving == s8

USE DEF target, disk, skills, state, job, report, process, serving

\* The rows of the disk, and whose the job and the requests are.
DiskShape(row) == row = [dir |-> row.dir, payload |-> row.payload, manifest |-> row.manifest]
JobShape(j) == j = [at |-> j.at, version |-> j.version, clean |-> j.clean]
RequestShape(r) == r = [kind |-> r.kind, version |-> r.version, at |-> r.at, clean |-> r.clean]

InstallRows(k) ==
  /\ target \in k.version
  /\ DOMAIN disk = k.version /\ disk = [v \in k.version |-> disk[v]] /\ \A v \in k.version : DiskShape(disk[v])
  /\ JobShape(job) /\ (job.at # "idle" => job.version \in k.version)
  /\ skills = [dir |-> skills.dir, json |-> skills.json]
  /\ serving = [h \in k.handler |-> serving[h]] /\ \A h \in k.handler : RequestShape(serving[h])

\* An installation has put on the disk what its step says, unless somebody else has touched it; and whoever did has removed
\* the directory, or left a payload in it.
JobIsOnDisk(k) ==
  /\ job.at = "manifest" /\ disk[job.version].dir => disk[job.version].payload # "none"
  /\ job.clean =>
       /\ job.at \in {"manifest", "skills", "snapshot", "state", "report"} => disk[job.version].payload = "whole"
       /\ job.at \in {"skills", "snapshot", "state", "report"} => disk[job.version].manifest
       /\ job.at \in {"snapshot", "state", "report"} => skills.dir = job.version
       /\ job.at \in {"state", "report"} => skills.json = job.version
       /\ job.at = "report" => state = job.version

\* What was verified, and not touched since, is whole or being moved.
VerifiedStands(k) ==
  \A h \in k.handler : serving[h].at = "verified" =>
    /\ serving[h].version \in k.version
    /\ serving[h].clean => disk[serving[h].version].payload \in {"whole", "away"}

InstallInv(k) == InstallRows(k) /\ JobIsOnDisk(k) /\ Installs(k)!PartsAreInvisible /\ VerifiedStands(k)

LEMMA InstallStarts ==
  ASSUME NEW k
  PROVE  Installs(k)!InstallInit => InstallInv(k)
<1>. SUFFICES ASSUME Installs(k)!InstallInit PROVE InstallInv(k)
  OBVIOUS
<1>1. /\ job = [at |-> "idle", version |-> Installs(k)!None, clean |-> TRUE]
      /\ skills = [dir |-> Installs(k)!None, json |-> Installs(k)!None] /\ target \in k.version
      /\ disk = [v \in k.version |-> [dir |-> FALSE, payload |-> "none", manifest |-> FALSE]]
      /\ serving = [h \in k.handler |-> [kind |-> "none", version |-> Installs(k)!None, at |-> "idle", clean |-> TRUE]]
  BY DEF Installs!InstallInit, Installs!NoJob, Installs!NoRequest, Installs!Absent
<1>2. InstallRows(k)
  BY <1>1 DEF InstallRows, DiskShape, JobShape, RequestShape
<1>3. JobIsOnDisk(k)
  BY <1>1 DEF JobIsOnDisk
<1>4. Installs(k)!PartsAreInvisible /\ VerifiedStands(k)
  BY <1>1 DEF Installs!PartsAreInvisible, VerifiedStands
<1>. QED BY <1>2, <1>3, <1>4 DEF InstallInv

\* The provisioner takes the next step of its job.
LEMMA StepTaken ==
  ASSUME NEW k, InstallInv(k), NEW from, NEW to, Installs(k)!Step(from, to), from # "idle"
  PROVE  /\ job' = [at |-> to, version |-> job.version, clean |-> job.clean] /\ JobShape(job')
         /\ job.at = from /\ job'.at = to /\ job'.version = job.version /\ job'.clean = job.clean /\ job.version \in k.version
<1>1. PICK v, c : job = [at |-> from, version |-> v, clean |-> c]
  BY DEF InstallInv, InstallRows, JobShape, Installs!Step
<1>2. job' = [job EXCEPT !.at = to] /\ job.at = from
  BY DEF Installs!Step
<1>3. job' = [at |-> to, version |-> v, clean |-> c]
  BY <1>1, <1>2
<1>. QED BY <1>1, <1>3 DEF InstallInv, InstallRows, JobShape

\* A row of the disk changes in the provisioner's hands: its directory stays.
LEMMA RowChanges ==
  ASSUME NEW k, InstallInv(k), NEW v \in k.version, NEW row, DiskShape(row), disk' = [disk EXCEPT ![v] = row]
  PROVE  /\ DOMAIN disk' = k.version /\ disk' = [x \in k.version |-> disk'[x]] /\ \A x \in k.version : DiskShape(disk'[x])
         /\ disk'[v] = row /\ \A x \in k.version : x # v => disk'[x] = disk[x]
BY DEF InstallInv, InstallRows

\* A job that is over, or begins.
LEMMA JobTurns ==
  ASSUME NEW k, InstallInv(k), UNCHANGED <<disk, skills, state, serving>>, target' \in k.version, NEW at, NEW v, NEW c,
         job' = [at |-> at, version |-> v, clean |-> c], at # "idle" => v \in k.version,
         \/ at \in {"idle", "payload"}
         \/ at = "report" /\ state = v /\ Installs(k)!Whole(v)
  PROVE  InstallInv(k)'
<1>1. InstallRows(k)' /\ Installs(k)!PartsAreInvisible' /\ VerifiedStands(k)'
  BY DEF InstallInv, InstallRows, JobShape, Installs!PartsAreInvisible, VerifiedStands
<1>2. JobIsOnDisk(k)'
  <2>1. job'.at = at /\ job'.version = v
    OBVIOUS
  <2>2. CASE at \in {"idle", "payload"}
    BY <2>1, <2>2 DEF JobIsOnDisk
  <2>3. CASE at = "report" /\ state = v /\ Installs(k)!Whole(v)
    <3>1. skills.dir = v /\ skills.json = v
      BY <2>3 DEF Installs!Whole
    <3>. QED BY <2>1, <2>3, <3>1 DEF JobIsOnDisk, Installs!Whole
  <2>. QED BY <2>2, <2>3
<1>. QED BY <1>1, <1>2 DEF InstallInv

\* The provisioner's steps.
LEMMA InstallingKeeps ==
  ASSUME NEW k, InstallInv(k),
         Installs(k)!Reconcile \/ Installs(k)!InstallFails \/ Installs(k)!MoveAway \/ Installs(k)!Place
           \/ Installs(k)!WriteManifest \/ Installs(k)!ReplaceSkills \/ Installs(k)!WriteSnapshot
                     \/ Installs(k)!WriteState \/ Installs(k)!Report(TRUE) \/ Installs(k)!Report(FALSE) \/ Installs(k)!Crash
  PROVE  InstallInv(k)'
<1>. USE DEF InstallInv
<1>1. CASE Installs(k)!Reconcile
  <2>1. target \in k.version /\ UNCHANGED <<target, disk, skills, state, serving>>
    BY <1>1 DEF Installs!Reconcile, InstallRows
  <2>2. \/ job' = [at |-> "payload", version |-> target, clean |-> TRUE]
        \/ job' = [at |-> "report", version |-> target, clean |-> TRUE] /\ state = target /\ Installs(k)!Whole(target)
    BY <1>1 DEF Installs!Reconcile, Installs!Installed
  <2>. QED BY <2>1, <2>2, JobTurns
<1>2. CASE Installs(k)!InstallFails \/ Installs(k)!Report(TRUE) \/ Installs(k)!Report(FALSE) \/ Installs(k)!Crash
  <2>1. target \in k.version /\ UNCHANGED <<target, disk, skills, state, serving>>
    BY <1>2 DEF Installs!InstallFails, Installs!Report, Installs!Crash, InstallRows
  <2>2. job' = [at |-> "idle", version |-> Installs(k)!None, clean |-> TRUE]
    BY <1>2 DEF Installs!InstallFails, Installs!Report, Installs!Crash, Installs!NoJob
  <2>. QED BY <2>1, <2>2, JobTurns
<1>3. CASE Installs(k)!MoveAway
  <2>. DEFINE row == [dir |-> TRUE, payload |-> IF disk[job.version].payload = "none" THEN "none" ELSE "away",
                      manifest |-> disk[job.version].manifest]
  <2>1. Installs(k)!Step("payload", "place") /\ disk' = [disk EXCEPT ![job.version] = row]
          /\ UNCHANGED <<target, skills, state, serving>>
    BY <1>3 DEF Installs!MoveAway
  <2>2. /\ JobShape(job') /\ job'.at = "place" /\ job'.version = job.version /\ job.version \in k.version
    BY <2>1, StepTaken
  <2>3. DiskShape(row)
    BY DEF DiskShape
  <2>. HIDE DEF row
  <2>4. /\ DOMAIN disk' = k.version /\ disk' = [x \in k.version |-> disk'[x]] /\ \A x \in k.version : DiskShape(disk'[x])
        /\ disk'[job.version] = row /\ \A x \in k.version : x # job.version => disk'[x] = disk[x]
    BY <2>1, <2>2, <2>3, RowChanges
  <2>5. /\ disk'[job.version].manifest = disk[job.version].manifest
        /\ \/ disk[job.version].payload = "none" /\ disk'[job.version].payload = "none"
           \/ disk[job.version].payload # "none" /\ disk'[job.version].payload = "away"
    BY <2>4 DEF row
  <2>. HIDE DEF row
  <2>6. InstallRows(k)'
    BY <2>1, <2>2, <2>4 DEF InstallRows
  <2>7. JobIsOnDisk(k)'
    BY <2>2 DEF JobIsOnDisk
  <2>8. Installs(k)!PartsAreInvisible' /\ VerifiedStands(k)'
    BY <2>1, <2>4, <2>5 DEF Installs!PartsAreInvisible, VerifiedStands
  <2>. QED BY <2>6, <2>7, <2>8
<1>4. CASE Installs(k)!Place
  <2>1. Installs(k)!Step("place", "manifest") /\ disk' = [disk EXCEPT ![job.version].payload = "whole"]
          /\ UNCHANGED <<target, skills, state, serving>>
    BY <1>4 DEF Installs!Place
  <2>2. /\ JobShape(job') /\ job'.at = "manifest" /\ job'.version = job.version /\ job.version \in k.version
    BY <2>1, StepTaken
  <2>. DEFINE old == disk[job.version]
  <2>3. DiskShape(old)
    BY <2>2 DEF InstallRows
  <2>a. PICK d, y, m : old = [dir |-> d, payload |-> y, manifest |-> m]
    BY <2>3 DEF DiskShape
  <2>b. PICK new : new = [old EXCEPT !.payload = "whole"]
    OBVIOUS
  <2>c. disk' = [disk EXCEPT ![job.version] = new]
    BY <2>1, <2>b, Zenon
  <2>. DEFINE row == [dir |-> d, payload |-> "whole", manifest |-> m]
  <2>d. new = row
    BY <2>a, <2>b
  <2>4. DiskShape(row) /\ disk' = [disk EXCEPT ![job.version] = row]
    BY <2>c, <2>d DEF DiskShape
  <2>5. /\ DOMAIN disk' = k.version /\ disk' = [x \in k.version |-> disk'[x]] /\ \A x \in k.version : DiskShape(disk'[x])
        /\ disk'[job.version] = row /\ \A x \in k.version : x # job.version => disk'[x] = disk[x]
    BY <2>2, <2>4, RowChanges
  <2>6. disk'[job.version].payload = "whole"
    BY <2>5
  <2>. HIDE DEF row
  <2>7. InstallRows(k)'
    BY <2>1, <2>2, <2>5 DEF InstallRows
  <2>8. JobIsOnDisk(k)'
    BY <2>2, <2>6 DEF JobIsOnDisk
  <2>9. Installs(k)!PartsAreInvisible' /\ VerifiedStands(k)'
    BY <2>1, <2>5, <2>6 DEF Installs!PartsAreInvisible, VerifiedStands
  <2>. QED BY <2>7, <2>8, <2>9
<1>5. CASE Installs(k)!WriteManifest
  <2>1. /\ Installs(k)!Step("manifest", "skills") /\ disk[job.version].dir
        /\ disk' = [disk EXCEPT ![job.version].manifest = TRUE]
        /\ UNCHANGED <<target, skills, state, serving>>
    BY <1>5 DEF Installs!WriteManifest
  <2>2. /\ JobShape(job') /\ job.at = "manifest" /\ job'.at = "skills" /\ job'.version = job.version /\ job'.clean = job.clean
        /\ job.version \in k.version
    BY <2>1, StepTaken
  <2>. DEFINE old == disk[job.version]
  <2>3. DiskShape(old)
    BY <2>2 DEF InstallRows
  <2>a. PICK d, y, m : old = [dir |-> d, payload |-> y, manifest |-> m]
    BY <2>3 DEF DiskShape
  <2>t. PICK yes : yes = TRUE
    OBVIOUS
  <2>b. PICK new : new = [old EXCEPT !.manifest = yes]
    OBVIOUS
  <2>c. disk' = [disk EXCEPT ![job.version] = new]
    BY <2>1, <2>b, <2>t, Zenon
  <2>. DEFINE row == [dir |-> d, payload |-> y, manifest |-> yes]
  <2>d. new = row
    BY <2>a, <2>b
  <2>4. DiskShape(row) /\ disk' = [disk EXCEPT ![job.version] = row]
    BY <2>c, <2>d DEF DiskShape
  <2>5. /\ DOMAIN disk' = k.version /\ disk' = [x \in k.version |-> disk'[x]] /\ \A x \in k.version : DiskShape(disk'[x])
        /\ disk'[job.version] = row /\ \A x \in k.version : x # job.version => disk'[x] = disk[x]
    BY <2>2, <2>4, RowChanges
  <2>6. disk'[job.version].payload = disk[job.version].payload /\ disk'[job.version].manifest = TRUE
    BY <2>a, <2>t, <2>5
  <2>. HIDE DEF row
  <2>7. InstallRows(k)'
    BY <2>1, <2>2, <2>5 DEF InstallRows
  <2>8. JobIsOnDisk(k)'
    BY <2>2, <2>6 DEF JobIsOnDisk
  <2>9. Installs(k)!PartsAreInvisible' /\ VerifiedStands(k)'
    BY <2>1, <2>2, <2>5, <2>6 DEF Installs!PartsAreInvisible, VerifiedStands, JobIsOnDisk
  <2>. QED BY <2>7, <2>8, <2>9
<1>6. CASE Installs(k)!ReplaceSkills
  <2>1. Installs(k)!Step("skills", "snapshot") /\ skills' = [skills EXCEPT !.dir = job.version]
          /\ UNCHANGED <<target, disk, state, serving>>
    BY <1>6 DEF Installs!ReplaceSkills
  <2>2. /\ JobShape(job') /\ job.at = "skills" /\ job'.at = "snapshot" /\ job'.version = job.version /\ job'.clean = job.clean
        /\ job.version \in k.version
    BY <2>1, StepTaken
  <2>3. PICK x, y : skills = [dir |-> x, json |-> y]
    BY DEF InstallRows
  <2>4. skills' = [dir |-> job.version, json |-> y]
    BY <2>1, <2>3
  <2>. QED BY <2>1, <2>2, <2>4 DEF InstallRows, JobIsOnDisk, Installs!PartsAreInvisible, VerifiedStands
<1>7. CASE Installs(k)!WriteSnapshot
  <2>1. Installs(k)!Step("snapshot", "state") /\ skills' = [skills EXCEPT !.json = job.version]
          /\ UNCHANGED <<target, disk, state, serving>>
    BY <1>7 DEF Installs!WriteSnapshot
  <2>2. /\ JobShape(job') /\ job.at = "snapshot" /\ job'.at = "state" /\ job'.version = job.version /\ job'.clean = job.clean
        /\ job.version \in k.version
    BY <2>1, StepTaken
  <2>3. PICK x, y : skills = [dir |-> x, json |-> y] /\ skills.dir = x
    BY DEF InstallRows
  <2>4. skills' = [dir |-> x, json |-> job.version]
    BY <2>1, <2>3
  <2>. QED BY <2>1, <2>2, <2>3, <2>4 DEF InstallRows, JobIsOnDisk, Installs!PartsAreInvisible, VerifiedStands
<1>8. CASE Installs(k)!WriteState
  <2>1. Installs(k)!Step("state", "report") /\ state' = job.version /\ UNCHANGED <<target, disk, skills, serving>>
    BY <1>8 DEF Installs!WriteState
  <2>2. /\ JobShape(job') /\ job.at = "state" /\ job'.at = "report" /\ job'.version = job.version /\ job'.clean = job.clean
        /\ job.version \in k.version
    BY <2>1, StepTaken
  <2>. QED BY <2>1, <2>2 DEF InstallRows, JobIsOnDisk, Installs!PartsAreInvisible, VerifiedStands
<1>. QED BY <1>1, <1>2, <1>3, <1>4, <1>5, <1>6, <1>7, <1>8

\* Whoever spoils the disk: nothing that was verified stays clean.
LEMMA SpoilingKeeps ==
  ASSUME NEW k, InstallInv(k), NEW v, NEW row, DiskShape(row), disk' = [disk EXCEPT ![v] = row],
         row.manifest => row.payload # "none",
         row.dir => row.payload # "none",
         target' = target, skills' = [dir |-> skills'.dir, json |-> skills'.json], job' = Installs(k)!Touched(job),
         serving' = [h \in k.handler |-> serving'[h]],
         \A h \in k.handler :
           /\ RequestShape(serving'[h])
           /\ serving'[h].at = "verified" => ~serving'[h].clean /\ serving'[h].version \in k.version
  PROVE  InstallInv(k)'
<1>. USE DEF InstallInv
<1>1. PICK a, w, c : job = [at |-> a, version |-> w, clean |-> c]
  BY DEF InstallRows, JobShape
<1>2. job' = [at |-> a, version |-> w, clean |-> FALSE]
  BY <1>1 DEF Installs!Touched
<1>3. /\ JobShape(job') /\ job'.at = job.at /\ job'.version = job.version /\ ~job'.clean
  BY <1>1, <1>2 DEF JobShape
<1>4. /\ DOMAIN disk' = k.version /\ disk' = [x \in k.version |-> disk'[x]] /\ \A x \in k.version : DiskShape(disk'[x])
      /\ \A x \in k.version : disk'[x] = disk[x] \/ disk'[x] = row
  BY DEF InstallRows
<1>5. InstallRows(k)'
  BY <1>3, <1>4 DEF InstallRows
<1>6. JobIsOnDisk(k)'
  BY <1>3, <1>4 DEF JobIsOnDisk, InstallRows
<1>7. Installs(k)!PartsAreInvisible' /\ VerifiedStands(k)'
  BY <1>4 DEF Installs!PartsAreInvisible, VerifiedStands
<1>. QED BY <1>5, <1>6, <1>7

LEMMA SpoiledStands ==
  ASSUME NEW k, InstallInv(k), NEW h \in k.handler
  PROVE  RequestShape(Installs(k)!Spoiled(serving[h]))
           /\ (Installs(k)!Spoiled(serving[h]).at = "verified" =>
                 ~Installs(k)!Spoiled(serving[h]).clean /\ Installs(k)!Spoiled(serving[h]).version \in k.version)
<1>1. PICK r : r = serving[h] /\ RequestShape(r) /\ (r.at = "verified" => r.version \in k.version)
  BY DEF InstallInv, InstallRows, VerifiedStands
<1>2. PICK how, v, a, c : r = [kind |-> how, version |-> v, at |-> a, clean |-> c]
  BY <1>1 DEF RequestShape
<1>3. r.at = a /\ r.version = v
  BY <1>2
<1>4. CASE a = "verified"
  <2>1. Installs(k)!Spoiled(r) = [r EXCEPT !.clean = FALSE]
    BY <1>3, <1>4 DEF Installs!Spoiled
  <2>2. Installs(k)!Spoiled(r) = [kind |-> how, version |-> v, at |-> a, clean |-> FALSE]
    BY <1>2, <2>1
  <2>. QED BY <1>1, <1>3, <1>4, <2>2 DEF RequestShape
<1>5. CASE a # "verified"
  BY <1>1, <1>3, <1>5 DEF Installs!Spoiled
<1>. QED BY <1>4, <1>5

\* A request that is over.
LEMMA RequestOver ==
  ASSUME NEW k, InstallInv(k), NEW h \in k.handler, serving' = [serving EXCEPT ![h] = Installs(k)!NoRequest], disk' = disk
  PROVE  /\ serving' = [x \in k.handler |-> serving'[x]] /\ \A x \in k.handler : RequestShape(serving'[x])
         /\ VerifiedStands(k)'
<1>1. Installs(k)!NoRequest = [kind |-> "none", version |-> Installs(k)!None, at |-> "idle", clean |-> TRUE]
        /\ RequestShape(Installs(k)!NoRequest) /\ Installs(k)!NoRequest.at # "verified"
  BY DEF Installs!NoRequest, RequestShape
<1>2. \A x \in k.handler : serving'[x] = IF x = h THEN Installs(k)!NoRequest ELSE serving[x]
  BY DEF InstallInv, InstallRows
<1>. QED BY <1>1, <1>2 DEF InstallInv, InstallRows, VerifiedStands

LEMMA InstallKeeps ==
  ASSUME NEW k
  PROVE  Installs(k)!None \notin k.version /\ InstallInv(k) /\ [Installs(k)!InstallNext]_(Installs(k)!installVars)
           => InstallInv(k)'
<1>. SUFFICES ASSUME Installs(k)!None \notin k.version, InstallInv(k), [Installs(k)!InstallNext]_(Installs(k)!installVars)
              PROVE  InstallInv(k)'
  OBVIOUS
<1>. USE DEF InstallInv
<1>1. ASSUME NEW v \in k.version, Installs(k)!Retarget(v) PROVE InstallInv(k)'
  BY <1>1 DEF Installs!Retarget, InstallRows, JobIsOnDisk, Installs!PartsAreInvisible, VerifiedStands
<1>2. ASSUME NEW v \in k.version, Installs(k)!Exit(v) PROVE InstallInv(k)'
  BY <1>2 DEF Installs!Exit, InstallRows, JobIsOnDisk, Installs!PartsAreInvisible, VerifiedStands
<1>3. ASSUME NEW v \in k.version, Installs(k)!Damage(v) PROVE InstallInv(k)'
  <2>1. /\ disk' = [disk EXCEPT ![v].payload = "torn"] /\ job' = Installs(k)!Touched(job)
        /\ UNCHANGED <<target, skills, state>>
        /\ serving' = [h \in k.handler |-> Installs(k)!Spoiled(serving[h])]
    BY <1>3 DEF Installs!Damage
  <2>. DEFINE old == disk[v]
  <2>2. DiskShape(old)
    BY DEF InstallRows
  <2>3. PICK d, y, m : old = [dir |-> d, payload |-> y, manifest |-> m]
    BY <2>2 DEF DiskShape
  <2>4. PICK new : new = [old EXCEPT !.payload = "torn"]
    OBVIOUS
  <2>5. disk' = [disk EXCEPT ![v] = new]
    BY <2>1, <2>4, Zenon
  <2>6. new = [dir |-> d, payload |-> "torn", manifest |-> m]
    BY <2>3, <2>4
  <2>7. DiskShape(new) /\ new.payload # "none"
    BY <2>6 DEF DiskShape
  <2>8. \A h \in k.handler : RequestShape(serving'[h])
          /\ (serving'[h].at = "verified" => ~serving'[h].clean /\ serving'[h].version \in k.version)
    BY <2>1, SpoiledStands
  <2>9. serving' = [h \in k.handler |-> serving'[h]]
    BY <2>1
  <2>. QED BY <2>1, <2>5, <2>9, <2>7, <2>8, SpoilingKeeps DEF InstallRows
<1>4. ASSUME NEW h \in k.handler, NEW kind, NEW v \in k.version, Installs(k)!Ask(h, kind, v) PROVE InstallInv(k)'
  <2>1. /\ disk[v].payload = "whole" /\ UNCHANGED <<target, disk, skills, state, job>>
        /\ serving' = [serving EXCEPT ![h] = [kind |-> kind, version |-> v, at |-> "verified", clean |-> TRUE]]
    BY <1>4 DEF Installs!Ask, Installs!Verified
  <2>2. /\ serving' = [x \in k.handler |-> serving'[x]]
        /\ \A x \in k.handler : x # h => serving'[x] = serving[x]
        /\ serving'[h].at = "verified" /\ serving'[h].version = v /\ RequestShape(serving'[h])
    BY <2>1 DEF InstallRows, RequestShape
  <2>3. InstallRows(k)'
    BY <2>1, <2>2 DEF InstallRows
  <2>4. VerifiedStands(k)'
    BY <2>1, <2>2 DEF VerifiedStands
  <2>. QED BY <2>1, <2>3, <2>4 DEF JobIsOnDisk, Installs!PartsAreInvisible
<1>5. ASSUME NEW h \in k.handler, Installs(k)!Start(h) PROVE InstallInv(k)'
  <2>1. UNCHANGED <<target, disk, skills, state, job>> /\ serving' = [serving EXCEPT ![h] = Installs(k)!NoRequest]
    BY <1>5 DEF Installs!Start
  <2>. QED BY <2>1, RequestOver DEF JobIsOnDisk, Installs!PartsAreInvisible, InstallRows
<1>6. ASSUME NEW h \in k.handler, Installs(k)!Stop(h) PROVE InstallInv(k)'
  <2>1. UNCHANGED <<target, disk, skills, state, job>> /\ serving' = [serving EXCEPT ![h].at = "stopping"]
    BY <1>6 DEF Installs!Stop
  <2>2. PICK r : r = serving[h] /\ RequestShape(r)
    BY DEF InstallRows
  <2>3. PICK how, v, a, c : r = [kind |-> how, version |-> v, at |-> a, clean |-> c]
    BY <2>2 DEF RequestShape
  <2>4. PICK new : new = [r EXCEPT !.at = "stopping"]
    OBVIOUS
  <2>5. serving' = [serving EXCEPT ![h] = new]
    BY <2>1, <2>2, <2>4, Zenon
  <2>6. new = [kind |-> how, version |-> v, at |-> "stopping", clean |-> c]
    BY <2>3, <2>4
  <2>7. /\ serving' = [x \in k.handler |-> serving'[x]] /\ serving'[h] = new
        /\ \A x \in k.handler : x # h => serving'[x] = serving[x]
        /\ RequestShape(new) /\ new.at # "verified"
    BY <2>5, <2>6 DEF InstallRows, RequestShape
  <2>8. InstallRows(k)' /\ VerifiedStands(k)'
    BY <2>1, <2>7 DEF InstallRows, VerifiedStands
  <2>. QED BY <2>1, <2>8 DEF JobIsOnDisk, Installs!PartsAreInvisible
<1>7. ASSUME NEW h \in k.handler, Installs(k)!RemoveFiles(h) PROVE InstallInv(k)'
  <2>1. CASE Installs(k)!Removable(serving[h].version)
    <3>1. /\ disk' = [disk EXCEPT ![serving[h].version] = Installs(k)!Absent] /\ job' = Installs(k)!Touched(job)
          /\ UNCHANGED <<target, skills, state>>
          /\ serving' = [x \in k.handler |-> IF x = h THEN [serving[h] EXCEPT !.at = "removing"]
                                             ELSE Installs(k)!Spoiled(serving[x])]
      BY <1>7, <2>1 DEF Installs!RemoveFiles
    <3>2. PICK r : r = serving[h] /\ RequestShape(r)
      BY DEF InstallRows
    <3>3. PICK how, v, a, c : r = [kind |-> how, version |-> v, at |-> a, clean |-> c]
      BY <3>2 DEF RequestShape
    <3>4. serving'[h] = [r EXCEPT !.at = "removing"]
      BY <3>1, <3>2, Zenon
    <3>5. [r EXCEPT !.at = "removing"] = [kind |-> how, version |-> v, at |-> "removing", clean |-> c]
      BY <3>3
    <3>6. RequestShape(serving'[h]) /\ serving'[h].at # "verified"
      BY <3>4, <3>5 DEF RequestShape
    <3>7. \A x \in k.handler : x # h => serving'[x] = Installs(k)!Spoiled(serving[x])
      BY <3>1
    <3>8. serving' = [x \in k.handler |-> serving'[x]]
      BY <3>1
    <3>9. \A x \in k.handler : RequestShape(serving'[x])
            /\ (serving'[x].at = "verified" => ~serving'[x].clean /\ serving'[x].version \in k.version)
      BY <3>6, <3>7, SpoiledStands
    <3>10. DiskShape(Installs(k)!Absent) /\ ~Installs(k)!Absent.manifest /\ ~Installs(k)!Absent.dir
      BY DEF Installs!Absent, DiskShape
    <3>. QED BY <3>1, <3>8, <3>9, <3>10, SpoilingKeeps DEF InstallRows
  <2>2. CASE ~Installs(k)!Removable(serving[h].version)
    <3>1. UNCHANGED <<target, disk, skills, state, job>> /\ serving' = [serving EXCEPT ![h] = Installs(k)!NoRequest]
      BY <1>7, <2>2 DEF Installs!RemoveFiles
    <3>. QED BY <3>1, RequestOver DEF JobIsOnDisk, Installs!PartsAreInvisible, InstallRows
  <2>. QED BY <2>1, <2>2
<1>8. ASSUME NEW h \in k.handler, Installs(k)!RemoveState(h) PROVE InstallInv(k)'
  <2>1. /\ skills' = [dir |-> Installs(k)!None, json |-> Installs(k)!None]
        /\ serving' = [serving EXCEPT ![h] = Installs(k)!NoRequest] /\ job' = Installs(k)!Touched(job)
        /\ UNCHANGED <<target, disk>>
    BY <1>8 DEF Installs!RemoveState
  <2>2. PICK a, w, c : job = [at |-> a, version |-> w, clean |-> c]
    BY DEF InstallRows, JobShape
  <2>3. job' = [at |-> a, version |-> w, clean |-> FALSE]
    BY <2>1, <2>2 DEF Installs!Touched
  <2>4. JobShape(job') /\ job'.at = job.at /\ job'.version = job.version /\ ~job'.clean
    BY <2>2, <2>3 DEF JobShape
  <2>5. skills' = [dir |-> skills'.dir, json |-> skills'.json]
    BY <2>1
  <2>6. InstallRows(k)' /\ VerifiedStands(k)'
    BY <2>1, <2>4, <2>5, RequestOver DEF InstallRows
  <2>. QED BY <2>1, <2>4, <2>6 DEF JobIsOnDisk, Installs!PartsAreInvisible
<1>9. CASE UNCHANGED Installs(k)!installVars
  BY <1>9 DEF Installs!installVars, InstallRows, JobIsOnDisk, Installs!PartsAreInvisible, VerifiedStands
<1>. QED BY InstallingKeeps, <1>1, <1>2, <1>3, <1>4, <1>5, <1>6, <1>7, <1>8, <1>9 DEF Installs!InstallNext

LEMMA InstallSound ==
  ASSUME NEW k
  PROVE  InstallInv(k) => Installs(k)!InstallsHold
BY DEF InstallInv, InstallRows, JobIsOnDisk, Installs!InstallsHold, Installs!ConvergedIsInstalled, Installs!Whole

\* Only a request that is clean, or nobody's, starts a process.
LEMMA ProcessSteps ==
  ASSUME NEW k, [Installs(k)!InstallNext]_(Installs(k)!installVars)
  PROVE
    \/ UNCHANGED process
    \/ \E h \in k.handler : Installs(k)!Start(h)
    \/ \E w : process' = [process EXCEPT ![w] = "stopping"] \/ process' = [process EXCEPT ![w] = "over"]
BY DEF Installs!InstallNext, Installs!installVars, Installs!Reconcile, Installs!InstallFails, Installs!MoveAway,
   Installs!Place, Installs!WriteManifest, Installs!ReplaceSkills, Installs!WriteSnapshot, Installs!WriteState,
       Installs!Report, Installs!Crash, Installs!Retarget, Installs!Damage, Installs!Exit, Installs!Ask, Installs!Stop,
       Installs!RemoveFiles, Installs!RemoveState

LEMMA ProcessesStay ==
  ASSUME NEW k
  PROVE  DOMAIN process = k.version /\ [Installs(k)!InstallNext]_(Installs(k)!installVars) => DOMAIN process' = k.version
BY ProcessSteps DEF Installs!Start

LEMMA OnlyVerifiedStart ==
  ASSUME NEW k
  PROVE  Installs(k)!None \notin k.version /\ InstallInv(k) /\ DOMAIN process = k.version
           /\ [Installs(k)!InstallNext]_(Installs(k)!installVars) => Installs(k)!StartsAreVerified
<1>. SUFFICES ASSUME Installs(k)!None \notin k.version, InstallInv(k), DOMAIN process = k.version,
                     [Installs(k)!InstallNext]_(Installs(k)!installVars), NEW v \in k.version, NEW h \in k.handler,
                     process[v] # "running", process'[v] = "running", serving[h].version = v,
                     serving'[h] = Installs(k)!NoRequest, serving[h].clean
              PROVE  disk[v].payload = "whole"
  BY DEF Installs!StartsAreVerified
<1>1. PICK g \in k.handler : Installs(k)!Start(g)
  BY ProcessSteps
<1>2. /\ serving[g].at = "verified" /\ disk[serving[g].version].payload \notin {"none", "away"}
      /\ process' = [process EXCEPT ![serving[g].version] = "running"]
      /\ serving' = [serving EXCEPT ![g] = Installs(k)!NoRequest]
  BY <1>1 DEF Installs!Start
<1>3. serving[g].version = v
  BY <1>2
<1>4. h = g
  <2>. SUFFICES ASSUME h # g PROVE FALSE
    OBVIOUS
  <2>1. serving[h] = Installs(k)!NoRequest
    BY <1>2 DEF InstallInv, InstallRows
  <2>. QED BY <2>1 DEF Installs!NoRequest
<1>. QED BY <1>2, <1>3, <1>4 DEF InstallInv, VerifiedStands

-----------------------------------------
(* The sources of knowledge, and their editors. *)

Editor == {"e1", "e2"}

Sources == INSTANCE Knowledge WITH
  Worker <- {}, Projector <- {p, q}, MaxVersion <- 3, MaxAttempts <- 2, MaxRemoval <- 1,
  publications <- s1, cycle <- s2, calling <- s3, orphans <- s4, source <- s5, queued <- s6, projector <- s7,
  vectors <- s8, reading <- s9, removals <- s10, texts <- s11

calling == s3
orphans == s4
knowledge == s5
editing == s9
removals == s10

USE DEF calling, orphans, knowledge, editing, removals

\* While a source was never removed its versions only grow, so that an editor who sees the version he has read sees its text.
SeenStands ==
  /\ calling = {} /\ orphans = {}
  /\ knowledge.version \in Nat /\ removals \in Nat
  /\ editing = [e \in Editor |-> editing[e]]
  /\ \A e \in Editor : editing[e] # Sources!Idle /\ removals = 0 =>
       /\ editing[e].seen.version \in Nat /\ editing[e].seen.version <= knowledge.version
       /\ editing[e].seen.version = knowledge.version => editing[e].seen.text = knowledge.text

LEMMA SeenStarts == Sources!KnowledgeInit => SeenStands
<1>. SUFFICES ASSUME Sources!KnowledgeInit PROVE SeenStands
  OBVIOUS
<1>1. knowledge = [version |-> 0, text |-> 0] /\ editing = [e \in Editor |-> Sources!Idle] /\ removals = 0
        /\ calling = {} /\ orphans = {}
  BY DEF Sources!KnowledgeInit, Sources!None
<1>. QED BY <1>1 DEF SeenStands

\* What becomes of the source, and of what has been read of it.
SourceSteps ==
  \/ UNCHANGED <<knowledge, editing, removals>>
  \/ \E e \in Editor : \E what : editing' = [editing EXCEPT ![e] = [at |-> what, seen |-> knowledge]]
       /\ UNCHANGED <<knowledge, removals>>
  \/ removals' = removals + 1 /\ knowledge' = [version |-> 0, text |-> 0] /\ UNCHANGED editing
  \/ \E e \in Editor :
       /\ editing[e] # Sources!Idle /\ editing' = [editing EXCEPT ![e] = Sources!Idle]
       /\ \/ UNCHANGED <<knowledge, removals>>
          \/ /\ editing[e].seen.version = knowledge.version
             /\ \/ removals' = removals + 1 /\ knowledge' = [version |-> 0, text |-> 0]
                \/ \E text : knowledge' = [version |-> knowledge.version + 1, text |-> text] /\ UNCHANGED removals
                \/ knowledge' = [version |-> editing[e].seen.version, text |-> editing[e].seen.text] /\ UNCHANGED removals

LEMMA OnlyEditorsWrite == SeenStands /\ [Sources!KnowledgeNext]_(Sources!knowledgeVars) => SourceSteps
<1>. SUFFICES ASSUME SeenStands, [Sources!KnowledgeNext]_(Sources!knowledgeVars) PROVE SourceSteps
  OBVIOUS
<1>1. CASE UNCHANGED <<knowledge, editing, removals>>
  BY <1>1 DEF SourceSteps
<1>2. ASSUME NEW e \in Editor, NEW what, Sources!Read(e, what) PROVE SourceSteps
  BY <1>2 DEF Sources!Read, SourceSteps
<1>3. ASSUME NEW e \in Editor, Sources!Save(e) PROVE SourceSteps
  <2>1. editing[e] # Sources!Idle /\ editing' = [editing EXCEPT ![e] = Sources!Idle] /\ UNCHANGED removals
    BY <1>3 DEF Sources!Save, Sources!Idle
  <2>2. \/ UNCHANGED knowledge
        \/ /\ editing[e].seen.version = knowledge.version
           /\ \E text : knowledge' = [version |-> knowledge.version + 1, text |-> text]
    BY <1>3 DEF Sources!Save, Sources!Unchanged, Sources!Write
  <2>. QED BY <2>1, <2>2 DEF SourceSteps
<1>4. ASSUME NEW e \in Editor, Sources!Delete(e) PROVE SourceSteps
  <2>1. editing[e] # Sources!Idle /\ editing' = [editing EXCEPT ![e] = Sources!Idle]
    BY <1>4 DEF Sources!Delete, Sources!Idle
  <2>2. \/ UNCHANGED <<knowledge, removals>>
        \/ editing[e].seen.version = knowledge.version /\ removals' = removals + 1 /\ knowledge' = [version |-> 0, text |-> 0]
    BY <1>4 DEF Sources!Delete, Sources!Unchanged, Sources!None
  <2>. QED BY <2>1, <2>2 DEF SourceSteps
<1>5. ASSUME NEW e \in Editor, Sources!Rebuild(e) PROVE SourceSteps
  <2>1. editing[e] # Sources!Idle /\ editing' = [editing EXCEPT ![e] = Sources!Idle] /\ UNCHANGED removals
    BY <1>5 DEF Sources!Rebuild, Sources!Idle
  <2>2. \/ UNCHANGED knowledge
        \/ /\ editing[e].seen.version = knowledge.version
           /\ knowledge' = [version |-> editing[e].seen.version, text |-> editing[e].seen.text]
    BY <1>5 DEF Sources!Rebuild, Sources!Unchanged, Sources!Write
  <2>. QED BY <2>1, <2>2 DEF SourceSteps
<1>6. ASSUME Sources!Withdraw PROVE SourceSteps
  BY <1>6 DEF Sources!Withdraw, Sources!None, SourceSteps
<1>7. ASSUME NEW d \in {p, q}, Sources!LockRow(d) \/ Sources!Clear(d) \/ Sources!Fill(d) \/ Sources!RollBack(d)
      PROVE  SourceSteps
  BY <1>1, <1>7 DEF Sources!LockRow, Sources!Clear, Sources!Fill, Sources!RollBack
<1>8. CASE Sources!Publish
  BY <1>1, <1>8 DEF Sources!Publish
<1>9. CASE UNCHANGED Sources!knowledgeVars
  BY <1>1, <1>9 DEF Sources!knowledgeVars
<1>. QED BY <1>2, <1>3, <1>4, <1>5, <1>6, <1>7, <1>8, <1>9 DEF Sources!KnowledgeNext, SeenStands

LEMMA SeenKeeps == SeenStands /\ [Sources!KnowledgeNext]_(Sources!knowledgeVars) => SeenStands'
<1>. SUFFICES ASSUME SeenStands, [Sources!KnowledgeNext]_(Sources!knowledgeVars) PROVE SeenStands'
  OBVIOUS
<1>1. calling' = {} /\ orphans' = {}
  BY DEF SeenStands, Sources!KnowledgeNext, Sources!knowledgeVars, Sources!Publish, Sources!Withdraw, Sources!Read,
     Sources!Save, Sources!Delete, Sources!Rebuild, Sources!LockRow, Sources!Clear, Sources!Fill, Sources!RollBack
<1>2. SourceSteps
  BY OnlyEditorsWrite
<1>3. CASE UNCHANGED <<knowledge, editing, removals>>
  BY <1>1, <1>3 DEF SeenStands
<1>4. ASSUME NEW e \in Editor, NEW what, editing' = [editing EXCEPT ![e] = [at |-> what, seen |-> knowledge]],
             UNCHANGED <<knowledge, removals>>
      PROVE  SeenStands'
  <2>1. /\ editing' = [x \in Editor |-> editing'[x]] /\ editing'[e].seen = knowledge
        /\ \A x \in Editor : x # e => editing'[x] = editing[x]
    BY <1>4 DEF SeenStands
  <2>. QED BY <1>1, <1>4, <2>1 DEF SeenStands
<1>5. ASSUME removals' = removals + 1, knowledge' = [version |-> 0, text |-> 0], UNCHANGED editing PROVE SeenStands'
  BY <1>1, <1>5 DEF SeenStands
<1>6. ASSUME NEW e \in Editor, editing[e] # Sources!Idle, editing' = [editing EXCEPT ![e] = Sources!Idle],
             \/ UNCHANGED <<knowledge, removals>>
             \/ /\ editing[e].seen.version = knowledge.version
                /\ \/ removals' = removals + 1 /\ knowledge' = [version |-> 0, text |-> 0]
                   \/ \E text : knowledge' = [version |-> knowledge.version + 1, text |-> text] /\ UNCHANGED removals
                   \/ knowledge' = [version |-> editing[e].seen.version, text |-> editing[e].seen.text] /\ UNCHANGED removals
      PROVE  SeenStands'
  <2>1. /\ editing' = [x \in Editor |-> editing'[x]] /\ editing'[e] = Sources!Idle
        /\ \A x \in Editor : x # e => editing'[x] = editing[x]
    BY <1>6 DEF SeenStands
  <2>2. CASE UNCHANGED <<knowledge, removals>>
    BY <1>1, <2>1, <2>2 DEF SeenStands
  <2>3. CASE removals' = removals + 1 /\ knowledge' = [version |-> 0, text |-> 0]
    BY <1>1, <2>1, <2>3 DEF SeenStands
  <2>4. CASE \E text : knowledge' = [version |-> knowledge.version + 1, text |-> text] /\ UNCHANGED removals
    <3>1. knowledge'.version = knowledge.version + 1 /\ removals' = removals
      BY <2>4
    <3>. QED BY <1>1, <2>1, <3>1 DEF SeenStands
  <2>5. CASE /\ editing[e].seen.version = knowledge.version /\ UNCHANGED removals
             /\ knowledge' = [version |-> editing[e].seen.version, text |-> editing[e].seen.text]
    <3>1. knowledge'.version = knowledge.version /\ (removals = 0 => knowledge'.text = knowledge.text)
      BY <1>6, <2>5 DEF SeenStands
    <3>. QED BY <1>1, <2>1, <2>5, <3>1 DEF SeenStands
  <2>. QED BY <1>6, <2>2, <2>3, <2>4, <2>5
<1>. QED BY <1>2, <1>3, <1>4, <1>5, <1>6 DEF SourceSteps

LEMMA EditsStand == SeenStands /\ [Sources!KnowledgeNext]_(Sources!knowledgeVars) => Sources!NoEditIsLost
<1>. SUFFICES ASSUME SeenStands, [Sources!KnowledgeNext]_(Sources!knowledgeVars), NEW e \in Editor,
                     editing[e] # Sources!Idle, editing'[e] = Sources!Idle, knowledge' # knowledge, removals = 0
              PROVE  knowledge.text = editing[e].seen.text
  BY DEF Sources!NoEditIsLost
<1>1. SourceSteps
  BY OnlyEditorsWrite
<1>2. PICK f \in Editor : editing' = [editing EXCEPT ![f] = Sources!Idle] /\ editing[f].seen.version = knowledge.version
        /\ editing[f] # Sources!Idle
  BY <1>1 DEF SourceSteps
<1>3. f = e
  BY <1>2 DEF SeenStands
<1>. QED BY <1>2, <1>3 DEF SeenStands

-----------------------------------------
(* Requests to models, held in groups. *)

Request == {r1, r2, r3, r4}
Model == {"m"}

Batch == INSTANCE Coalescer WITH
  Window <- 2, MaxBatch <- 3, MaxGroup <- 4,
  caller <- s1, group <- s2, groups <- s3, opened <- s4, gauge <- s5, closed <- s6

caller == s1
group == s2
groups == s3
opened == s4
gauge == s5
closed == s6

USE DEF caller, group, groups, opened, gauge, closed

GroupShape(row) == row = [model |-> row.model, members |-> row.members, age |-> row.age, timer |-> row.timer,
                          left |-> row.left]

\* The timer of a group runs down as the group ages, and has gone off when it has none left.
TimerRuns(row) ==
  /\ row.timer \in {"armed", "fired"}
  /\ row.age \in Nat /\ row.left \in Nat /\ row.age + row.left = 2
  /\ row.timer = "fired" => row.left = 0

\* A group in the table is its model's and its timer runs; the groups that are not opened yet are fresh.
TimersStand ==
  /\ opened \in 0 .. 4
  /\ groups \in [Model -> 0 .. opened]
  /\ group = [g \in Batch!Group |-> group[g]] /\ \A g \in Batch!Group : GroupShape(group[g])
  /\ \A g \in Batch!Group : g > opened => group[g].timer = "none" /\ group[g].age = 0
  /\ \A m \in Model : groups[m] # Batch!None => group[groups[m]].model = m /\ TimerRuns(group[groups[m]])

LEMMA TimersStart == Batch!CoalescerInit => TimersStand
<1>. SUFFICES ASSUME Batch!CoalescerInit PROVE TimersStand
  OBVIOUS
<1>1. /\ group = [g \in Batch!Group |-> [model |-> Batch!None, members |-> {}, age |-> 0, timer |-> "none", left |-> 0]]
      /\ groups = [m \in Model |-> 0] /\ opened = 0
  BY DEF Batch!CoalescerInit, Batch!Fresh, Batch!None
<1>. QED BY <1>1 DEF TimersStand, GroupShape, Batch!None

\* A group is in the table under its model only.
LEMMA OneModel ==
  ASSUME TimersStand, NEW m \in Model, NEW o \in Model, groups[m] # Batch!None, groups[m] = groups[o]
  PROVE  m = o
BY DEF TimersStand

\* The timer is started in a group that has none.
LEMMA TimerStarts ==
  ASSUME TimersStand, NEW g \in Batch!Group, NEW m, group[g].timer = "none"
  PROVE  \E s : Batch!Timed(g, m) =
                [group EXCEPT ![g] = [model |-> m, members |-> s, age |-> group[g].age, timer |-> "armed", left |-> 2]]
<1>1. PICK old : old = group[g] /\ GroupShape(old)
  BY DEF TimersStand
<1>2. PICK o, s, a, t, l : old = [model |-> o, members |-> s, age |-> a, timer |-> t, left |-> l]
  BY <1>1 DEF GroupShape
<1>3. PICK x : x = [old EXCEPT !.model = m]
  OBVIOUS
<1>a. PICK y : y = [x EXCEPT !.timer = "armed"]
  OBVIOUS
<1>b. PICK z : z = [y EXCEPT !.left = 2]
  OBVIOUS
<1>c. x = [model |-> m, members |-> s, age |-> a, timer |-> t, left |-> l]
  BY <1>2, <1>3
<1>d. y = [model |-> m, members |-> s, age |-> a, timer |-> "armed", left |-> l]
  BY <1>a, <1>c
<1>4. z = [model |-> m, members |-> s, age |-> a, timer |-> "armed", left |-> 2]
  BY <1>b, <1>d
<1>5. Batch!Timed(g, m) = [group EXCEPT ![g] = z]
  BY <1>1, <1>3, <1>a, <1>b, Zenon DEF Batch!Timed
<1>6. group[g].age = a
  BY <1>1, <1>2
<1>. QED BY <1>4, <1>5, <1>6

\* A request joins a group: all of it but its seats is as the timer makes it.
LEMMA SeatTaken ==
  ASSUME NEW g \in Batch!Group, NEW all, NEW seats, all = [x \in Batch!Group |-> all[x]],
         \A x \in Batch!Group : GroupShape(all[x]),
         NEW new, new = [all EXCEPT ![g].members = seats]
  PROVE  /\ new = [x \in Batch!Group |-> new[x]] /\ \A x \in Batch!Group : GroupShape(new[x])
         /\ \A x \in Batch!Group : x # g => new[x] = all[x]
         /\ new[g].model = all[g].model /\ new[g].age = all[g].age /\ new[g].timer = all[g].timer /\ new[g].left = all[g].left
         /\ new[g].members = seats
<1>1. PICK old : old = all[g] /\ GroupShape(old)
  OBVIOUS
<1>2. PICK o, s, a, t, l : old = [model |-> o, members |-> s, age |-> a, timer |-> t, left |-> l]
  BY <1>1 DEF GroupShape
<1>3. PICK row : row = [old EXCEPT !.members = seats]
  OBVIOUS
<1>4. row = [model |-> o, members |-> seats, age |-> a, timer |-> t, left |-> l]
  BY <1>2, <1>3
<1>5. new = [all EXCEPT ![g] = row]
  BY <1>1, <1>3, Zenon
<1>6. new[g] = row /\ new = [x \in Batch!Group |-> new[x]] /\ \A x \in Batch!Group : x # g => new[x] = all[x]
  BY <1>5
<1>7. GroupShape(row) /\ row.model = old.model /\ row.age = old.age /\ row.timer = old.timer /\ row.left = old.left
        /\ row.members = seats
  BY <1>2, <1>4 DEF GroupShape
<1>. QED BY <1>1, <1>6, <1>7

\* One group changes and leaves the table, or does not leave it and still runs; the others stay.
GroupMoves(g, m) ==
  /\ m \in Model \/ \A o \in Model : groups[o] # g
  /\ opened' \in 0 .. 4 /\ opened <= opened'
  /\ g > opened' => group'[g].timer = "none" /\ group'[g].age = 0 /\ groups' = groups
  /\ groups[m] = g \/ (groups[m] = Batch!None /\ g > opened) \/ \A o \in Model : groups[o] # g
  /\ group' = [x \in Batch!Group |-> group'[x]] /\ \A x \in Batch!Group : GroupShape(group'[x])
  /\ \A x \in Batch!Group : x # g => group'[x] = group[x]
  /\ \/ groups' = [groups EXCEPT ![m] = Batch!None] /\ groups[m] \in {g, Batch!None}
     \/ groups' = [groups EXCEPT ![m] = g] /\ groups[m] \in {g, Batch!None} /\ group'[g].model = m /\ TimerRuns(group'[g])
     \/ groups' = groups /\ \A o \in Model : groups[o] # g
     \/ groups' = groups /\ groups[m] = g /\ group'[g].model = m /\ TimerRuns(group'[g])

LEMMA OneGroupMoves ==
  ASSUME TimersStand, NEW g \in Batch!Group, NEW m, GroupMoves(g, m)
  PROVE  TimersStand'
<1>. USE DEF GroupMoves
<1>1. groups' \in [Model -> 0 .. opened'] /\ g # Batch!None /\ g \in Nat
  BY DEF TimersStand, Batch!None, Batch!Group
<1>2. \A x \in Batch!Group : x > opened' => group'[x].timer = "none" /\ group'[x].age = 0
  <2>1. \A x \in Batch!Group : x > opened => group[x].timer = "none" /\ group[x].age = 0
    BY DEF TimersStand
  <2>2. \A x \in Batch!Group : x > opened' => x > opened
    BY DEF TimersStand, Batch!Group
  <2>. QED BY <2>1, <2>2
<1>3. \A o \in Model : o # m => groups'[o] = groups[o] /\ groups[o] # g
  BY <1>1, OneModel DEF TimersStand
<1>4. ASSUME NEW o \in Model, groups'[o] # Batch!None PROVE group'[groups'[o]].model = o /\ TimerRuns(group'[groups'[o]])
  <2>1. groups'[o] \in Batch!Group
    BY <1>1, <1>4 DEF Batch!Group, Batch!None
  <2>2. CASE o # m
    <3>1. groups'[o] = groups[o] /\ groups[o] # g
      BY <1>3, <2>2
    <3>2. group'[groups[o]] = group[groups[o]]
      BY <2>1, <3>1
    <3>. QED BY <1>4, <3>1, <3>2 DEF TimersStand
  <2>3. CASE o = m
    <3>1. groups'[m] = g \/ (groups'[m] = groups[m] /\ groups[m] # g)
      BY <1>4, <2>3 DEF TimersStand
    <3>2. CASE groups'[m] = g
      <4>1. group'[g].model = m /\ TimerRuns(group'[g])
        <5>1. groups[m] \in 0 .. opened
          BY <2>3 DEF TimersStand
        <5>2. [groups EXCEPT ![m] = Batch!None][m] = Batch!None
          BY <2>3 DEF TimersStand
        <5>. QED BY <1>1, <2>3, <3>2, <5>1, <5>2
      <4>. QED BY <2>3, <3>2, <4>1
    <3>3. CASE groups'[m] = groups[m] /\ groups[m] # g
      <4>1. group'[groups[m]] = group[groups[m]]
        BY <2>1, <2>3, <3>3
      <4>. QED BY <1>4, <2>3, <3>3, <4>1 DEF TimersStand
    <3>. QED BY <3>1, <3>2, <3>3
  <2>. QED BY <2>2, <2>3
<1>. QED BY <1>1, <1>2, <1>4 DEF TimersStand

\* A group leaves because a request fills it.
LEMMA ReleaseSteps ==
  ASSUME TimersStand, NEW g \in Batch!Group, NEW m, NEW seats, Batch!Release(g, m, seats)
  PROVE  /\ group' = [x \in Batch!Group |-> group'[x]] /\ \A x \in Batch!Group : GroupShape(group'[x])
         /\ \A x \in Batch!Group : x # g => group'[x] = group[x]
         /\ groups' = [groups EXCEPT ![m] = Batch!None]
         /\ group'[g].model = group[g].model /\ (group'[g].timer # "none" => group[g].timer # "none")
<1>1. PICK old : old = group[g] /\ GroupShape(old)
  BY DEF TimersStand
<1>2. PICK o, s, a, t, l : old = [model |-> o, members |-> s, age |-> a, timer |-> t, left |-> l]
  BY <1>1 DEF GroupShape
<1>3. PICK x : x = [old EXCEPT !.members = {}]
  OBVIOUS
<1>4. x = [model |-> o, members |-> {}, age |-> a, timer |-> t, left |-> l]
  BY <1>2, <1>3
<1>5. PICK n : n = IF x.timer = "armed" THEN "none" ELSE x.timer
  OBVIOUS
<1>6. PICK y : y = [x EXCEPT !.timer = n]
  OBVIOUS
<1>7. y = [model |-> o, members |-> {}, age |-> a, timer |-> n, left |-> l]
  BY <1>4, <1>6
<1>8. PICK mid : mid = [group EXCEPT ![g] = x]
  OBVIOUS
<1>9. mid[g] = x /\ DOMAIN mid = Batch!Group
  BY <1>8 DEF TimersStand
<1>10. group' = [mid EXCEPT ![g] = y]
  <2>1. mid = [group EXCEPT ![g].members = {}]
    BY <1>1, <1>3, <1>8, Zenon
  <2>2. group' = [mid EXCEPT ![g].timer = IF @ = "armed" THEN "none" ELSE @]
    BY <2>1, Zenon DEF Batch!Release
  <2>. QED BY <2>2, <1>5, <1>6, <1>9, Zenon
<1>11. GroupShape(y) /\ y.model = old.model /\ (y.timer # "none" => old.timer # "none")
  BY <1>2, <1>4, <1>5, <1>7 DEF GroupShape
<1>12. group' = [z \in Batch!Group |-> group'[z]] /\ \A z \in Batch!Group : group'[z] = IF z = g THEN y ELSE group[z]
  BY <1>8, <1>9, <1>10 DEF TimersStand
<1>. QED BY <1>1, <1>11, <1>12 DEF Batch!Release, TimersStand

LEMMA AcquireKeeps ==
  ASSUME TimersStand, NEW r \in Request, NEW m \in Model, Batch!Acquire(r, m)
  PROVE  TimersStand'
<1>1. PICK g \in Batch!Group : /\ g = IF groups[m] = Batch!None THEN opened + 1 ELSE groups[m]
                               /\ opened' = IF groups[m] = Batch!None THEN g ELSE opened
  BY DEF Batch!Acquire
<1>2. /\ opened' \in 0 .. 4 /\ opened <= opened' /\ g <= opened'
      /\ (groups[m] = g \/ (groups[m] = Batch!None /\ g > opened)) /\ groups[m] \in {g, Batch!None}
  BY <1>1 DEF TimersStand, Batch!Group, Batch!None
<1>3. ASSUME NEW seats, Batch!Release(g, m, seats) PROVE TimersStand'
  <2>1. GroupMoves(g, m)
    BY <1>2, <1>3, ReleaseSteps DEF GroupMoves, Batch!Group
  <2>. QED BY <2>1, OneGroupMoves
<1>4. ASSUME NEW seats, groups' = [groups EXCEPT ![m] = g], group' = [Batch!Timed(g, m) EXCEPT ![g].members = seats]
      PROVE  TimersStand'
  <2>1. CASE group[g].timer = "none"
    <3>1. PICK s : Batch!Timed(g, m) =
                     [group EXCEPT ![g] = [model |-> m, members |-> s, age |-> group[g].age, timer |-> "armed", left |-> 2]]
      BY <2>1, TimerStarts
    <3>2. groups[m] = Batch!None /\ group[g].age = 0
      <4>1. groups[m] # Batch!None => TimerRuns(group[groups[m]])
        BY DEF TimersStand
      <4>2. groups[m] = Batch!None
        BY <1>2, <2>1, <4>1 DEF TimerRuns
      <4>. QED BY <1>2, <4>2 DEF TimersStand, Batch!None, Batch!Group
    <3>. DEFINE row == [model |-> m, members |-> s, age |-> group[g].age, timer |-> "armed", left |-> 2]
    <3>3. GroupShape(row) /\ row.model = m /\ row.age = 0 /\ row.timer = "armed" /\ row.left = 2
      BY <3>2 DEF GroupShape
    <3>. HIDE DEF row
    <3>. DEFINE all == Batch!Timed(g, m)
    <3>a. group' = [all EXCEPT ![g].members = seats]
      BY <1>4
    <3>4. all = [group EXCEPT ![g] = row]
      BY <3>1 DEF row
    <3>. HIDE DEF all
    <3>5. /\ all = [x \in Batch!Group |-> all[x]] /\ \A x \in Batch!Group : GroupShape(all[x])
          /\ all[g] = row /\ \A x \in Batch!Group : x # g => all[x] = group[x]
      BY <3>3, <3>4 DEF TimersStand
    <3>6. /\ group' = [x \in Batch!Group |-> group'[x]] /\ \A x \in Batch!Group : GroupShape(group'[x])
          /\ \A x \in Batch!Group : x # g => group'[x] = all[x]
          /\ group'[g].model = all[g].model /\ group'[g].age = all[g].age /\ group'[g].timer = all[g].timer
          /\ group'[g].left = all[g].left
      BY <3>a, <3>5, SeatTaken
    <3>7. group'[g].model = m /\ TimerRuns(group'[g])
      BY <3>3, <3>5, <3>6 DEF TimerRuns
    <3>8. \A x \in Batch!Group : x # g => group'[x] = group[x]
      BY <3>5, <3>6
    <3>9. GroupMoves(g, m)
      BY <1>2, <1>4, <3>6, <3>7, <3>8 DEF GroupMoves, Batch!Group
    <3>. QED BY <3>9, OneGroupMoves
  <2>2. CASE group[g].timer # "none"
    <3>1. groups[m] = g /\ group[g].model = m /\ TimerRuns(group[g])
      <4>1. groups[m] # Batch!None => group[groups[m]].model = m /\ TimerRuns(group[groups[m]])
        BY DEF TimersStand
      <4>2. g > opened => group[g].timer = "none"
        BY DEF TimersStand
      <4>3. groups[m] = g /\ g # Batch!None
        BY <1>2, <2>2, <4>2 DEF Batch!None, Batch!Group
      <4>. QED BY <4>1, <4>3
    <3>2. group' = [group EXCEPT ![g].members = seats]
      BY <1>4, <2>2 DEF Batch!Timed
    <3>3. /\ group' = [x \in Batch!Group |-> group'[x]] /\ \A x \in Batch!Group : GroupShape(group'[x])
          /\ \A x \in Batch!Group : x # g => group'[x] = group[x]
          /\ group'[g].model = group[g].model /\ group'[g].age = group[g].age /\ group'[g].timer = group[g].timer
          /\ group'[g].left = group[g].left
      BY <3>2, SeatTaken DEF TimersStand
    <3>4. group'[g].model = m /\ TimerRuns(group'[g])
      BY <3>1, <3>3 DEF TimerRuns
    <3>5. GroupMoves(g, m)
      BY <1>2, <1>4, <3>3, <3>4 DEF GroupMoves, Batch!Group
    <3>. QED BY <3>5, OneGroupMoves
  <2>. QED BY <2>1, <2>2
<1>5. \/ \E seats : Batch!Release(g, m, seats)
      \/ \E seats : groups' = [groups EXCEPT ![m] = g] /\ group' = [Batch!Timed(g, m) EXCEPT ![g].members = seats]
  BY <1>1 DEF Batch!Acquire
<1>. QED BY <1>3, <1>4, <1>5

\* The timer of a group goes off.
LEMMA FireKeeps ==
  ASSUME TimersStand, NEW g \in Batch!Group, Batch!Fire(g)
  PROVE  TimersStand'
<1>1. PICK old : old = group[g] /\ GroupShape(old)
  BY DEF TimersStand
<1>2. PICK o, s, a, t, l : old = [model |-> o, members |-> s, age |-> a, timer |-> t, left |-> l]
  BY <1>1 DEF GroupShape
<1>3. PICK row : row = [old EXCEPT !.timer = "fired"]
  OBVIOUS
<1>4. row = [model |-> o, members |-> s, age |-> a, timer |-> "fired", left |-> l]
  BY <1>2, <1>3
<1>5. group' = [group EXCEPT ![g] = row] /\ UNCHANGED <<groups, opened>> /\ old.left = 0
  BY <1>1, <1>3, Zenon DEF Batch!Fire
<1>6. GroupShape(row) /\ row.model = old.model /\ (TimerRuns(old) => TimerRuns(row))
  BY <1>2, <1>4, <1>5 DEF GroupShape, TimerRuns
<1>7. /\ group' = [x \in Batch!Group |-> group'[x]] /\ group'[g] = row
      /\ \A x \in Batch!Group : x # g => group'[x] = group[x]
      /\ \A x \in Batch!Group : GroupShape(group'[x])
  BY <1>5, <1>6 DEF TimersStand
<1>8. opened' \in 0 .. 4 /\ opened <= opened'
  BY <1>5 DEF TimersStand
<1>a. g <= opened' /\ opened' \in Nat /\ g \in Nat
  <2>1. group[g].timer = "armed"
    BY DEF Batch!Fire
  <2>. QED BY <1>5, <2>1 DEF TimersStand, Batch!Group
<1>9. ASSUME NEW m \in Model, groups[m] = g PROVE TimersStand'
  <2>1. groups[m] # Batch!None => group[groups[m]].model = m /\ TimerRuns(group[groups[m]])
    BY DEF TimersStand
  <2>2. g # Batch!None
    BY DEF Batch!Group, Batch!None
  <2>3. group'[g].model = m /\ TimerRuns(group'[g])
    BY <1>1, <1>6, <1>7, <1>9, <2>1, <2>2
  <2>4. GroupMoves(g, m)
    BY <1>5, <1>7, <1>8, <1>9, <1>a, <2>3 DEF GroupMoves
  <2>. QED BY <2>4, OneGroupMoves
<1>10. CASE \A m \in Model : groups[m] # g
  <2>1. GroupMoves(g, Batch!None)
    BY <1>5, <1>7, <1>8, <1>10, <1>a DEF GroupMoves
  <2>. QED BY <2>1, OneGroupMoves
<1>. QED BY <1>9, <1>10

\* A timer that is stopped, a group that has left, and one that is a tick older.
LEMMA RowsChange ==
  ASSUME NEW row, GroupShape(row)
  PROVE  /\ GroupShape(Batch!Silent(row)) /\ Batch!Silent(row).age = row.age /\ Batch!Silent(row).timer = "none"
         /\ Batch!Silent(row).members = row.members
         /\ GroupShape(Batch!Left(row)) /\ Batch!Left(row).age = row.age /\ Batch!Left(row).timer = "none"
         /\ GroupShape(Batch!Older(row)) /\ Batch!Older(row).model = row.model /\ Batch!Older(row).timer = row.timer
         /\ Batch!Older(row).members = row.members
         /\ Batch!Older(row).age = row.age + 1 /\ Batch!Older(row).left = row.left - 1
<1>1. PICK o, s, a, t, l : row = [model |-> o, members |-> s, age |-> a, timer |-> t, left |-> l]
  BY DEF GroupShape
<1>2. Batch!Silent(row) = [model |-> o, members |-> s, age |-> a, timer |-> "none", left |-> l]
  BY <1>1 DEF Batch!Silent
<1>. HIDE DEF Batch!Silent
<1>3. Batch!Left(row) = [model |-> o, members |-> {}, age |-> a, timer |-> "none", left |-> l]
  BY <1>2 DEF Batch!Left
<1>4. PICK mid : mid = [row EXCEPT !.age = @ + 1]
  OBVIOUS
<1>5. mid = [model |-> o, members |-> s, age |-> a + 1, timer |-> t, left |-> l]
  BY <1>1, <1>4
<1>6. [mid EXCEPT !.left = @ - 1] = [model |-> o, members |-> s, age |-> a + 1, timer |-> t, left |-> l - 1]
  BY <1>5
<1>7. Batch!Older(row) = [mid EXCEPT !.left = @ - 1]
  BY <1>4, Zenon DEF Batch!Older
<1>. QED BY <1>1, <1>2, <1>3, <1>6, <1>7 DEF GroupShape

\* The callback of a group lets the group go that it finds under its model, when that is its own.
LEMMA CallbackKeeps ==
  ASSUME TimersStand, NEW g \in Batch!Group, Batch!Callback(g)
  PROVE  TimersStand'
<1>1. /\ group[g].timer = "fired" /\ UNCHANGED opened
      /\ \/ /\ Batch!Due(g) = g /\ groups[group[g].model] = g
            /\ groups' = [groups EXCEPT ![group[g].model] = Batch!None]
            /\ group' = [x \in Batch!Group |-> IF x = g THEN Batch!Left(group[x]) ELSE group[x]]
         \/ /\ groups[group[g].model] # g /\ groups' = groups
            /\ group' = [group EXCEPT ![g] = Batch!Silent(group[g])]
  <2>1. (Batch!Due(g) = g) \/ (Batch!Due(g) = Batch!None)
    BY DEF Batch!Due
  <2>. QED BY <2>1 DEF Batch!Callback, Batch!Due, Batch!Group, Batch!None
<1>2. opened' \in 0 .. 4 /\ opened <= opened' /\ g <= opened' /\ opened' \in Nat /\ g \in Nat /\ g # Batch!None
  BY <1>1 DEF TimersStand, Batch!Group, Batch!None
<1>3. GroupShape(group[g])
  BY DEF TimersStand
<1>4. /\ group' = [x \in Batch!Group |-> group'[x]] /\ \A x \in Batch!Group : x # g => group'[x] = group[x]
      /\ group'[g] = Batch!Left(group[g]) \/ group'[g] = Batch!Silent(group[g])
  BY <1>1 DEF TimersStand
<1>5. \A x \in Batch!Group : GroupShape(group'[x])
  BY <1>3, <1>4, RowsChange DEF TimersStand
<1>6. \A m \in Model : groups[m] = g => group[g].model = m
  BY <1>2 DEF TimersStand
<1>7. GroupMoves(g, group[g].model)
  <2>1. CASE groups[group[g].model] = g
    <3>1. group[g].model \in Model \/ \A m \in Model : groups[m] # g
      BY <1>6
    <3>. QED BY <1>1, <1>2, <1>4, <1>5, <2>1, <3>1 DEF GroupMoves
  <2>2. CASE groups[group[g].model] # g
    <3>1. \A m \in Model : groups[m] # g
      BY <1>6, <2>2
    <3>. QED BY <1>1, <1>2, <1>4, <1>5, <2>2, <3>1 DEF GroupMoves
  <2>. QED BY <2>1, <2>2
<1>. QED BY <1>7, OneGroupMoves

\* A request leaves its seat.
LEMMA DropKeeps ==
  ASSUME TimersStand, NEW r \in Request, Batch!Drop(r)
  PROVE  TimersStand'
<1>1. CASE UNCHANGED <<group, groups, opened>>
  BY <1>1 DEF TimersStand
<1>2. ASSUME NEW g, NEW seats, group' = [group EXCEPT ![g].members = seats], UNCHANGED <<groups, opened>> PROVE TimersStand'
  <2>1. CASE g \notin Batch!Group
    <3>1. group' = group
      BY <1>2, <2>1 DEF TimersStand
    <3>. QED BY <1>1, <1>2, <3>1
  <2>2. CASE g \in Batch!Group
    <3>1. /\ group' = [x \in Batch!Group |-> group'[x]] /\ \A x \in Batch!Group : GroupShape(group'[x])
          /\ \A x \in Batch!Group : x # g => group'[x] = group[x]
          /\ group'[g].model = group[g].model /\ group'[g].age = group[g].age /\ group'[g].timer = group[g].timer
          /\ group'[g].left = group[g].left
      <4>1. group = [x \in Batch!Group |-> group[x]] /\ \A x \in Batch!Group : GroupShape(group[x])
        BY DEF TimersStand
      <4>2. group' = [group EXCEPT ![g].members = seats]
        BY <1>2
      <4>. QED BY <2>2, <4>1, <4>2, SeatTaken
    <3>2. /\ opened' \in 0 .. 4 /\ opened <= opened' /\ g # Batch!None
          /\ g > opened' => group'[g].timer = "none" /\ group'[g].age = 0 /\ groups' = groups
      BY <1>2, <2>2, <3>1 DEF TimersStand, Batch!Group, Batch!None
    <3>3. ASSUME NEW m \in Model, groups[m] = g PROVE GroupMoves(g, m)
      <4>1. groups[m] # Batch!None => group[groups[m]].model = m /\ TimerRuns(group[groups[m]])
        BY DEF TimersStand
      <4>2. group'[g].model = m /\ TimerRuns(group'[g])
        BY <3>1, <3>2, <3>3, <4>1 DEF TimerRuns
      <4>. QED BY <1>2, <3>1, <3>2, <3>3, <4>2 DEF GroupMoves
    <3>4. CASE \A m \in Model : groups[m] # g
      <4>1. GroupMoves(g, Batch!None)
        BY <1>2, <3>1, <3>2, <3>4 DEF GroupMoves
      <4>. QED BY <2>2, <4>1, OneGroupMoves
    <3>. QED BY <2>2, <3>3, <3>4, OneGroupMoves
  <2>. QED BY <2>1, <2>2
<1>3. UNCHANGED <<group, groups, opened>>
        \/ (UNCHANGED <<groups, opened>> /\ \E g, seats : group' = [group EXCEPT ![g].members = seats])
  BY Zenon DEF Batch!Drop
<1>. QED BY <1>1, <1>2, <1>3

LEMMA TimersKeep == TimersStand /\ [Batch!CoalescerNext]_(Batch!coalescerVars) => TimersStand'
<1>. SUFFICES ASSUME TimersStand, [Batch!CoalescerNext]_(Batch!coalescerVars) PROVE TimersStand'
  OBVIOUS
<1>1. CASE UNCHANGED <<group, groups, opened>>
  BY <1>1 DEF TimersStand
<1>2. ASSUME NEW r \in Request, Batch!Pass(r) \/ Batch!Cancel(r) PROVE TimersStand'
  BY <1>1, <1>2 DEF Batch!Pass, Batch!Cancel
<1>3. CASE Batch!Close
  <2>1. /\ groups' = [m \in Model |-> Batch!None] /\ opened' = opened
        /\ group' = [g \in Batch!Group |-> IF group[g].timer = "armed" THEN Batch!Silent(group[g]) ELSE group[g]]
    BY <1>3 DEF Batch!Close
  <2>2. /\ group' = [g \in Batch!Group |-> group'[g]]
        /\ \A g \in Batch!Group : group'[g] = group[g] \/ group'[g] = Batch!Silent(group[g])
    BY <2>1
  <2>3. \A g \in Batch!Group : GroupShape(group'[g])
          /\ (group'[g] = group[g] \/ (group'[g].timer = "none" /\ group'[g].age = group[g].age))
    BY <2>2, RowsChange DEF TimersStand
  <2>. QED BY <2>1, <2>2, <2>3 DEF TimersStand, Batch!None
<1>4. CASE Batch!Tick
  <2>1. /\ \A g \in Batch!InTable : group[g].timer = "armed" /\ group[g].left > 0
        /\ group' = [g \in Batch!Group |-> IF g \in Batch!InTable THEN Batch!Older(group[g]) ELSE group[g]]
    BY <1>4 DEF Batch!Tick
  <2>2. UNCHANGED <<groups, opened>>
    BY <1>4 DEF Batch!Tick
  <2>3. /\ group' = [g \in Batch!Group |-> group'[g]]
        /\ \A g \in Batch!Group : g \in Batch!InTable => group'[g] = Batch!Older(group[g])
        /\ \A g \in Batch!Group : g \notin Batch!InTable => group'[g] = group[g]
    BY <2>1
  <2>4. \A g \in Batch!Group : GroupShape(group'[g])
    BY <2>3, RowsChange DEF TimersStand
  <2>5. \A g \in Batch!Group : g > opened => g \notin Batch!InTable
    BY DEF TimersStand, Batch!InTable, Batch!Group
  <2>6. ASSUME NEW m \in Model, groups[m] # Batch!None PROVE group'[groups[m]].model = m /\ TimerRuns(group'[groups[m]])
    <3>1. groups[m] \in Batch!Group /\ groups[m] \in Batch!InTable
      BY <2>6 DEF TimersStand, Batch!InTable, Batch!Group, Batch!None
    <3>2. group[groups[m]].model = m /\ TimerRuns(group[groups[m]]) /\ GroupShape(group[groups[m]])
      BY <2>6, <3>1 DEF TimersStand
    <3>3. /\ group'[groups[m]].model = m /\ group'[groups[m]].timer = group[groups[m]].timer
          /\ group'[groups[m]].age = group[groups[m]].age + 1 /\ group'[groups[m]].left = group[groups[m]].left - 1
      BY <2>3, <3>1, <3>2, RowsChange
    <3>4. group[groups[m]].timer = "armed" /\ group[groups[m]].left > 0
      BY <2>1, <3>1
    <3>. QED BY <3>2, <3>3, <3>4 DEF TimerRuns
  <2>. QED BY <2>2, <2>3, <2>4, <2>5, <2>6 DEF TimersStand
<1>5. CASE UNCHANGED Batch!coalescerVars
  BY <1>1, <1>5 DEF Batch!coalescerVars
<1>. QED BY <1>2, <1>3, <1>4, <1>5, AcquireKeeps, FireKeeps, CallbackKeeps, DropKeeps DEF Batch!CoalescerNext

\* The rows of the callers.
CallerShape(row) == row = [at |-> row.at, group |-> row.group]
CallersStand == caller = [r \in Request |-> caller[r]] /\ \A r \in Request : CallerShape(caller[r])

LEMMA CallersStart == Batch!CoalescerInit => CallersStand
<1>. SUFFICES ASSUME Batch!CoalescerInit PROVE CallersStand
  OBVIOUS
<1>1. caller = [r \in Request |-> [at |-> "idle", group |-> Batch!None]]
  BY DEF Batch!CoalescerInit
<1>. QED BY <1>1 DEF CallersStand, CallerShape

LEMMA RowKept ==
  ASSUME NEW row, CallerShape(row), NEW v
  PROVE  CallerShape([row EXCEPT !.at = v]) /\ CallerShape([row EXCEPT !.group = v])
<1>1. PICK a, o : row = [at |-> a, group |-> o]
  BY DEF CallerShape
<1>2. [row EXCEPT !.at = v] = [at |-> v, group |-> o]
  BY <1>1
<1>3. [row EXCEPT !.group = v] = [at |-> a, group |-> v]
  BY <1>1
<1>. QED BY <1>2, <1>3 DEF CallerShape

LEMMA CallersKeep == CallersStand /\ [Batch!CoalescerNext]_(Batch!coalescerVars) => CallersStand'
<1>. SUFFICES ASSUME CallersStand, [Batch!CoalescerNext]_(Batch!coalescerVars) PROVE CallersStand'
  OBVIOUS
<1>1. CASE UNCHANGED caller
  BY <1>1 DEF CallersStand
<1>2. ASSUME NEW r \in Request, NEW row, CallerShape(row), caller' = [caller EXCEPT ![r] = row] PROVE CallersStand'
  BY <1>2 DEF CallersStand
<1>3. ASSUME NEW r \in Request, NEW v, caller' = [caller EXCEPT ![r].at = v] PROVE CallersStand'
  <2>1. PICK row : row = [caller[r] EXCEPT !.at = v]
    OBVIOUS
  <2>2. caller' = [caller EXCEPT ![r] = row]
    BY <1>3, <2>1, Zenon
  <2>3. CallerShape(row)
    BY <2>1, RowKept DEF CallersStand
  <2>. QED BY <1>2, <2>2, <2>3
<1>4. ASSUME NEW r \in Request, Batch!Pass(r) \/ Batch!Cancel(r) \/ Batch!Drop(r) PROVE CallersStand'
  <2>1. \E v : caller' = [caller EXCEPT ![r].at = v]
    BY <1>4, Zenon DEF Batch!Pass, Batch!Cancel, Batch!Drop
  <2>. QED BY <1>3, <2>1
<1>5. ASSUME NEW r \in Request, NEW m \in Model, Batch!Acquire(r, m) PROVE CallersStand'
  <2>1. PICK g, seats : Batch!Release(g, m, seats) \/ caller' = [caller EXCEPT ![r] = [at |-> "held", group |-> g]]
    BY <1>5 DEF Batch!Acquire
  <2>2. CASE Batch!Release(g, m, seats)
    <3>1. caller' = [x \in Request |-> IF x \in seats /\ caller[x].at # "leaving" THEN [at |-> "sent", group |-> g]
                                       ELSE IF x \in seats THEN [caller[x] EXCEPT !.group = g] ELSE caller[x]]
      BY <2>2 DEF Batch!Release
    <3>2. CallerShape([at |-> "sent", group |-> g])
      BY DEF CallerShape
    <3>3. \A x \in Request : CallerShape([caller[x] EXCEPT !.group = g])
      BY RowKept DEF CallersStand
    <3>. QED BY <3>1, <3>2, <3>3 DEF CallersStand
  <2>3. CASE caller' = [caller EXCEPT ![r] = [at |-> "held", group |-> g]]
    <3>1. CallerShape([at |-> "held", group |-> g])
      BY DEF CallerShape
    <3>. QED BY <1>2, <2>3, <3>1
  <2>. QED BY <2>1, <2>2, <2>3
<1>6. ASSUME NEW g \in Batch!Group, Batch!Callback(g) PROVE CallersStand'
  <2>1. \/ UNCHANGED caller
        \/ \E s : caller' = [r \in Request |-> IF r \in s /\ caller[r].at = "held" THEN [caller[r] EXCEPT !.at = "sent"]
                                               ELSE caller[r]]
    BY <1>6, Zenon DEF Batch!Callback
  <2>2. \A x \in Request : CallerShape([caller[x] EXCEPT !.at = "sent"])
    BY RowKept DEF CallersStand
  <2>. QED BY <1>1, <2>1, <2>2 DEF CallersStand
<1>7. ASSUME NEW g \in Batch!Group, Batch!Fire(g) PROVE CallersStand'
  BY <1>1, <1>7 DEF Batch!Fire
<1>8. CASE Batch!Close \/ Batch!Tick
  BY <1>1, <1>8 DEF Batch!Close, Batch!Tick
<1>9. CASE UNCHANGED Batch!coalescerVars
  BY <1>1, <1>9 DEF Batch!coalescerVars
<1>. QED BY <1>4, <1>5, <1>6, <1>7, <1>8, <1>9 DEF Batch!CoalescerNext

\* A group is seated anew, its timer starting with its first member.
Seated(f, m, seats) == group' = [Batch!Timed(f, m) EXCEPT ![f].members = seats]

\* A request joins a group, whose timer starts with its first.
LEMMA SeatedGroup ==
  ASSUME TimersStand, NEW f \in Batch!Group, NEW m, NEW seats, Seated(f, m, seats)
  PROVE  /\ group'[f].members = seats /\ \A x \in Batch!Group : x # f => group'[x] = group[x]
         /\ group'[f].model = m \/ (group'[f].model = group[f].model /\ group[f].timer # "none")
<1>1. /\ Batch!Timed(f, m) = [x \in Batch!Group |-> Batch!Timed(f, m)[x]]
      /\ \A x \in Batch!Group : GroupShape(Batch!Timed(f, m)[x])
      /\ \A x \in Batch!Group : x # f => Batch!Timed(f, m)[x] = group[x]
      /\ Batch!Timed(f, m)[f].model = m \/ (Batch!Timed(f, m)[f].model = group[f].model /\ group[f].timer # "none")
  <2>1. CASE group[f].timer = "none"
    <3>1. PICK s : Batch!Timed(f, m) =
                     [group EXCEPT ![f] = [model |-> m, members |-> s, age |-> group[f].age, timer |-> "armed", left |-> 2]]
      BY <2>1, TimerStarts
    <3>. DEFINE row == [model |-> m, members |-> s, age |-> group[f].age, timer |-> "armed", left |-> 2]
    <3>2. GroupShape(row) /\ row.model = m
      BY DEF GroupShape
    <3>3. Batch!Timed(f, m) = [group EXCEPT ![f] = row]
      BY <3>1
    <3>. HIDE DEF row
    <3>. QED BY <3>2, <3>3 DEF TimersStand
  <2>2. CASE group[f].timer # "none"
    BY <2>2 DEF Batch!Timed, TimersStand
  <2>. QED BY <2>1, <2>2
<1>. DEFINE all == Batch!Timed(f, m)
<1>2. group' = [all EXCEPT ![f].members = seats]
  BY DEF Seated
<1>3. all = [x \in Batch!Group |-> all[x]] /\ \A x \in Batch!Group : GroupShape(all[x])
  BY <1>1
<1>. HIDE DEF all
<1>4. group'[f].members = seats /\ \A x \in Batch!Group : x # f => group'[x] = all[x]
  <2>1. PICK old : old = all[f] /\ GroupShape(old)
    BY <1>3
  <2>2. PICK o, s, a, t, l : old = [model |-> o, members |-> s, age |-> a, timer |-> t, left |-> l]
    BY <2>1 DEF GroupShape
  <2>3. PICK row : row = [old EXCEPT !.members = seats]
    OBVIOUS
  <2>4. row.members = seats
    BY <2>2, <2>3
  <2>5. group' = [all EXCEPT ![f] = row]
    BY <1>2, <2>1, <2>3, Zenon
  <2>6. group'[f] = row /\ \A x \in Batch!Group : x # f => group'[x] = all[x]
    BY <1>3, <2>5
  <2>. QED BY <2>4, <2>6
<1>5. group'[f].model = all[f].model
  BY <1>2, <1>3, SeatTaken
<1>. QED BY <1>1, <1>4, <1>5 DEF all

\* Only who fills a group, its own callback and its last request to leave take the seats of a group in the table.
LEMMA BatchesStand == TimersStand /\ CallersStand /\ [Batch!CoalescerNext]_(Batch!coalescerVars)
      => Batch!BatchesAreDue
<1>. SUFFICES ASSUME TimersStand, CallersStand, [Batch!CoalescerNext]_(Batch!coalescerVars), NEW g \in Batch!InTable,
                     group[g].members # {}, group'[g].members = {},
                     ~\E r \in Request : caller'[r].at = "gone" /\ caller[r].at = "leaving"
              PROVE  group[g].age = 2 \/ \E r \in Request : caller[r].at = "idle" /\ caller'[r].group = g
  BY DEF Batch!BatchesAreDue
<1>0. g \in Batch!Group /\ g # Batch!None /\ \E m \in Model : groups[m] = g
  BY DEF Batch!InTable, Batch!Group, Batch!None
<1>1. ASSUME NEW r \in Request, NEW m \in Model, Batch!Acquire(r, m) PROVE caller[r].at = "idle" /\ caller'[r].group = g
  <2>0. PICK f \in Batch!Group : \E seats :
               /\ caller[r].at = "idle" /\ r \in seats
               /\ \/ Batch!Release(f, m, seats)
                  \/ caller' = [caller EXCEPT ![r] = [at |-> "held", group |-> f]]
                       /\ group' = [Batch!Timed(f, m) EXCEPT ![f].members = seats]
    BY <1>1 DEF Batch!Acquire
  <2>1. PICK seats :
               /\ caller[r].at = "idle" /\ r \in seats
               /\ \/ Batch!Release(f, m, seats)
                  \/ caller' = [caller EXCEPT ![r] = [at |-> "held", group |-> f]]
                       /\ group' = [Batch!Timed(f, m) EXCEPT ![f].members = seats]
    BY <2>0
  <2>2. CASE Batch!Release(f, m, seats)
    <3>1. caller' = [x \in Request |-> IF x \in seats /\ caller[x].at # "leaving" THEN [at |-> "sent", group |-> f]
                                       ELSE IF x \in seats THEN [caller[x] EXCEPT !.group = f] ELSE caller[x]]
      BY <2>2 DEF Batch!Release
    <3>2. caller'[r] = [at |-> "sent", group |-> f]
      BY <2>1, <3>1
    <3>3. f = g
      BY <1>0, <2>2, ReleaseSteps
    <3>. QED BY <2>1, <3>2, <3>3
  <2>3. CASE group' = [Batch!Timed(f, m) EXCEPT ![f].members = seats]
    <3>3. Seated(f, m, seats)
      BY <2>3 DEF Seated
    <3>0. group'[f].members = seats /\ \A x \in Batch!Group : x # f => group'[x] = group[x]
      BY <3>3, SeatedGroup
    <3>1. group'[f].members # {}
      BY <2>1, <3>0
    <3>2. g # f => group'[g] = group[g]
      BY <1>0, <3>0
    <3>. QED BY <3>1, <3>2
  <2>. QED BY <2>1, <2>2, <2>3
<1>2. ASSUME NEW x \in Batch!Group, Batch!Callback(x) PROVE group[g].age = 2
  <2>1. group[x].timer = "fired" /\ (Batch!Due(x) = x \/ Batch!Due(x) = Batch!None)
    BY <1>2 DEF Batch!Callback, Batch!Due
  <2>2. g = x
    <3>1. CASE Batch!Due(x) = x
      <4>1. group' = [y \in Batch!Group |-> IF y = x THEN Batch!Left(group[y]) ELSE group[y]]
        BY <1>2, <3>1 DEF Batch!Callback, Batch!Group, Batch!None
      <4>. QED BY <1>0, <4>1
    <3>2. CASE Batch!Due(x) = Batch!None
      <4>1. group' = [group EXCEPT ![x] = Batch!Silent(group[x])]
        BY <1>2, <3>2 DEF Batch!Callback
      <4>2. GroupShape(group[x])
        BY DEF TimersStand
      <4>. QED BY <1>0, <4>1, <4>2, RowsChange DEF TimersStand
    <3>. QED BY <2>1, <3>1, <3>2
  <2>3. TimerRuns(group[g])
    BY <1>0 DEF TimersStand
  <2>. QED BY <2>1, <2>2, <2>3 DEF TimerRuns
<1>4. group'[g] # group[g]
  OBVIOUS
<1>3. ASSUME NEW r \in Request, Batch!Drop(r) PROVE FALSE
  <2>1. group' # group
    BY <1>4
  <2>2. PICK old : old = caller[r] /\ old = [at |-> old.at, group |-> old.group]
    BY DEF CallersStand, CallerShape
  <2>3. PICK a, o : old = [at |-> a, group |-> o]
    BY <2>2
  <2>4. PICK new : new = [old EXCEPT !.at = "gone"]
    OBVIOUS
  <2>5. new.at = "gone"
    BY <2>3, <2>4
  <2>6. groups[group[caller[r].group].model] = caller[r].group
    BY <1>3, <2>1 DEF Batch!Drop
  <2>7. caller' = [caller EXCEPT ![r] = new] /\ caller[r].at = "leaving"
    BY <1>3, <2>2, <2>4, <2>6, Zenon DEF Batch!Drop
  <2>8. caller'[r] = new
    BY <2>7 DEF CallersStand
  <2>. QED BY <2>5, <2>7, <2>8
<1>5. ASSUME NEW x \in Batch!Group, Batch!Fire(x) PROVE FALSE
  <2>1. PICK old : old = group[x] /\ GroupShape(old)
    BY DEF TimersStand
  <2>2. PICK o, s, a, t, l : old = [model |-> o, members |-> s, age |-> a, timer |-> t, left |-> l]
    BY <2>1 DEF GroupShape
  <2>3. PICK row : row = [old EXCEPT !.timer = "fired"]
    OBVIOUS
  <2>4. row.members = old.members
    BY <2>2, <2>3
  <2>5. group' = [group EXCEPT ![x] = row]
    BY <1>5, <2>1, <2>3, Zenon DEF Batch!Fire
  <2>6. x = g /\ group'[x] = row
    BY <1>0, <1>4, <2>5 DEF TimersStand
  <2>. QED BY <2>1, <2>4, <2>6
<1>6. ASSUME Batch!Close \/ Batch!Tick PROVE FALSE
  <2>1. group'[g] = group[g] \/ group'[g] = Batch!Silent(group[g]) \/ group'[g] = Batch!Older(group[g])
    BY <1>0, <1>6 DEF Batch!Close, Batch!Tick
  <2>2. GroupShape(group[g])
    BY <1>0 DEF TimersStand
  <2>. QED BY <2>1, <2>2, RowsChange
<1>7. ASSUME NEW r \in Request, Batch!Pass(r) \/ Batch!Cancel(r) PROVE FALSE
  BY <1>4, <1>7 DEF Batch!Pass, Batch!Cancel
<1>8. CASE UNCHANGED Batch!coalescerVars
  BY <1>4, <1>8 DEF Batch!coalescerVars
<1>. QED BY <1>1, <1>2, <1>3, <1>5, <1>6, <1>7, <1>8 DEF Batch!CoalescerNext

LEMMA RequestsAreFinite == IsFiniteSet(Request)
<1>1. IsFiniteSet(((({} \cup {r1}) \cup {r2}) \cup {r3}) \cup {r4})
  BY FS_EmptySet, FS_AddElement
<1>2. {r1, r2, r3, r4} = ((({} \cup {r1}) \cup {r2}) \cup {r3}) \cup {r4}
  BY Zenon
<1>. QED BY <1>1, <1>2 DEF Request

LEMMA RequestsCount == ASSUME NEW S PROVE Batch!Cardinality(S) = Cardinality(S)
BY DEF Batch!Cardinality, Cardinality

\* The requests that wait in a group.
Held == {r \in Request : caller[r].at \in {"held", "leaving"}}

\* The seats of a group in the table are the requests that wait in it; nobody waits in a group that is not opened yet.
SeatsStand ==
  /\ \A g \in Batch!InTable : group[g].members = {r \in Held : caller[r].group = g} /\ Cardinality(group[g].members) < 3
  /\ \A r \in Held : caller[r].group \in 1 .. opened
  /\ \A g \in Batch!Group : g > opened => group[g].members = {}

\* A timer is its group's model's.
ModelsStand == \A g \in Batch!Group : group[g].timer # "none" => group[g].model \in Model

LEMMA ModelsStart ==
  ASSUME Batch!CoalescerInit
  PROVE  ModelsStand
BY DEF Batch!CoalescerInit, Batch!Fresh, ModelsStand

LEMMA ModelsKeep ==
  ASSUME TimersStand, ModelsStand, [Batch!CoalescerNext]_(Batch!coalescerVars)
  PROVE  ModelsStand'
<1>1. ASSUME NEW r \in Request, NEW m \in Model, Batch!Acquire(r, m) PROVE ModelsStand'
  <2>1. PICK f \in Batch!Group : f = IF groups[m] = Batch!None THEN opened + 1 ELSE groups[m]
    BY <1>1 DEF Batch!Acquire
  <2>2. PICK seats : \/ Batch!Release(f, m, seats)
                       \/ group' = [Batch!Timed(f, m) EXCEPT ![f].members = seats]
    BY <1>1, <2>1 DEF Batch!Acquire
  <2>3. CASE Batch!Release(f, m, seats)
    <3>1. /\ group'[f].model = group[f].model /\ (group'[f].timer # "none" => group[f].timer # "none")
          /\ \A x \in Batch!Group : x # f => group'[x] = group[x]
      BY <2>3, ReleaseSteps
    <3>. QED BY <3>1 DEF ModelsStand
  <2>4. CASE group' = [Batch!Timed(f, m) EXCEPT ![f].members = seats]
    <3>1. Seated(f, m, seats)
      BY <2>4 DEF Seated
    <3>2. /\ \A x \in Batch!Group : x # f => group'[x] = group[x]
          /\ group'[f].model = m \/ (group'[f].model = group[f].model /\ group[f].timer # "none")
      BY <3>1, SeatedGroup
    <3>. QED BY <3>2 DEF ModelsStand
  <2>. QED BY <2>2, <2>3, <2>4
<1>2. ASSUME NEW r \in Request, Batch!Drop(r) PROVE ModelsStand'
  <2>1. CASE UNCHANGED group
    BY <2>1 DEF ModelsStand
  <2>2. ASSUME NEW f, NEW seats, group' = [group EXCEPT ![f].members = seats] PROVE ModelsStand'
    <3>1. CASE f \notin Batch!Group
      <4>1. group' = group
        BY <2>2, <3>1 DEF TimersStand
      <4>. QED BY <4>1 DEF ModelsStand
    <3>2. CASE f \in Batch!Group
      <4>1. group = [x \in Batch!Group |-> group[x]] /\ \A x \in Batch!Group : GroupShape(group[x])
        BY DEF TimersStand
      <4>2. /\ \A x \in Batch!Group : x # f => group'[x] = group[x]
            /\ group'[f].model = group[f].model /\ group'[f].timer = group[f].timer
        BY <2>2, <3>2, <4>1, SeatTaken
      <4>. QED BY <4>2 DEF ModelsStand
    <3>. QED BY <3>1, <3>2
  <2>3. UNCHANGED group \/ \E f, seats : group' = [group EXCEPT ![f].members = seats]
    BY <1>2, Zenon DEF Batch!Drop
  <2>. QED BY <2>1, <2>2, <2>3
<1>3. ASSUME NEW g \in Batch!Group, Batch!Fire(g) PROVE ModelsStand'
  <2>1. PICK old : old = group[g] /\ GroupShape(old)
    BY DEF TimersStand
  <2>2. PICK o, s, a, t, l : old = [model |-> o, members |-> s, age |-> a, timer |-> t, left |-> l]
    BY <2>1 DEF GroupShape
  <2>3. PICK row : row = [old EXCEPT !.timer = "fired"]
    OBVIOUS
  <2>4. row.model = old.model
    BY <2>2, <2>3
  <2>5. group' = [group EXCEPT ![g] = row] /\ old.timer = "armed"
    BY <1>3, <2>1, <2>3, Zenon DEF Batch!Fire
  <2>. QED BY <2>1, <2>4, <2>5 DEF ModelsStand, TimersStand
<1>4. ASSUME \A x \in Batch!Group : group'[x] \in {group[x], Batch!Silent(group[x]), Batch!Older(group[x]),
                                                      Batch!Left(group[x])}
      PROVE  ModelsStand'
  <2>1. ASSUME NEW x \in Batch!Group, group'[x].timer # "none" PROVE group'[x].model \in Model
    <3>1. GroupShape(group[x])
      BY DEF TimersStand
    <3>. QED BY <1>4, <2>1, <3>1, RowsChange DEF ModelsStand
  <2>. QED BY <2>1 DEF ModelsStand
<1>5. ASSUME NEW g \in Batch!Group, Batch!Callback(g) PROVE ModelsStand'
  <2>1. CASE Batch!Due(g) # Batch!None
    <3>1. group' = [x \in Batch!Group |->
             IF x = Batch!Due(g) THEN Batch!Left(group[x]) ELSE IF x = g THEN Batch!Silent(group[x]) ELSE group[x]]
      BY <1>5, <2>1 DEF Batch!Callback
    <3>. QED BY <1>4, <3>1
  <2>2. CASE Batch!Due(g) = Batch!None
    <3>1. group' = [group EXCEPT ![g] = Batch!Silent(group[g])]
      BY <1>5, <2>2 DEF Batch!Callback
    <3>2. \A x \in Batch!Group : group'[x] \in {group[x], Batch!Silent(group[x])}
      BY <3>1 DEF TimersStand
    <3>. QED BY <1>4, <3>2
  <2>. QED BY <2>1, <2>2
<1>6. CASE Batch!Close \/ Batch!Tick
  <2>1. \A x \in Batch!Group : group'[x] \in {group[x], Batch!Silent(group[x]), Batch!Older(group[x])}
    BY <1>6 DEF Batch!Close, Batch!Tick
  <2>. QED BY <1>4, <2>1
<1>7. ASSUME UNCHANGED group PROVE ModelsStand'
  BY <1>7 DEF ModelsStand
<1>8. ASSUME NEW r \in Request, Batch!Pass(r) \/ Batch!Cancel(r) PROVE UNCHANGED group
  BY <1>8 DEF Batch!Pass, Batch!Cancel
<1>9. CASE UNCHANGED Batch!coalescerVars
  BY <1>7, <1>9 DEF Batch!coalescerVars
<1>. QED BY <1>1, <1>2, <1>3, <1>5, <1>6, <1>7, <1>8, <1>9 DEF Batch!CoalescerNext

LEMMA SeatsStart ==
  ASSUME Batch!CoalescerInit
  PROVE  SeatsStand
<1>1. PICK idle : idle = [at |-> "idle", group |-> Batch!None]
  OBVIOUS
<1>2. caller = [r \in Request |-> idle] /\ idle.at = "idle"
  BY <1>1 DEF Batch!CoalescerInit
<1>3. Batch!InTable = {}
  BY DEF Batch!CoalescerInit, Batch!InTable, Batch!Group, Batch!None
<1>4. \A g \in Batch!Group : group[g].members = {}
  BY DEF Batch!CoalescerInit, Batch!Fresh
<1>. QED BY <1>2, <1>3, <1>4 DEF SeatsStand, Held

\* A request goes on to another state and stays in its group.
LEMMA CallerGoesTo ==
  ASSUME CallersStand, NEW r \in Request, NEW v, caller' = [caller EXCEPT ![r].at = v]
  PROVE  caller'[r].at = v /\ caller'[r].group = caller[r].group /\ \A x \in Request : x # r => caller'[x] = caller[x]
<1>1. PICK old : old = caller[r] /\ CallerShape(old)
  BY DEF CallersStand
<1>2. PICK a, o : old = [at |-> a, group |-> o]
  BY <1>1 DEF CallerShape
<1>3. PICK new : new = [old EXCEPT !.at = v]
  OBVIOUS
<1>4. new = [at |-> v, group |-> o]
  BY <1>2, <1>3
<1>5. caller' = [caller EXCEPT ![r] = new]
  BY <1>1, <1>3, Zenon
<1>6. caller'[r] = new /\ \A x \in Request : x # r => caller'[x] = caller[x]
  BY <1>5 DEF CallersStand
<1>. QED BY <1>1, <1>2, <1>4, <1>6

\* Nobody takes or leaves a seat.
LEMMA SeatsStay ==
  ASSUME SeatsStand, \A g \in Batch!Group : group'[g].members = group[g].members, Held' = Held,
         \A r \in Held : caller'[r].group = caller[r].group, Batch!InTable' \subseteq Batch!InTable, opened' = opened
  PROVE  SeatsStand'
<1>1. \A g \in Batch!InTable : g \in Batch!Group
  BY DEF Batch!InTable
<1>2. \A g : {r \in Held' : caller'[r].group = g} = {r \in Held : caller[r].group = g}
  OBVIOUS
<1>. HIDE DEF Held, Batch!InTable
<1>3. ASSUME NEW g \in Batch!InTable'
      PROVE  group'[g].members = {r \in Held' : caller'[r].group = g} /\ Cardinality(group'[g].members) < 3
  BY <1>1, <1>2 DEF SeatsStand
<1>4. (\A r \in Held' : caller'[r].group \in 1 .. opened') /\ \A g \in Batch!Group : g > opened' => group'[g].members = {}
  BY DEF SeatsStand
<1>. QED BY <1>3, <1>4 DEF SeatsStand

\* The seats of one group change.
SeatsMove(f) ==
  /\ \A x \in Batch!Group : x # f => group'[x].members = group[x].members
  /\ \A r \in Request : (r \in Held' /\ caller'[r].group # f) <=> (r \in Held /\ caller[r].group # f)
  /\ \A r \in Held' : caller'[r].group # f => caller'[r].group = caller[r].group
  /\ f \in Batch!InTable' => group'[f].members = {r \in Held' : caller'[r].group = f} /\ Cardinality(group'[f].members) < 3
  /\ Batch!InTable' \subseteq Batch!InTable \cup {f}
  /\ opened' \in Nat /\ opened \in Nat /\ opened <= opened' /\ f \in 1 .. opened'

LEMMA OneGroupSeats ==
  ASSUME SeatsStand, NEW f \in Batch!Group, SeatsMove(f)
  PROVE  SeatsStand'
<1>. USE DEF SeatsMove
<1>1. \A g \in Batch!InTable : g \in Batch!Group
  BY DEF Batch!InTable
<1>2. \A r \in Held : r \in Request
  BY DEF Held
<1>3. \A r \in Held' : r \in Request
  BY DEF Held
<1>. HIDE DEF Held, Batch!InTable
<1>4. ASSUME NEW g \in Batch!InTable'
      PROVE  group'[g].members = {r \in Held' : caller'[r].group = g} /\ Cardinality(group'[g].members) < 3
  <2>1. CASE g = f
    BY <2>1
  <2>2. CASE g # f
    <3>1. g \in Batch!InTable /\ group'[g].members = group[g].members
      BY <1>1, <2>2
    <3>2. {r \in Held' : caller'[r].group = g} = {r \in Held : caller[r].group = g}
      BY <1>2, <1>3, <2>2
    <3>. QED BY <3>1, <3>2 DEF SeatsStand
  <2>. QED BY <2>1, <2>2
<1>5. ASSUME NEW r \in Held' PROVE caller'[r].group \in 1 .. opened'
  BY <1>2, <1>3 DEF SeatsStand
<1>6. \A g \in Batch!Group : g > opened' => group'[g].members = {}
  BY DEF SeatsStand, Batch!Group
<1>. QED BY <1>4, <1>5, <1>6 DEF SeatsStand

\* Who fills a group takes it with him.
LEMMA GroupLeaves ==
  ASSUME TimersStand, CallersStand, SeatsStand, NEW r \in Request, NEW m \in Model, NEW f \in Batch!Group,
         caller[r].at = "idle", f = IF groups[m] = Batch!None THEN opened + 1 ELSE groups[m],
         opened' = IF groups[m] = Batch!None THEN f ELSE opened, Batch!Release(f, m, group[f].members \cup {r})
  PROVE  SeatsStand'
<1>1. PICK seats : seats = group[f].members \cup {r}
  OBVIOUS
<1>2. caller' = [x \in Request |-> IF x \in seats /\ caller[x].at # "leaving" THEN [at |-> "sent", group |-> f]
                                  ELSE IF x \in seats THEN [caller[x] EXCEPT !.group = f] ELSE caller[x]]
  BY <1>1, Zenon DEF Batch!Release
<1>3. /\ \A x \in Batch!Group : x # f => group'[x] = group[x]
      /\ groups' = [groups EXCEPT ![m] = Batch!None]
  BY ReleaseSteps
<1>4. opened \in Nat /\ opened' \in Nat /\ opened <= opened' /\ f \in 1 .. opened' /\ groups \in [Model -> 0 .. opened]
  BY DEF TimersStand, Batch!Group, Batch!None
<1>5. \A x \in seats : x = r \/ (x \in Held /\ caller[x].group = f)
  <2>1. CASE groups[m] = Batch!None
    <3>1. group[f].members = {}
      BY <1>4, <2>1 DEF SeatsStand
    <3>. QED BY <1>1, <3>1
  <2>2. CASE groups[m] # Batch!None
    <3>1. f \in Batch!InTable
      BY <2>2 DEF Batch!InTable
    <3>. QED BY <1>1, <3>1 DEF SeatsStand
  <2>. QED BY <2>1, <2>2
<1>6. ASSUME NEW x \in Request
      PROVE  /\ (x \in Held' /\ caller'[x].group # f) <=> (x \in Held /\ caller[x].group # f)
             /\ caller'[x].group # f => caller'[x].group = caller[x].group
  <2>1. CASE x \notin seats
    <3>1. caller'[x] = caller[x]
      BY <1>2, <2>1
    <3>. QED BY <3>1 DEF Held
  <2>2. CASE x \in seats /\ caller[x].at # "leaving"
    <3>1. PICK new : new = [at |-> "sent", group |-> f]
      OBVIOUS
    <3>2. caller'[x] = new /\ new.group = f
      BY <1>2, <2>2, <3>1
    <3>. QED BY <1>5, <2>2, <3>2 DEF Held
  <2>3. CASE x \in seats /\ caller[x].at = "leaving"
    <3>1. PICK old : old = caller[x] /\ CallerShape(old)
      BY DEF CallersStand
    <3>2. PICK a, o : old = [at |-> a, group |-> o]
      BY <3>1 DEF CallerShape
    <3>3. PICK new : new = [old EXCEPT !.group = f]
      OBVIOUS
    <3>4. new.group = f
      BY <3>2, <3>3
    <3>5. caller'[x] = new
      BY <1>2, <2>3, <3>1, <3>3
    <3>. QED BY <1>5, <2>3, <3>4, <3>5 DEF Held
  <2>. QED BY <2>1, <2>2, <2>3
<1>7. f \notin Batch!InTable' /\ Batch!InTable' \subseteq Batch!InTable
  <2>1. groups'[m] = Batch!None /\ \A o \in Model : o # m => groups'[o] = groups[o]
    BY <1>3, <1>4
  <2>2. \A o \in Model : o # m => groups[o] # f
    BY <1>4, OneModel DEF TimersStand, Batch!None, Batch!Group
  <2>3. f # Batch!None /\ Batch!None \notin Batch!Group
    BY DEF Batch!Group, Batch!None
  <2>. QED BY <2>1, <2>2, <2>3 DEF Batch!InTable
<1>8. \A x \in Held' : x \in Request
  BY DEF Held
<1>. HIDE DEF Held, Batch!InTable
<1>9. SeatsMove(f)
  BY <1>3, <1>4, <1>6, <1>7, <1>8 DEF SeatsMove
<1>. QED BY <1>9, OneGroupSeats

\* Who does not fill a group takes a seat in it.
LEMMA SeatIsTaken ==
  ASSUME TimersStand, CallersStand, SeatsStand, NEW r \in Request, NEW m \in Model,
         NEW f \in Batch!Group, caller[r].at = "idle", f = IF groups[m] = Batch!None THEN opened + 1 ELSE groups[m],
         opened' = IF groups[m] = Batch!None THEN f ELSE opened, ~(Cardinality(group[f].members \cup {r}) >= 3),
         caller' = [caller EXCEPT ![r] = [at |-> "held", group |-> f]], groups' = [groups EXCEPT ![m] = f],
         group' = [Batch!Timed(f, m) EXCEPT ![f].members = group[f].members \cup {r}]
  PROVE  SeatsStand'
<1>1. PICK seats : seats = group[f].members \cup {r}
  OBVIOUS
<1>2. group'[f].members = seats /\ \A x \in Batch!Group : x # f => group'[x] = group[x]
  <2>1. Seated(f, m, seats)
    BY <1>1 DEF Seated
  <2>. QED BY <2>1, SeatedGroup
<1>3. PICK new : new = [at |-> "held", group |-> f]
  OBVIOUS
<1>4. caller'[r] = new /\ new.at = "held" /\ new.group = f /\ \A x \in Request : x # r => caller'[x] = caller[x]
  BY <1>3 DEF CallersStand
<1>5. opened \in Nat /\ opened' \in Nat /\ opened <= opened' /\ f \in 1 .. opened' /\ groups \in [Model -> 0 .. opened]
  BY DEF TimersStand, Batch!Group, Batch!None
<1>6. group[f].members = {x \in Held : caller[x].group = f}
  <2>1. CASE groups[m] = Batch!None
    <3>1. group[f].members = {} /\ f = opened + 1
      BY <1>5, <2>1 DEF SeatsStand
    <3>2. \A x \in Held : caller[x].group # f
      BY <1>5, <3>1 DEF SeatsStand
    <3>. QED BY <3>1, <3>2
  <2>2. CASE groups[m] # Batch!None
    <3>1. f \in Batch!InTable
      BY <2>2 DEF Batch!InTable
    <3>. QED BY <3>1 DEF SeatsStand
  <2>. QED BY <2>1, <2>2
<1>7. r \in Held' /\ r \notin Held /\ \A x \in Request : x # r => (x \in Held' <=> x \in Held)
  BY <1>4 DEF Held
<1>8. (\A x \in Held : x \in Request) /\ \A x \in Held' : x \in Request
  BY DEF Held
<1>9. Batch!InTable' \subseteq Batch!InTable \cup {f}
  BY <1>5 DEF Batch!InTable
<1>. HIDE DEF Held, Batch!InTable
<1>10. seats = {x \in Held' : caller'[x].group = f}
  <2>1. ASSUME NEW x PROVE x \in seats <=> (x \in Held' /\ caller'[x].group = f)
    BY <1>1, <1>4, <1>6, <1>7, <1>8
  <2>. QED BY <2>1
<1>11. Cardinality(seats) < 3
  <2>1. seats \subseteq Request
    BY <1>8, <1>10
  <2>2. Cardinality(seats) \in Nat
    BY <2>1, RequestsAreFinite, FS_Subset, FS_CardinalityType
  <2>. QED BY <1>1, <2>2
<1>12. \A x \in Request : (x \in Held' /\ caller'[x].group # f) <=> (x \in Held /\ caller[x].group # f)
  BY <1>4, <1>7
<1>13. \A x \in Held' : caller'[x].group # f => caller'[x].group = caller[x].group
  BY <1>4, <1>8
<1>14. SeatsMove(f)
  BY <1>2, <1>5, <1>9, <1>10, <1>11, <1>12, <1>13 DEF SeatsMove
<1>. QED BY <1>14, OneGroupSeats

LEMMA SeatIsLeft ==
  ASSUME TimersStand, CallersStand, SeatsStand, NEW r \in Request, Batch!Drop(r)
  PROVE  SeatsStand'
<1>1. PICK f : f = caller[r].group
  OBVIOUS
<1>2. r \in Held
  BY DEF Batch!Drop, Held
<1>3. opened \in Nat /\ f \in 1 .. opened /\ f \in Batch!Group
  BY <1>1, <1>2 DEF SeatsStand, TimersStand, Batch!Group
<1>4. \E v : v \in {"gone", "sent"} /\ caller' = [caller EXCEPT ![r].at = v]
  <2>1. ("gone" \in {"gone", "sent"}) /\ ("sent" \in {"gone", "sent"})
    OBVIOUS
  <2>2. PICK v : v = IF groups[group[f].model] = f \/ r \in group[f].members THEN "gone" ELSE "sent"
    OBVIOUS
  <2>3. caller' = [caller EXCEPT ![r].at = v]
    BY <1>1, <2>2, Zenon DEF Batch!Drop
  <2>. QED BY <2>1, <2>2, <2>3
<1>5. PICK v \in {"gone", "sent"} : caller' = [caller EXCEPT ![r].at = v]
  BY <1>4
<1>6. caller'[r].at = v /\ caller'[r].group = f /\ \A x \in Request : x # r => caller'[x] = caller[x]
  BY <1>1, <1>5, CallerGoesTo
<1>7. Held' = Held \ {r} /\ \A x \in Held : x \in Request
  BY <1>6 DEF Held
<1>8. groups' = groups /\ opened' = opened /\ Batch!InTable' = Batch!InTable
  BY DEF Batch!Drop, Batch!InTable
<1>9. \A x \in Batch!Group : x # f => group'[x].members = group[x].members
  <2>1. CASE group' = group
    BY <2>1
  <2>2. ASSUME NEW seats, group' = [group EXCEPT ![f].members = seats]
        PROVE  \A x \in Batch!Group : x # f => group'[x] = group[x]
    BY <2>2 DEF TimersStand
  <2>. QED BY <1>1, <2>1, <2>2 DEF Batch!Drop
<1>10. ASSUME f \in Batch!InTable
       PROVE  group'[f].members = {x \in Held' : caller'[x].group = f} /\ Cardinality(group'[f].members) < 3
  <2>1. groups[group[f].model] = f
    <3>1. PICK m \in Model : groups[m] = f
      BY <1>10 DEF Batch!InTable
    <3>2. f # Batch!None
      BY <1>3 DEF Batch!None
    <3>. QED BY <3>1, <3>2 DEF TimersStand
  <2>2. group' = [group EXCEPT ![f].members = group[f].members \ {r}]
    BY <1>1, <2>1 DEF Batch!Drop, Batch!SeatsLeft
  <2>3. PICK seats : seats = group[f].members \ {r}
    OBVIOUS
  <2>4. group'[f].members = seats
    <3>1. group = [x \in Batch!Group |-> group[x]] /\ \A x \in Batch!Group : GroupShape(group[x])
      BY DEF TimersStand
    <3>2. group' = [group EXCEPT ![f].members = seats]
      BY <2>2, <2>3
    <3>. QED BY <1>3, <3>1, <3>2, SeatTaken
  <2>5. group[f].members = {x \in Held : caller[x].group = f} /\ Cardinality(group[f].members) < 3
    BY <1>10 DEF SeatsStand
  <2>. HIDE DEF Held
  <2>6. seats = {x \in Held' : caller'[x].group = f}
    BY <1>6, <1>7, <2>3, <2>5
  <2>7. Cardinality(seats) < 3
    <3>1. group[f].members \subseteq Request
      BY <1>7, <2>5
    <3>2. IsFiniteSet(group[f].members)
      BY <3>1, RequestsAreFinite, FS_Subset
    <3>3. IsFiniteSet(seats) /\ Cardinality(seats) <= Cardinality(group[f].members)
      BY <2>3, <3>2, FS_Subset
    <3>4. Cardinality(seats) \in Nat /\ Cardinality(group[f].members) \in Nat
      BY <3>2, <3>3, FS_CardinalityType
    <3>. QED BY <2>5, <3>3, <3>4
  <2>. QED BY <2>4, <2>6, <2>7
<1>. HIDE DEF Held, Batch!InTable
<1>11. SeatsMove(f)
  BY <1>1, <1>3, <1>6, <1>7, <1>8, <1>9, <1>10 DEF SeatsMove
<1>. QED BY <1>3, <1>11, OneGroupSeats

LEMMA GroupIsReleased ==
  ASSUME TimersStand, CallersStand, ModelsStand, SeatsStand, NEW f \in Batch!Group, Batch!Callback(f)
  PROVE  SeatsStand'
<1>1. GroupShape(group[f]) /\ group[f].timer = "fired" /\ opened' = opened /\ opened \in Nat /\ f <= opened
  BY DEF Batch!Callback, TimersStand, Batch!Group
<1>2. CASE Batch!Due(f) # Batch!None
  <2>1. /\ Batch!Due(f) = f /\ groups[group[f].model] = f
        /\ caller' = [r \in Request |->
             IF r \in group[f].members /\ caller[r].at = "held" THEN [caller[r] EXCEPT !.at = "sent"] ELSE caller[r]]
        /\ groups' = [groups EXCEPT ![group[f].model] = Batch!None]
        /\ group' = [x \in Batch!Group |-> IF x = f THEN Batch!Left(group[x]) ELSE group[x]]
    BY <1>2 DEF Batch!Callback, Batch!Due
  <2>2. ASSUME NEW m \in Model, groups[m] = f PROVE m = group[f].model
    BY <2>2 DEF TimersStand, Batch!Group, Batch!None
  <2>3. f \notin Batch!InTable' /\ Batch!InTable' \subseteq Batch!InTable
    <3>1. groups \in [Model -> 0 .. opened]
      BY DEF TimersStand
    <3>2. f # Batch!None /\ Batch!None \notin Batch!Group
      BY DEF Batch!Group, Batch!None
    <3>3. \A m \in Model : groups'[m] \in {groups[m], Batch!None} /\ groups'[m] # f
      BY <2>1, <2>2, <3>1, <3>2
    <3>. QED BY <3>2, <3>3 DEF Batch!InTable
  <2>4. \A x \in Batch!Group : x # f => group'[x].members = group[x].members
    BY <2>1
  <2>5. ASSUME NEW r \in Request
        PROVE  /\ (r \in Held' /\ caller'[r].group # f) <=> (r \in Held /\ caller[r].group # f)
               /\ caller'[r].group = caller[r].group
    <3>1. CASE ~(r \in group[f].members /\ caller[r].at = "held")
      <4>1. caller'[r] = caller[r]
        BY <2>1, <3>1
      <4>. QED BY <4>1 DEF Held
    <3>2. CASE r \in group[f].members /\ caller[r].at = "held"
      <4>1. PICK old : old = caller[r] /\ CallerShape(old)
        BY DEF CallersStand
      <4>2. PICK a, o : old = [at |-> a, group |-> o]
        BY <4>1 DEF CallerShape
      <4>3. PICK new : new = [old EXCEPT !.at = "sent"]
        OBVIOUS
      <4>4. new.at = "sent" /\ new.group = o /\ old.group = o
        BY <4>2, <4>3
      <4>5. caller'[r] = new
        BY <2>1, <3>2, <4>1, <4>3
      <4>6. caller[r].group = f
        <5>1. f \in Batch!InTable
          BY <1>1, <2>1 DEF Batch!InTable, ModelsStand
        <5>. QED BY <3>2, <5>1 DEF SeatsStand
      <4>. QED BY <4>1, <4>4, <4>5, <4>6 DEF Held
    <3>. QED BY <3>1, <3>2
  <2>6. \A x \in Held' : x \in Request
    BY DEF Held
  <2>. HIDE DEF Held, Batch!InTable
  <2>7. SeatsMove(f)
    BY <1>1, <2>3, <2>4, <2>5, <2>6 DEF SeatsMove, Batch!Group
  <2>. QED BY <2>7, OneGroupSeats
<1>3. CASE Batch!Due(f) = Batch!None
  <2>1. group' = [group EXCEPT ![f] = Batch!Silent(group[f])] /\ UNCHANGED <<caller, groups>>
    BY <1>3 DEF Batch!Callback
  <2>2. \A x \in Batch!Group : group'[x].members = group[x].members
    <3>1. Batch!Silent(group[f]).members = group[f].members
      BY <1>1, RowsChange
    <3>. QED BY <2>1, <3>1 DEF TimersStand
  <2>3. Held' = Held /\ Batch!InTable' = Batch!InTable
    BY <2>1 DEF Held, Batch!InTable
  <2>. HIDE DEF Held, Batch!InTable
  <2>. QED BY <1>1, <2>1, <2>2, <2>3, SeatsStay
<1>. QED BY <1>2, <1>3

LEMMA SeatsKeep ==
  ASSUME TimersStand, CallersStand, ModelsStand, SeatsStand,
         [Batch!CoalescerNext]_(Batch!coalescerVars)
  PROVE  SeatsStand'
<1>1. ASSUME NEW r \in Request, NEW m \in Model, Batch!Acquire(r, m) PROVE SeatsStand'
  <2>1. PICK f \in Batch!Group : f = IF groups[m] = Batch!None THEN opened + 1 ELSE groups[m]
    BY <1>1 DEF Batch!Acquire
  <2>2. caller[r].at = "idle" /\ opened' = IF groups[m] = Batch!None THEN f ELSE opened
    BY <1>1, <2>1, Zenon DEF Batch!Acquire
  <2>0. Batch!Cardinality(group[f].members \cup {r}) = Cardinality(group[f].members \cup {r})
    BY RequestsCount
  <2>3. CASE Cardinality(group[f].members \cup {r}) >= 3
    <3>1. Batch!Release(f, m, group[f].members \cup {r})
      BY <1>1, <2>0, <2>1, <2>3, Zenon DEF Batch!Acquire
    <3>. QED BY <2>1, <2>2, <3>1, GroupLeaves
  <2>4. CASE ~(Cardinality(group[f].members \cup {r}) >= 3)
    <3>1. /\ caller' = [caller EXCEPT ![r] = [at |-> "held", group |-> f]] /\ groups' = [groups EXCEPT ![m] = f]
          /\ group' = [Batch!Timed(f, m) EXCEPT ![f].members = group[f].members \cup {r}]
      BY <1>1, <2>0, <2>1, <2>4, Zenon DEF Batch!Acquire
    <3>. QED BY <2>1, <2>2, <2>4, <3>1, SeatIsTaken, Zenon
  <2>. QED BY <2>3, <2>4
<1>2. ASSUME NEW r \in Request, Batch!Pass(r) \/ Batch!Cancel(r) PROVE SeatsStand'
  <2>1. UNCHANGED <<group, groups, opened>>
    BY <1>2 DEF Batch!Pass, Batch!Cancel
  <2>2. PICK v : caller' = [caller EXCEPT ![r].at = v]
          /\ ((caller[r].at = "idle" /\ v = "sent") \/ (caller[r].at = "held" /\ v = "leaving"))
    BY <1>2 DEF Batch!Pass, Batch!Cancel
  <2>3. caller'[r].at = v /\ caller'[r].group = caller[r].group /\ \A x \in Request : x # r => caller'[x] = caller[x]
    BY <2>2, CallerGoesTo
  <2>4. Held' = Held /\ (\A x \in Held : caller'[x].group = caller[x].group) /\ Batch!InTable' = Batch!InTable
    BY <2>1, <2>2, <2>3 DEF Held, Batch!InTable
  <2>. HIDE DEF Held, Batch!InTable
  <2>. QED BY <2>1, <2>4, SeatsStay
<1>3. ASSUME UNCHANGED <<caller, opened>>, \A g \in Batch!Group : group'[g].members = group[g].members,
             Batch!InTable' \subseteq Batch!InTable
      PROVE  SeatsStand'
  <2>1. Held' = Held
    BY <1>3 DEF Held
  <2>. HIDE DEF Held, Batch!InTable
  <2>. QED BY <1>3, <2>1, SeatsStay
<1>4. ASSUME NEW g \in Batch!Group, Batch!Fire(g) PROVE SeatsStand'
  <2>1. PICK old : old = group[g] /\ GroupShape(old)
    BY DEF TimersStand
  <2>2. PICK o, s, a, t, l : old = [model |-> o, members |-> s, age |-> a, timer |-> t, left |-> l]
    BY <2>1 DEF GroupShape
  <2>3. PICK row : row = [old EXCEPT !.timer = "fired"]
    OBVIOUS
  <2>4. row.members = old.members
    BY <2>2, <2>3
  <2>5. group' = [group EXCEPT ![g] = row] /\ UNCHANGED <<caller, groups, opened>>
    BY <1>4, <2>1, <2>3, Zenon DEF Batch!Fire
  <2>6. \A x \in Batch!Group : group'[x].members = group[x].members
    BY <2>1, <2>4, <2>5 DEF TimersStand
  <2>7. Batch!InTable' = Batch!InTable
    BY <2>5 DEF Batch!InTable
  <2>. QED BY <1>3, <2>5, <2>6, <2>7
<1>5. CASE Batch!Close \/ Batch!Tick
  <2>1. UNCHANGED <<caller, opened>>
    BY <1>5 DEF Batch!Close, Batch!Tick
  <2>2. \A x \in Batch!Group : group'[x] \in {group[x], Batch!Silent(group[x]), Batch!Older(group[x])}
    BY <1>5 DEF Batch!Close, Batch!Tick
  <2>3. \A x \in Batch!Group : group'[x].members = group[x].members
    BY <2>2, RowsChange DEF TimersStand
  <2>4. Batch!InTable' \subseteq Batch!InTable
    BY <1>5 DEF Batch!Close, Batch!Tick, Batch!InTable, Batch!Group, Batch!None
  <2>. QED BY <1>3, <2>1, <2>3, <2>4
<1>6. CASE UNCHANGED Batch!coalescerVars
  <2>1. UNCHANGED <<caller, opened, group, groups>>
    BY <1>6 DEF Batch!coalescerVars
  <2>. QED BY <1>3, <2>1 DEF Batch!InTable
<1>. QED BY <1>1, <1>2, <1>4, <1>5, <1>6, SeatIsLeft, GroupIsReleased DEF Batch!CoalescerNext

LEMMA SeatsAreSound ==
  ASSUME TimersStand, SeatsStand
  PROVE  Batch!CoalescerHolds
<1>1. \A g \in Batch!InTable : TimerRuns(group[g])
  BY DEF Batch!InTable, TimersStand, Batch!Group, Batch!None
<1>2. Batch!HeldIsBounded
  BY <1>1 DEF Batch!HeldIsBounded, TimerRuns
<1>3. ASSUME NEW g \in Batch!InTable
      PROVE  {r \in Held : caller[r].group = g} = {r \in Request : caller[r].group = g /\ caller[r].at \in {"held",
              "leaving"}}
  BY DEF Held
<1>. QED BY <1>2, <1>3, RequestsCount DEF Batch!CoalescerHolds, Batch!SeatsAreTaken, SeatsStand

-----------------------------------------
(* The loss of nodes, and what their threads become. *)

LostOnce == [thread |-> 1 .. 3, node |-> {"n1", "n2"}, observer |-> {"o1"}, down |-> 2, outages |-> 1]
LostTwice == [thread |-> 1 .. 2, node |-> {"n1", "n2"}, observer |-> {"o1"}, down |-> 2, outages |-> 2]

Nodes(k) == INSTANCE NodeLoss WITH
  Thread <- k.thread, Node <- k.node, Observer <- k.observer, Down <- k.down, MaxOutage <- k.outages, None <- Nil,
  thread <- s1, notice <- s2, seq <- s3, tx <- s4, cursor <- s5, listed <- s6, missing <- s7, judged <- s8,
  reported <- s9, absent <- s10, outages <- s11

thread == s1
notice == s2
seq == s3
tx == s4
cursor == s5
listed == s6
missing == s7
judged == s8
reported == s9
absent == s10
outages == s11

USE DEF thread, notice, seq, tx, cursor, listed, missing, judged, reported, absent, outages

ThreadShape(r) == r = [state |-> r.state, node |-> r.node, replaces |-> r.replaces]
NoticeShape(x) == x = [thread |-> x.thread, seq |-> x.seq]
ReportShape(r) == r = [node |-> r.node, lost |-> r.lost]

\* Threads can be counted, and the mark of nothing is neither a thread nor a node.
LossConstants(k) == IsFiniteSet(k.thread) /\ Nil \notin k.thread /\ Nil \notin k.node /\ k.down \in Nat

\* What an observer remembers of a node is for how long it saw no sign of it, and whom it reports it has missed for the grace.
WatchStands(k) ==
  /\ missing \in [k.observer -> [k.node -> 0 .. Nodes(k)!Never]]
  /\ absent = [o \in k.observer |-> [n \in k.node |-> IF missing[o][n] = Nodes(k)!Never THEN 0 ELSE missing[o][n]]]
  /\ judged \in [k.observer -> SUBSET k.node]
  /\ \A o \in k.observer : \A n \in judged[o] : missing[o][n] = k.down

\* What is replaced has failed, and is replaced once.
ThreadsStand(k) ==
  /\ thread = [t \in k.thread |-> thread[t]] /\ \A t \in k.thread : ThreadShape(thread[t])
  /\ \A t \in k.thread : IF thread[t].state = "none" THEN thread[t].replaces = Nil ELSE thread[t].node \in k.node
  /\ \A t \in k.thread : thread[t].replaces # Nil
       => thread[t].replaces \in k.thread /\ thread[thread[t].replaces].state = "failed"
  /\ \A t, u \in k.thread : thread[t].replaces # Nil /\ thread[t].replaces = thread[u].replaces => t = u

\* A report that is not committed holds the rows of its node, and numbers nobody else has.
NoticesStand(k) ==
  /\ tx = [o \in k.observer |-> tx[o]] /\ \A o \in k.observer : ReportShape(tx[o])
  /\ \A o \in k.observer : tx[o].node = Nil => tx[o].lost = {}
  /\ \A o, u \in k.observer : tx[o].node # Nil /\ tx[o].node = tx[u].node => o = u
  /\ \A o \in k.observer : \A x \in tx[o].lost :
       NoticeShape(x) /\ x.thread \in k.thread /\ thread[x.thread].node = tx[o].node
         /\ thread[x.thread].state \in {"idle", "running", "awaiting"}

\* Numbers are drawn once, and a notice tells of a failure.
NumbersStand(k) ==
  /\ seq \in Nat
  /\ \A o \in k.observer : \A x \in tx[o].lost : x.seq \in Nat /\ x.seq <= seq
  /\ \A x \in notice : x.seq \in Nat /\ x.seq <= seq /\ x.thread \in k.thread /\ thread[x.thread].state = "failed"
  /\ \A o, u \in k.observer : \A x \in tx[o].lost, y \in tx[u].lost : x.seq = y.seq => x = y /\ o = u
  /\ \A o \in k.observer : \A x, y \in tx[o].lost : x.thread = y.thread => x = y
  /\ \A o \in k.observer : \A x \in tx[o].lost, y \in notice : x.seq # y.seq
  /\ \A x, y \in notice : x.thread = y.thread \/ x.seq = y.seq => x = y

LossInv(k) == WatchStands(k) /\ ThreadsStand(k) /\ NoticesStand(k) /\ NumbersStand(k)

LEMMA NodesCount == ASSUME NEW k, NEW S PROVE Nodes(k)!Cardinality(S) = Cardinality(S)
BY DEF Nodes!Cardinality, Cardinality

LEMMA LossStarts ==
  ASSUME NEW k
  PROVE  LossConstants(k) /\ Nodes(k)!Init => LossInv(k)
<1>. SUFFICES ASSUME LossConstants(k), Nodes(k)!Init PROVE LossInv(k)
  OBVIOUS
<1>1. WatchStands(k)
  BY DEF Nodes!Init, WatchStands, Nodes!Never, LossConstants
<1>2. thread = [t \in k.thread |-> [state |-> "none", node |-> Nil, replaces |-> Nil]]
  BY DEF Nodes!Init, Nodes!Unused
<1>3. tx = [o \in k.observer |-> [node |-> Nil, lost |-> {}]] /\ notice = {} /\ seq = 0
  BY DEF Nodes!Init, Nodes!NoTx
<1>4. ThreadsStand(k)
  BY <1>2 DEF ThreadsStand, ThreadShape
<1>5. NoticesStand(k)
  <2>1. \A o \in k.observer : tx[o] = [node |-> Nil, lost |-> {}]
    BY <1>3
  <2>2. \A o \in k.observer : ReportShape(tx[o]) /\ tx[o].node = Nil /\ tx[o].lost = {}
    BY <2>1 DEF ReportShape
  <2>. QED BY <1>3, <2>2 DEF NoticesStand
<1>6. NumbersStand(k)
  BY <1>3 DEF NumbersStand
<1>. QED BY <1>1, <1>4, <1>5, <1>6 DEF LossInv

\* The watch.

\* What is not touched stands.
LEMMA WatchIdle ==
  ASSUME NEW k, WatchStands(k), UNCHANGED <<missing, absent, judged>>
  PROVE  WatchStands(k)'
BY DEF WatchStands

LEMMA WatchFewer ==
  ASSUME NEW k, WatchStands(k), UNCHANGED <<missing, absent>>, NEW o \in k.observer, NEW n,
         judged' = [judged EXCEPT ![o] = @ \ {n}]
  PROVE  WatchStands(k)'
BY DEF WatchStands

LEMMA WatchTicks ==
  ASSUME NEW k, LossConstants(k), WatchStands(k), Nodes(k)!Tick
  PROVE  WatchStands(k)'
<1>1. \A age \in 0 .. Nodes(k)!Never : Nodes(k)!Older(age) \in 0 .. Nodes(k)!Never
        /\ (Nodes(k)!Older(age) = Nodes(k)!Never <=> age = Nodes(k)!Never)
  BY DEF Nodes!Older, Nodes!Never, LossConstants
<1>2. missing' \in [k.observer -> [k.node -> 0 .. Nodes(k)!Never]]
  BY <1>1 DEF Nodes!Tick, WatchStands
<1>3. \A o \in k.observer, n \in k.node : missing'[o][n] = Nodes(k)!Older(missing[o][n])
  BY DEF Nodes!Tick
<1>4. \A o \in k.observer, n \in k.node : missing[o][n] \in 0 .. Nodes(k)!Never
  BY DEF WatchStands
<1>5. \A o \in k.observer, n \in k.node : absent[o][n] = IF missing[o][n] = Nodes(k)!Never THEN 0 ELSE missing[o][n]
  BY DEF WatchStands
<1>6. \A o \in k.observer, n \in k.node :
        (IF missing[o][n] = Nodes(k)!Never THEN absent[o][n] ELSE Nodes(k)!Older(absent[o][n]))
            = IF missing'[o][n] = Nodes(k)!Never THEN 0 ELSE missing'[o][n]
  BY <1>1, <1>3, <1>4, <1>5
<1>7. absent' = [o \in k.observer |-> [n \in k.node |-> IF missing'[o][n] = Nodes(k)!Never THEN 0 ELSE missing'[o][n]]]
  BY <1>6 DEF Nodes!Tick
<1>8. \A o \in k.observer : \A n \in judged[o] : missing'[o][n] = k.down
  <2>1. Nodes(k)!Older(k.down) = k.down
    BY DEF Nodes!Older, LossConstants
  <2>. QED BY <1>3, <2>1 DEF WatchStands
<1>. QED BY <1>2, <1>7, <1>8 DEF WatchStands, Nodes!Tick

LEMMA WatchReads ==
  ASSUME NEW k, LossConstants(k), WatchStands(k), Nodes(k)!Candidates \subseteq k.node, NEW o \in k.observer,
         Nodes(k)!ReadNodes(o)
  PROVE  WatchStands(k)'
<1>. DEFINE mine == [n \in k.node |-> Nodes(k)!Missing(o, n)]
            gone == [n \in k.node |-> IF n \in Nodes(k)!Candidates \ listed THEN absent[o][n] ELSE 0]
<1>1. \A n \in k.node : Nodes(k)!Missing(o, n) \in 0 .. Nodes(k)!Never
  BY DEF Nodes!Missing, WatchStands, Nodes!Never, LossConstants
<1>2. missing' = [missing EXCEPT ![o] = mine]
  BY DEF Nodes!ReadNodes
<1>3. absent' = [absent EXCEPT ![o] = gone]
  BY DEF Nodes!ReadNodes, WatchStands
<1>4. \A n \in k.node : gone[n] = IF mine[n] = Nodes(k)!Never THEN 0 ELSE mine[n]
  <2>1. \A n \in k.node : absent[o][n] = IF missing[o][n] = Nodes(k)!Never THEN 0 ELSE missing[o][n]
    BY DEF WatchStands
  <2>2. 0 # Nodes(k)!Never /\ Nodes(k)!Never = k.down + 1 /\ \A n \in k.node : missing[o][n] \in 0 .. Nodes(k)!Never
    BY DEF Nodes!Never, LossConstants, WatchStands
  <2>. QED BY <2>1, <2>2 DEF Nodes!Missing
<1>5. missing' \in [k.observer -> [k.node -> 0 .. Nodes(k)!Never]]
  BY <1>1, <1>2 DEF WatchStands
<1>6. absent' = [u \in k.observer |-> [n \in k.node |-> IF missing'[u][n] = Nodes(k)!Never THEN 0 ELSE missing'[u][n]]]
  <2>. HIDE DEF mine, gone
  <2>1. missing'[o] = mine /\ \A u \in k.observer : u # o => missing'[u] = missing[u]
    BY <1>2 DEF WatchStands
  <2>2. gone = [n \in k.node |-> IF mine[n] = Nodes(k)!Never THEN 0 ELSE mine[n]]
    BY <1>4 DEF gone
  <2>. QED BY <1>3, <2>1, <2>2 DEF WatchStands
<1>7. judged' = [judged EXCEPT ![o] = {n \in Nodes(k)!Candidates : Nodes(k)!Missing(o, n) = k.down} \ reported[o]]
  BY DEF Nodes!ReadNodes
<1>. QED BY <1>2, <1>5, <1>6, <1>7 DEF WatchStands

LEMMA WatchForgets ==
  ASSUME NEW k, LossConstants(k), WatchStands(k), NEW o \in k.observer, Nodes(k)!ReadFails(o)
  PROVE  WatchStands(k)'
<1>1. missing' = [missing EXCEPT ![o] = [n \in k.node |-> Nodes(k)!Never]]
        /\ absent' = [absent EXCEPT ![o] = [n \in k.node |-> 0]]
  BY DEF Nodes!ReadFails, Nodes!Forgotten
<1>2. judged[o] = {} /\ judged' = judged /\ Nodes(k)!Never \in 0 .. Nodes(k)!Never
  BY DEF Nodes!ReadFails, Nodes!Never, LossConstants
<1>. QED BY <1>1, <1>2 DEF WatchStands

\* The threads.

LEMMA LiveOnNodes ==
  ASSUME NEW k, ThreadsStand(k)
  PROVE  Nodes(k)!Candidates \subseteq k.node
BY DEF ThreadsStand, Nodes!Candidates, Nodes!Live

\* What a step makes of the threads: one is taken up, one that is alive goes on, or some that are alive fail.
ThreadsMove(k) ==
  /\ thread' = [t \in k.thread |-> thread'[t]] /\ \A t \in k.thread : ThreadShape(thread'[t])
  /\ \A t \in k.thread : thread[t].state = "failed" => thread'[t] = thread[t]
  /\ \A t \in k.thread : IF thread'[t].state = "none" THEN thread'[t].replaces = Nil ELSE thread'[t].node \in k.node
  /\ \A t \in k.thread : thread'[t].replaces # thread[t].replaces =>
       /\ thread'[t].replaces \in k.thread /\ thread[thread'[t].replaces].state = "failed"
       /\ \A u \in k.thread : thread[u].replaces # thread'[t].replaces /\ (u # t => thread'[u] = thread[u])

LEMMA ThreadsGoOn ==
  ASSUME NEW k, LossConstants(k), ThreadsStand(k), ThreadsMove(k)
  PROVE  ThreadsStand(k)'
<1>1. ASSUME NEW t \in k.thread, thread'[t].replaces # Nil
      PROVE  thread'[t].replaces \in k.thread /\ thread'[thread'[t].replaces].state = "failed"
  <2>1. thread'[t].replaces \in k.thread /\ thread[thread'[t].replaces].state = "failed"
    BY <1>1 DEF ThreadsStand, ThreadsMove
  <2>. QED BY <2>1 DEF ThreadsMove
<1>2. ASSUME NEW t \in k.thread, NEW u \in k.thread, thread'[t].replaces # Nil, thread'[t].replaces = thread'[u].replaces
      PROVE  t = u
  <2>1. CASE thread'[t].replaces = thread[t].replaces /\ thread'[u].replaces = thread[u].replaces
    BY <1>2, <2>1 DEF ThreadsStand
  <2>2. CASE thread'[t].replaces # thread[t].replaces
    BY <1>2, <2>2 DEF ThreadsMove
  <2>3. CASE thread'[u].replaces # thread[u].replaces
    BY <1>2, <2>3 DEF ThreadsMove
  <2>. QED BY <2>1, <2>2, <2>3
<1>. QED BY <1>1, <1>2 DEF ThreadsStand, ThreadsMove

LEMMA ThreadsIdle ==
  ASSUME NEW k, ThreadsStand(k), UNCHANGED thread
  PROVE  ThreadsMove(k)
BY DEF ThreadsStand, ThreadsMove

LEMMA ThreadCreated ==
  ASSUME NEW k, LossConstants(k), ThreadsStand(k), NEW t \in k.thread, NEW n \in k.node, NEW by \in k.thread \cup {Nil},
         Nodes(k)!CreateThread(t, n, by)
  PROVE  ThreadsMove(k) /\ thread[t].state = "none" /\ \A u \in k.thread : u # t => thread'[u] = thread[u]
<1>1. PICK row : row = [state |-> "idle", node |-> n, replaces |-> by]
  OBVIOUS
<1>2. thread' = [thread EXCEPT ![t] = row] /\ thread[t].state = "none"
  BY <1>1 DEF Nodes!CreateThread
<1>3. thread' = [u \in k.thread |-> thread'[u]] /\ thread'[t] = row /\ \A u \in k.thread : u # t => thread'[u] = thread[u]
  BY <1>2 DEF ThreadsStand
<1>4. ThreadShape(row) /\ row.node = n /\ row.replaces = by /\ row.state = "idle"
  BY <1>1 DEF ThreadShape
<1>5. ASSUME by # Nil
      PROVE  by \in k.thread /\ thread[by].state = "failed" /\ \A u \in k.thread : thread[u].replaces # by
  BY <1>5 DEF Nodes!CreateThread, Nodes!Replaceable
<1>6. thread[t].replaces = Nil
  BY <1>2 DEF ThreadsStand
<1>7. \A u \in k.thread : ThreadShape(thread'[u]) /\ (thread[u].state = "failed" => thread'[u] = thread[u])
  BY <1>2, <1>3, <1>4 DEF ThreadsStand
<1>8. \A u \in k.thread : IF thread'[u].state = "none" THEN thread'[u].replaces = Nil ELSE thread'[u].node \in k.node
  BY <1>3, <1>4 DEF ThreadsStand
<1>. QED BY <1>2, <1>3, <1>4, <1>5, <1>6, <1>7, <1>8 DEF ThreadsMove

LEMMA ThreadTransitions ==
  ASSUME NEW k, ThreadsStand(k), NEW t \in k.thread, NEW to \in Nodes(k)!Live \cup Nodes(k)!Terminal,
         Nodes(k)!TransitionThread(t, to)
  PROVE  /\ ThreadsMove(k) /\ ~Nodes(k)!Locked(t) /\ thread[t].state # "failed" /\ thread'[t].node = thread[t].node
         /\ \A u \in k.thread : u # t => thread'[u] = thread[u]
<1>1. PICK old : old = thread[t] /\ ThreadShape(old)
  BY DEF ThreadsStand
<1>2. PICK s, n, by : old = [state |-> s, node |-> n, replaces |-> by]
  BY <1>1 DEF ThreadShape
<1>3. PICK row : row = [old EXCEPT !.state = to]
  OBVIOUS
<1>4. row = [state |-> to, node |-> n, replaces |-> by]
  BY <1>2, <1>3
<1>5. thread' = [thread EXCEPT ![t] = row]
  BY <1>1, <1>3, Zenon DEF Nodes!TransitionThread
<1>6. thread' = [u \in k.thread |-> thread'[u]] /\ thread'[t] = row /\ \A u \in k.thread : u # t => thread'[u] = thread[u]
  BY <1>5 DEF ThreadsStand
<1>7. ThreadShape(row) /\ row.node = old.node /\ row.replaces = old.replaces /\ row.state = to
  BY <1>2, <1>4 DEF ThreadShape
<1>8. old.state \in Nodes(k)!Live /\ to # "none"
  BY <1>1 DEF Nodes!TransitionThread, Nodes!CanThreadTransition, Nodes!Live, Nodes!Terminal
<1>9. old.state # "none" /\ old.state # "failed"
  BY <1>8 DEF Nodes!Live
<1>10. old.node \in k.node
  BY <1>1, <1>9 DEF ThreadsStand
<1>. QED BY <1>1, <1>6, <1>7, <1>8, <1>9, <1>10 DEF ThreadsMove, ThreadsStand, Nodes!TransitionThread

LEMMA ThreadsFail ==
  ASSUME NEW k, ThreadsStand(k), NoticesStand(k), NEW o \in k.observer, NEW yes \in BOOLEAN, Nodes(k)!CommitNodeLoss(o, yes)
  PROVE  /\ ThreadsMove(k)
         /\ \A t \in k.thread : IF \E x \in tx[o].lost : x.thread = t THEN thread'[t].state = "failed" ELSE thread'[t] = thread[t]
         /\ \A t \in k.thread : thread'[t].node = thread[t].node
<1>1. thread' = [t \in k.thread |->
          IF \E x \in tx[o].lost : x.thread = t THEN [thread[t] EXCEPT !.state = "failed"] ELSE thread[t]]
  BY DEF Nodes!CommitNodeLoss
<1>2. ASSUME NEW t \in k.thread, \E x \in tx[o].lost : x.thread = t
      PROVE  /\ ThreadShape(thread'[t]) /\ thread'[t].state = "failed" /\ thread'[t].node = thread[t].node
             /\ thread'[t].replaces = thread[t].replaces /\ thread[t].state \in Nodes(k)!Live
  <2>1. thread[t].state \in Nodes(k)!Live
    BY <1>2 DEF NoticesStand, Nodes!Live
  <2>2. PICK old : old = thread[t] /\ ThreadShape(old)
    BY DEF ThreadsStand
  <2>3. PICK s, n, by : old = [state |-> s, node |-> n, replaces |-> by]
    BY <2>2 DEF ThreadShape
  <2>4. PICK row : row = [old EXCEPT !.state = "failed"]
    OBVIOUS
  <2>5. row = [state |-> "failed", node |-> n, replaces |-> by]
    BY <2>3, <2>4
  <2>6. thread'[t] = row
    BY <1>1, <1>2, <2>2, <2>4
  <2>7. ThreadShape(row) /\ row.state = "failed" /\ row.node = old.node /\ row.replaces = old.replaces
    BY <2>3, <2>5 DEF ThreadShape
  <2>. QED BY <2>1, <2>2, <2>6, <2>7
<1>3. ASSUME NEW t \in k.thread, ~\E x \in tx[o].lost : x.thread = t PROVE thread'[t] = thread[t]
  BY <1>1, <1>3
<1>4. \A s \in Nodes(k)!Live : s # "failed" /\ s # "none"
  BY DEF Nodes!Live
<1>5. \A t \in k.thread : thread'[t].replaces = thread[t].replaces /\ thread'[t].node = thread[t].node
  BY <1>2, <1>3
<1>6. thread' = [t \in k.thread |-> thread'[t]]
  BY <1>1
<1>7. \A t \in k.thread : ThreadShape(thread'[t])
  BY <1>2, <1>3 DEF ThreadsStand
<1>8. \A t \in k.thread : thread[t].state = "failed" => thread'[t] = thread[t]
  BY <1>2, <1>3, <1>4
<1>9. \A t \in k.thread : IF thread'[t].state = "none" THEN thread'[t].replaces = Nil ELSE thread'[t].node \in k.node
  BY <1>2, <1>3, <1>4 DEF ThreadsStand
<1>. QED BY <1>2, <1>3, <1>5, <1>6, <1>7, <1>8, <1>9 DEF ThreadsMove

\* Reports and numbers.

\* A step that leaves the reports, and the threads they hold, alone.
LEMMA ReportsIdle ==
  ASSUME NEW k, NoticesStand(k), NumbersStand(k), UNCHANGED <<tx, notice, seq>>,
         \A t \in k.thread : thread[t].state = "failed" => thread'[t] = thread[t],
         \A o \in k.observer : \A x \in tx[o].lost : thread'[x.thread] = thread[x.thread]
  PROVE  NoticesStand(k)' /\ NumbersStand(k)'
<1>1. NoticesStand(k)'
  <2>1. ASSUME NEW o \in k.observer, NEW x \in tx[o].lost
        PROVE  NoticeShape(x) /\ x.thread \in k.thread /\ thread'[x.thread].node = tx[o].node
                 /\ thread'[x.thread].state \in {"idle", "running", "awaiting"}
    <3>1. thread'[x.thread] = thread[x.thread]
      OBVIOUS
    <3>2. NoticeShape(x) /\ x.thread \in k.thread /\ thread[x.thread].node = tx[o].node
            /\ thread[x.thread].state \in {"idle", "running", "awaiting"}
      BY Zenon DEF NoticesStand
    <3>. QED BY <3>1, <3>2
  <2>. QED BY <2>1 DEF NoticesStand
<1>2. NumbersStand(k)'
  BY DEF NumbersStand
<1>. QED BY <1>1, <1>2

\* A report is dropped, or done.
LEMMA ReportEnds ==
  ASSUME NEW k, NoticesStand(k), NumbersStand(k), UNCHANGED <<notice, seq, thread>>, NEW o \in k.observer,
         tx' = [tx EXCEPT ![o] = Nodes(k)!NoTx]
  PROVE  NoticesStand(k)' /\ NumbersStand(k)'
<1>1. PICK none : none = Nodes(k)!NoTx
  OBVIOUS
<1>2. none = [node |-> Nil, lost |-> {}]
  BY <1>1 DEF Nodes!NoTx
<1>3. ReportShape(none) /\ none.node = Nil /\ none.lost = {}
  BY <1>2 DEF ReportShape
<1>4. tx' = [u \in k.observer |-> tx'[u]] /\ tx'[o] = none /\ \A u \in k.observer : u # o => tx'[u] = tx[u]
  BY <1>1 DEF NoticesStand
<1>5. NoticesStand(k)'
  BY <1>3, <1>4 DEF NoticesStand
<1>6. \A u \in k.observer : \A x \in tx'[u].lost : u # o /\ x \in tx[u].lost
  BY <1>3, <1>4
<1>7. NumbersStand(k)'
  BY <1>6 DEF NumbersStand
<1>. QED BY <1>5, <1>7

LEMMA NumbersDrawn ==
  ASSUME NEW k, LossConstants(k), NEW n, seq \in Nat
  PROVE  Cardinality(Nodes(k)!Hosted(n)) \in Nat
BY FS_Subset, FS_CardinalityType DEF LossConstants, Nodes!Hosted

LEMMA ReportBegins ==
  ASSUME NEW k, LossConstants(k), ThreadsStand(k), NoticesStand(k), NumbersStand(k), NEW o \in k.observer, NEW n \in k.node,
         Nodes(k)!ReportNodeLoss(o, n)
  PROVE  NoticesStand(k)' /\ NumbersStand(k)'
<1>1. PICK number \in [Nodes(k)!Hosted(n) -> seq + 1 .. seq + Cardinality(Nodes(k)!Hosted(n))] :
        /\ \A a, b \in Nodes(k)!Hosted(n) : a # b => number[a] # number[b]
        /\ tx' = [tx EXCEPT ![o] = [node |-> n, lost |-> {[thread |-> t, seq |-> number[t]] : t \in Nodes(k)!Hosted(n)}]]
  BY NodesCount DEF Nodes!ReportNodeLoss
<1>2. PICK new : new = [node |-> n, lost |-> {[thread |-> t, seq |-> number[t]] : t \in Nodes(k)!Hosted(n)}]
  OBVIOUS
<1>3. ReportShape(new) /\ new.node = n /\ new.lost = {[thread |-> t, seq |-> number[t]] : t \in Nodes(k)!Hosted(n)}
  BY <1>2 DEF ReportShape
<1>4. tx' = [u \in k.observer |-> tx'[u]] /\ tx'[o] = new /\ \A u \in k.observer : u # o => tx'[u] = tx[u]
  BY <1>1, <1>2 DEF NoticesStand
<1>5. \A x \in new.lost : NoticeShape(x) /\ x.thread \in Nodes(k)!Hosted(n) /\ x.seq = number[x.thread]
  BY <1>3 DEF NoticeShape
<1>6. seq' = seq + Cardinality(Nodes(k)!Hosted(n)) /\ Cardinality(Nodes(k)!Hosted(n)) \in Nat /\ seq \in Nat
  BY NumbersDrawn, NodesCount DEF Nodes!ReportNodeLoss, NumbersStand
<1>7. \A x \in new.lost : x.seq \in Nat /\ x.seq <= seq' /\ x.seq > seq
  BY <1>1, <1>5, <1>6
<1>8. seq' \in Nat /\ seq <= seq'
  BY <1>6
<1>9. UNCHANGED <<thread, notice>> /\ \A by \in k.observer : tx[by].node # n
  BY DEF Nodes!ReportNodeLoss
<1>10. n # Nil
  BY DEF LossConstants
<1>11. \A t \in Nodes(k)!Hosted(n) : t \in k.thread /\ thread[t].node = n /\ thread[t].state \in Nodes(k)!Live
  BY DEF Nodes!Hosted
<1>12. NoticesStand(k)'
  <2>1. \A t \in Nodes(k)!Hosted(n) : t \in k.thread /\ thread[t].node = n /\ thread[t].state \in {"idle", "running", "awaiting"}
    BY <1>11 DEF Nodes!Live
  <2>2. \A x \in new.lost : NoticeShape(x) /\ x.thread \in k.thread /\ thread'[x.thread].node = n
                             /\ thread'[x.thread].state \in {"idle", "running", "awaiting"}
    BY <1>5, <1>9, <2>1
  <2>3. \A u, v \in k.observer : tx'[u].node # Nil /\ tx'[u].node = tx'[v].node => u = v
    <3>1. \A u, v \in k.observer : tx[u].node # Nil /\ tx[u].node = tx[v].node => u = v
      BY Zenon DEF NoticesStand
    <3>. QED BY <1>3, <1>4, <1>9, <3>1
  <2>4. ASSUME NEW u \in k.observer, NEW x \in tx'[u].lost
        PROVE  NoticeShape(x) /\ x.thread \in k.thread /\ thread'[x.thread].node = tx'[u].node
                 /\ thread'[x.thread].state \in {"idle", "running", "awaiting"}
    <3>1. CASE u = o
      BY <1>3, <1>4, <2>2, <3>1
    <3>2. CASE u # o
      <4>1. tx'[u] = tx[u] /\ thread' = thread
        BY <1>4, <1>9, <3>2
      <4>. QED BY <4>1 DEF NoticesStand
    <3>. QED BY <3>1, <3>2
  <2>. QED BY <1>3, <1>4, <1>10, <2>3, <2>4 DEF NoticesStand
<1>13. \A x, y \in new.lost : x.thread = y.thread \/ x.seq = y.seq => x = y
  <2>. SUFFICES ASSUME NEW x \in new.lost, NEW y \in new.lost, x.thread = y.thread \/ x.seq = y.seq PROVE x = y
    OBVIOUS
  <2>1. x.thread = y.thread
    BY <1>1, <1>5
  <2>2. x.seq = y.seq
    BY <1>5, <2>1
  <2>3. x = [thread |-> x.thread, seq |-> x.seq] /\ y = [thread |-> y.thread, seq |-> y.seq]
    BY <1>5 DEF NoticeShape
  <2>. QED BY <2>1, <2>2, <2>3
<1>14. \A u \in k.observer : \A x \in tx'[u].lost : x.seq \in Nat /\ x.seq <= seq'
  BY <1>4, <1>6, <1>7, <1>8 DEF NumbersStand
<1>15. \A x \in notice : x.seq \in Nat /\ x.seq <= seq /\ x.seq <= seq'
  BY <1>6, <1>8 DEF NumbersStand
<1>16. ASSUME NEW u \in k.observer, NEW v \in k.observer, NEW x \in tx'[u].lost, NEW y \in tx'[v].lost, x.seq = y.seq
       PROVE  x = y /\ u = v
  <2>1. CASE u # o /\ v # o
    BY <1>4, <1>16, <2>1 DEF NumbersStand
  <2>2. CASE u = o /\ v = o
    BY <1>4, <1>13, <1>16, <2>2
  <2>3. CASE u = o /\ v # o
    <3>1. y.seq \in Nat /\ y.seq <= seq
      BY <1>4, <2>3 DEF NumbersStand
    <3>2. x.seq \in Nat /\ x.seq > seq
      BY <1>4, <1>7, <2>3
    <3>. QED BY <1>6, <1>16, <3>1, <3>2
  <2>4. CASE u # o /\ v = o
    <3>1. x.seq \in Nat /\ x.seq <= seq
      BY <1>4, <2>4 DEF NumbersStand
    <3>2. y.seq \in Nat /\ y.seq > seq
      BY <1>4, <1>7, <2>4
    <3>. QED BY <1>6, <1>16, <3>1, <3>2
  <2>. QED BY <2>1, <2>2, <2>3, <2>4
<1>17. \A u \in k.observer : \A x, y \in tx'[u].lost : x.thread = y.thread => x = y
  BY <1>4, <1>13 DEF NumbersStand
<1>18. ASSUME NEW u \in k.observer, NEW x \in tx'[u].lost, NEW y \in notice PROVE x.seq # y.seq
  <2>1. CASE u = o
    BY <1>4, <1>6, <1>7, <1>15, <2>1
  <2>2. CASE u # o
    BY <1>4, <2>2 DEF NumbersStand
  <2>. QED BY <2>1, <2>2
<1>19. NumbersStand(k)'
  <2>1. \A x \in notice : x.thread \in k.thread /\ thread[x.thread].state = "failed"
    BY DEF NumbersStand
  <2>2. \A x, y \in notice : x.thread = y.thread \/ x.seq = y.seq => x = y
    BY DEF NumbersStand
  <2>. QED BY <1>8, <1>9, <1>14, <1>15, <1>16, <1>17, <1>18, <2>1, <2>2 DEF NumbersStand
<1>. QED BY <1>12, <1>19

LEMMA ReportCommits ==
  ASSUME NEW k, LossConstants(k), ThreadsStand(k), NoticesStand(k), NumbersStand(k), NEW o \in k.observer,
         NEW yes \in BOOLEAN, Nodes(k)!CommitNodeLoss(o, yes)
  PROVE  NoticesStand(k)' /\ NumbersStand(k)'
<1>1. PICK none : none = Nodes(k)!NoTx
  OBVIOUS
<1>2. none = [node |-> Nil, lost |-> {}]
  BY <1>1 DEF Nodes!NoTx
<1>3. ReportShape(none) /\ none.node = Nil /\ none.lost = {}
  BY <1>2 DEF ReportShape
<1>4. tx' = [u \in k.observer |-> tx'[u]] /\ tx'[o] = none /\ \A u \in k.observer : u # o => tx'[u] = tx[u]
  BY <1>1 DEF NoticesStand, Nodes!CommitNodeLoss
<1>5.
      /\ \A t \in k.thread : IF \E x \in tx[o].lost : x.thread = t THEN thread'[t].state = "failed" ELSE thread'[t] = thread[t]
      /\ \A t \in k.thread : thread'[t].node = thread[t].node
  BY ThreadsFail
<1>6. notice' \subseteq notice \cup tx[o].lost /\ notice \subseteq notice' /\ UNCHANGED seq
  BY DEF Nodes!CommitNodeLoss, Nodes!Announced
<1>7. ASSUME NEW u \in k.observer, u # o, NEW x \in tx[u].lost
      PROVE  x.thread \in k.thread /\ thread'[x.thread] = thread[x.thread]
  <2>1. x.thread \in k.thread /\ thread[x.thread].node = tx[u].node
    BY DEF NoticesStand
  <2>2. tx[u].node # Nil /\ tx[o].node # Nil
    BY DEF NoticesStand, Nodes!CommitNodeLoss
  <2>3. \A y \in tx[o].lost : thread[y.thread].node = tx[o].node
    BY DEF NoticesStand
  <2>4. tx[o].node # tx[u].node
    BY <1>7, <2>2 DEF NoticesStand
  <2>. QED BY <1>5, <2>1, <2>3, <2>4
<1>8. NoticesStand(k)'
  <2>1. \A u, v \in k.observer : tx'[u].node # Nil /\ tx'[u].node = tx'[v].node => u = v
    BY <1>3, <1>4 DEF NoticesStand
  <2>2. ASSUME NEW u \in k.observer, NEW x \in tx'[u].lost
        PROVE  NoticeShape(x) /\ x.thread \in k.thread /\ thread'[x.thread].node = tx'[u].node
                 /\ thread'[x.thread].state \in {"idle", "running", "awaiting"}
    <3>1. u # o /\ tx'[u] = tx[u]
      BY <1>3, <1>4
    <3>2. thread'[x.thread] = thread[x.thread]
      BY <1>7, <3>1
    <3>. QED BY <3>1, <3>2 DEF NoticesStand
  <2>. QED BY <1>3, <1>4, <2>1, <2>2 DEF NoticesStand
<1>9. \A u \in k.observer : \A x \in tx'[u].lost : u # o /\ x \in tx[u].lost
  BY <1>3, <1>4
<1>10. ASSUME NEW x \in notice'
       PROVE  x.seq \in Nat /\ x.seq <= seq /\ x.thread \in k.thread /\ thread'[x.thread].state = "failed"
  <2>1. CASE x \in notice
    BY <1>5, <2>1 DEF NumbersStand
  <2>2. CASE x \in tx[o].lost
    <3>1. x.thread \in k.thread
      BY <2>2 DEF NoticesStand
    <3>. QED BY <1>5, <2>2, <3>1 DEF NumbersStand
  <2>. QED BY <1>6, <2>1, <2>2
<1>11. ASSUME NEW u \in k.observer, NEW x \in tx'[u].lost, NEW y \in notice' PROVE x.seq # y.seq
  BY <1>6, <1>9 DEF NumbersStand
<1>12. ASSUME NEW x \in notice', NEW y \in notice', x.thread = y.thread \/ x.seq = y.seq PROVE x = y
  <2>1. CASE x \in notice /\ y \in notice
    BY <1>12, <2>1 DEF NumbersStand
  <2>2. CASE x \in tx[o].lost /\ y \in tx[o].lost
    BY <1>12, <2>2 DEF NumbersStand
  <2>3. \A a \in notice, b \in tx[o].lost : a.seq # b.seq /\ a.thread # b.thread
    <3>1. \A a \in notice, b \in tx[o].lost : a.seq # b.seq
      BY DEF NumbersStand
    <3>2. \A a \in notice : thread[a.thread].state = "failed"
      BY DEF NumbersStand
    <3>3. \A b \in tx[o].lost : thread[b.thread].state # "failed"
      BY DEF NoticesStand, Nodes!Live
    <3>. QED BY <3>1, <3>2, <3>3
  <2>. QED BY <1>6, <1>12, <2>1, <2>2, <2>3
<1>13. NumbersStand(k)'
  <2>1. \A u \in k.observer : \A x \in tx'[u].lost : x.seq \in Nat /\ x.seq <= seq
    BY <1>9 DEF NumbersStand
  <2>2. \A u, v \in k.observer : \A x \in tx'[u].lost, y \in tx'[v].lost : x.seq = y.seq => x = y /\ u = v
    BY <1>9 DEF NumbersStand
  <2>3. \A u \in k.observer : \A x, y \in tx'[u].lost : x.thread = y.thread => x = y
    BY <1>9 DEF NumbersStand
  <2>4. seq' \in Nat /\ seq' = seq
    BY <1>6 DEF NumbersStand
  <2>. QED BY <1>10, <1>11, <1>12, <2>1, <2>2, <2>3, <2>4 DEF NumbersStand
<1>. QED BY <1>8, <1>13

LEMMA LossSteps ==
  ASSUME NEW k
  PROVE  LossConstants(k) /\ LossInv(k) /\ [Nodes(k)!Next]_(Nodes(k)!vars) => LossInv(k)'
<1>. SUFFICES ASSUME LossConstants(k), LossInv(k), [Nodes(k)!Next]_(Nodes(k)!vars) PROVE LossInv(k)'
  OBVIOUS
<1>. USE DEF LossInv
<1>1. ASSUME UNCHANGED <<thread, missing, absent, judged, tx, notice, seq>> PROVE LossInv(k)'
  BY <1>1, WatchIdle, ThreadsIdle, ThreadsGoOn, ReportsIdle
<1>2. ASSUME NEW t \in k.thread, NEW n \in k.node, NEW by \in k.thread \cup {Nil}, Nodes(k)!CreateThread(t, n, by)
      PROVE  LossInv(k)'
  <2>1. ThreadsMove(k) /\ thread[t].state = "none" /\ \A u \in k.thread : u # t => thread'[u] = thread[u]
    BY <1>2, ThreadCreated
  <2>2. \A o \in k.observer : \A x \in tx[o].lost : x.thread \in k.thread /\ thread[x.thread].state # "none"
    BY DEF NoticesStand, Nodes!Live
  <2>3. \A u \in k.thread : thread[u].state = "failed" => thread'[u] = thread[u]
    BY <2>1
  <2>. QED BY <1>2, <2>1, <2>2, <2>3, WatchIdle, ThreadsGoOn, ReportsIdle DEF Nodes!CreateThread, Nodes!watch
<1>3. ASSUME NEW t \in k.thread, NEW to \in Nodes(k)!Live \cup Nodes(k)!Terminal, Nodes(k)!TransitionThread(t, to)
      PROVE  LossInv(k)'
  <2>1. /\ ThreadsMove(k) /\ ~Nodes(k)!Locked(t) /\ thread[t].state # "failed" /\ \A u \in k.thread : u # t
             => thread'[u] = thread[u]
    BY <1>3, ThreadTransitions
  <2>2. ASSUME NEW o \in k.observer, NEW x \in tx[o].lost PROVE x.thread \in k.thread /\ x.thread # t
    <3>1. x.thread \in k.thread /\ thread[x.thread].node = tx[o].node /\ tx[o].node # Nil
      BY DEF NoticesStand
    <3>. QED BY <2>1, <3>1 DEF Nodes!Locked
  <2>3. \A u \in k.thread : thread[u].state = "failed" => thread'[u] = thread[u]
    BY <2>1
  <2>4. \A o \in k.observer : \A x \in tx[o].lost : thread'[x.thread] = thread[x.thread]
    BY <2>1, <2>2
  <2>. QED BY <1>3, <2>1, <2>3, <2>4, WatchIdle, ThreadsGoOn, ReportsIdle DEF Nodes!TransitionThread, Nodes!watch
<1>4. ASSUME Nodes(k)!Tick PROVE LossInv(k)'
  BY <1>4, WatchTicks, ThreadsIdle, ThreadsGoOn, ReportsIdle DEF Nodes!Tick, Nodes!rows
<1>5. ASSUME NEW o \in k.observer, Nodes(k)!ReadNodes(o) PROVE LossInv(k)'
  BY <1>5, WatchReads, LiveOnNodes, ThreadsIdle, ThreadsGoOn, ReportsIdle DEF Nodes!ReadNodes, Nodes!rows
<1>6. ASSUME NEW o \in k.observer, Nodes(k)!ReadFails(o) PROVE LossInv(k)'
  BY <1>6, WatchForgets, ThreadsIdle, ThreadsGoOn, ReportsIdle DEF Nodes!ReadFails, Nodes!rows
<1>7. ASSUME NEW o \in k.observer, NEW n \in k.node, Nodes(k)!ReportNodeLoss(o, n) PROVE LossInv(k)'
  BY <1>7, ReportBegins, WatchIdle, ThreadsIdle, ThreadsGoOn DEF Nodes!ReportNodeLoss, Nodes!watch
<1>8. ASSUME NEW o \in k.observer, NEW n \in k.node, Nodes(k)!AbortNodeLoss(o, n) PROVE LossInv(k)'
  BY <1>8, ReportEnds, WatchFewer, ThreadsIdle, ThreadsGoOn DEF Nodes!AbortNodeLoss, Nodes!rows
<1>9. ASSUME NEW o \in k.observer, NEW yes \in BOOLEAN, Nodes(k)!CommitNodeLoss(o, yes) PROVE LossInv(k)'
  <2>1. WatchStands(k)'
    <3>1. UNCHANGED <<missing, absent>> /\ \E n : judged' = [judged EXCEPT ![o] = @ \ {n}]
      BY <1>9 DEF Nodes!CommitNodeLoss
    <3>. QED BY <3>1, WatchFewer
  <2>. QED BY <1>9, <2>1, ReportCommits, ThreadsFail, ThreadsGoOn
<1>10. CASE UNCHANGED Nodes(k)!vars
  BY <1>1, <1>10 DEF Nodes!vars, Nodes!rows, Nodes!watch
<1>11. ASSUME NEW n \in k.node, Nodes(k)!Register(n) PROVE LossInv(k)'
  BY <1>1, <1>11 DEF Nodes!Register, Nodes!rows, Nodes!watch
<1>12. ASSUME Nodes(k)!PollNotices PROVE LossInv(k)'
  BY <1>1, <1>12 DEF Nodes!PollNotices, Nodes!watch
<1>. QED BY <1>2, <1>3, <1>4, <1>5, <1>6, <1>7, <1>8, <1>9, <1>10, <1>11, <1>12 DEF Nodes!Next

LEMMA AtMostOne ==
  ASSUME NEW k, NEW S, \A x, y \in S : x = y
  PROVE  Cardinality(S) <= 1
<1>1. CASE S = {}
  BY <1>1, FS_EmptySet
<1>2. ASSUME NEW x \in S PROVE Cardinality(S) <= 1
  <2>1. S = {x}
    OBVIOUS
  <2>. QED BY <2>1, FS_Singleton
<1>. QED BY <1>1, <1>2

\* A thread and its heirs, down to the third.
Line(k, t) ==
  LET first == Nodes(k)!Heirs({t})  later == Nodes(k)!Heirs(first) IN
  {t} \cup first \cup later \cup Nodes(k)!Heirs(later)

LEMMA OneHeirLives ==
  ASSUME NEW k, LossConstants(k), ThreadsStand(k)
  PROVE  Nodes(k)!OneHeir
<1>. SUFFICES ASSUME NEW by \in k.thread PROVE Cardinality({t \in Line(k, by) : thread[t].state \in Nodes(k)!Live}) <= 1
  BY NodesCount DEF Nodes!OneHeir, Line
<1>. DEFINE first == Nodes(k)!Heirs({by})  later == Nodes(k)!Heirs(first)  last == Nodes(k)!Heirs(later)
<1>1. \A old, t, u \in k.thread : thread[t].replaces = old /\ thread[u].replaces = old
        => t = u /\ thread[old].state = "failed"
  BY DEF LossConstants, ThreadsStand
<1>2. "failed" \notin Nodes(k)!Live
  BY DEF Nodes!Live
<1>3. first \subseteq k.thread /\ later \subseteq k.thread /\ last \subseteq k.thread
  BY DEF Nodes!Heirs
<1>4. \A t \in k.thread : t \in first <=> thread[t].replaces = by
  BY DEF Nodes!Heirs
<1>5. \A t \in k.thread : t \in later <=> thread[t].replaces \in first
  BY DEF Nodes!Heirs
<1>6. \A t \in k.thread : t \in last <=> thread[t].replaces \in later
  BY DEF Nodes!Heirs
<1>. HIDE DEF first, later, last
<1>7. \A t, u \in first : t = u
  BY <1>1, <1>3, <1>4
<1>8. \A t, u \in later : t = u
  BY <1>1, <1>3, <1>5, <1>7
<1>9. \A t, u \in last : t = u
  BY <1>1, <1>3, <1>6, <1>8
<1>10. first # {} => thread[by].state = "failed"
  BY <1>1, <1>3, <1>4
<1>11. later # {} => \A t \in first : thread[t].state = "failed"
  BY <1>1, <1>3, <1>5, <1>7
<1>12. last # {} => \A t \in later : thread[t].state = "failed"
  BY <1>1, <1>3, <1>6, <1>8
<1>13. later # {} => first # {}
  BY <1>3, <1>5
<1>14. last # {} => later # {}
  BY <1>3, <1>6
<1>15. \A t, u \in {x \in {by} \cup first \cup later \cup last : thread[x].state \in Nodes(k)!Live} : t = u
  BY <1>2, <1>7, <1>8, <1>9, <1>10, <1>11, <1>12, <1>13, <1>14
<1>16. Cardinality({x \in {by} \cup first \cup later \cup last : thread[x].state \in Nodes(k)!Live}) <= 1
  BY <1>15, AtMostOne
<1>. QED BY <1>16 DEF first, later, last, Line

LEMMA LossSound ==
  ASSUME NEW k
  PROVE  LossConstants(k) /\ LossInv(k) => Nodes(k)!NodeLossHolds
<1>. SUFFICES ASSUME LossConstants(k), LossInv(k) PROVE Nodes(k)!NodeLossHolds
  OBVIOUS
<1>1. Nodes(k)!LossIsEvident
  BY DEF LossInv, WatchStands, Nodes!LossIsEvident, LossConstants, Nodes!Never
<1>2. Nodes(k)!OneHeir
  BY OneHeirLives DEF LossInv
<1>3. Nodes(k)!NoticesTellOfFailures
  BY DEF LossInv, NumbersStand, Nodes!NoticesTellOfFailures
<1>. QED BY <1>1, <1>2, <1>3 DEF Nodes!NodeLossHolds

-----------------------------------------
(* What calls are charged, and how it reaches the ledger. *)

Budgeted ==
  [call |-> {r1, r2, r3}, tree |-> {"user", "project"}, total |-> 3, soft |-> 1, overdraft |-> 1, usage |-> {0, 3},
   publisher |-> {}, size |-> 2, consumer |-> {}, retries |-> 2, messages |-> 1, crashes |-> 0, disconnects |-> TRUE]
Billed ==
  [call |-> {r1, r2}, tree |-> {"user"}, total |-> 8, soft |-> 1, overdraft |-> 1, usage |-> {1},
   publisher |-> {p, q}, size |-> 2, consumer |-> {w1}, retries |-> 2, messages |-> 2, crashes |-> 1, disconnects |-> FALSE]

Usage(k) == INSTANCE Metering WITH
  Call <- k.call, Tree <- k.tree, Total <- k.total, Soft <- k.soft, Overdraft <- k.overdraft, Usage <- k.usage,
  Publisher <- k.publisher, BatchSize <- k.size, Consumer <- k.consumer, MaxRetry <- k.retries, MaxMessage <- k.messages,
  MaxCrash <- k.crashes, Disconnects <- k.disconnects,
  tree <- s1, call <- s2, outbox <- s3, batch <- s4, broker <- s5, consumer <- s6, attempts <- s7,
  ledger <- s8, dropped <- s9, peak <- s10, crashes <- s11

tree == s1
call == s2
outbox == s3
batch == s4
broker == s5
consumer == s6
attempts == s7
ledger == s8
dropped == s9
peak == s10
crashes == s11

USE DEF tree, call, outbox, batch, broker, consumer, attempts, ledger, dropped, peak, crashes

CallShape(r) == r = [at |-> r.at, usage |-> r.usage, gone |-> r.gone]

\* A call uses one of some numbers, of which one is the most; the budget with its overdraft lets a first call in.
MeteringConstants(k) ==
  /\ IsFiniteSet(k.call) /\ k.usage \subseteq Nat /\ \E u \in k.usage : \A v \in k.usage : v <= u
  /\ k.total \in Nat /\ k.overdraft \in Nat /\ k.total + k.overdraft >= 2 /\ k.soft \in 0 .. k.total
  /\ k.size \in Nat /\ k.messages \in Nat

LEMMA MostIsMost ==
  ASSUME NEW k, MeteringConstants(k)
  PROVE  Usage(k)!Most \in Nat /\ \A u \in k.usage : u <= Usage(k)!Most
<1>1. \E u \in k.usage : \A v \in k.usage : v <= u
  BY DEF MeteringConstants
<1>2. Usage(k)!Most \in k.usage /\ \A v \in k.usage : v <= Usage(k)!Most
  BY <1>1, Zenon DEF Usage!Most
<1>. QED BY <1>2 DEF MeteringConstants

\* How far a tree may be overrun when that many calls have been on their way that are not any more.
Floor(k, count) == 2 - k.overdraft - Usage(k)!Most * count

\* The calls that are on their way have still to be charged; those that are not have been, at most for the most there is.
CallsStand(k) ==
  /\ call = [c \in k.call |-> call[c]] /\ \A c \in k.call : CallShape(call[c])
  /\ \A c \in k.call : call[c].usage \in Nat /\ (call[c].at = "answered" => call[c].usage <= Usage(k)!Most)
  /\ tree \in [k.tree -> Int]
  /\ peak \in Nat /\ Cardinality(Usage(k)!OnTheirWay) <= peak
  /\ \A t \in k.tree : tree[t] >= Floor(k, peak - Cardinality(Usage(k)!OnTheirWay))

\* What a sum of the outbox is.
Sums(f) == f = [i \in 0 .. Len(outbox) |-> IF i = 0 THEN 0 ELSE f[i - 1] + call[outbox[i].call].usage]

\* A row of the outbox is of a call that was charged for.
OutboxStands(k) ==
  /\ outbox \in Seq([call : k.call, published : BOOLEAN])
  /\ \A i \in DOMAIN outbox : call[outbox[i].call].at = "charged"

\* There is a sum, and every sum is what the trees have lost; the outbox grows by one row at a time, and its sum with it.
SumsStand(k) ==
  /\ \E f : Sums(f)
  /\ \A f : Sums(f) => f[Len(outbox)] \in Nat /\ \A t \in k.tree : k.total - tree[t] = f[Len(outbox)]

LEMMA UsageCount == ASSUME NEW k, NEW S PROVE Usage(k)!Cardinality(S) = Cardinality(S)
BY DEF Usage!Cardinality, Cardinality

LEMMA SummedIs ==
  ASSUME NEW k
  PROVE  SumsStand(k) => Usage(k)!BooksBalance
<1>. SUFFICES ASSUME SumsStand(k) PROVE Usage(k)!BooksBalance
  OBVIOUS
<1>1. Sums(CHOOSE f : Sums(f))
  BY DEF SumsStand
<1>2. Usage(k)!Summed = (CHOOSE f : Sums(f))[Len(outbox)]
  BY Zenon DEF Usage!Summed, Sums
<1>. HIDE DEF Sums
<1>3. \A t \in k.tree : k.total - tree[t] = (CHOOSE f : Sums(f))[Len(outbox)]
  BY <1>1 DEF SumsStand
<1>. QED BY <1>2, <1>3 DEF Usage!BooksBalance

LEMMA WayIsFinite ==
  ASSUME NEW k, MeteringConstants(k)
  PROVE  IsFiniteSet(Usage(k)!OnTheirWay) /\ Cardinality(Usage(k)!OnTheirWay) \in Nat
BY FS_Subset, FS_CardinalityType DEF MeteringConstants, Usage!OnTheirWay

LEMMA FloorSteps ==
  ASSUME NEW k, MeteringConstants(k)
  PROVE  /\ \A n \in Nat : Floor(k, n) \in Int /\ Floor(k, n + 1) = Floor(k, n) - Usage(k)!Most /\ Floor(k, n) <= Floor(k, 0)
         /\ \A n, m \in Nat : n <= m => Floor(k, m) <= Floor(k, n)
         /\ Floor(k, 0) = 2 - k.overdraft
<1>1. PICK m, o \in Nat : Usage(k)!Most = m /\ k.overdraft = o
  BY MostIsMost DEF MeteringConstants
<1>2. \A n \in Nat : m * n \in Nat /\ m * (n + 1) = m * n + m
  OBVIOUS
<1>3. \A n, x \in Nat : n <= x => m * n <= m * x
  OBVIOUS
<1>4. \A n : Floor(k, n) = 2 - o - m * n
  BY <1>1 DEF Floor
<1>5. m * 0 = 0 /\ \A n \in Nat : 0 <= n
  OBVIOUS
<1>. QED BY <1>1, <1>2, <1>3, <1>4, <1>5

\* A step of one call that has not been charged.
CallMoves(k, c, row) ==
  /\ call[c].at \in {"idle", "approved", "answered"}
  /\ call' = [call EXCEPT ![c] = row]
  /\ CallShape(row) /\ row.usage \in Nat /\ (row.at = "answered" => row.usage <= Usage(k)!Most)

LEMMA CallMoved ==
  ASSUME NEW k, CallsStand(k), NEW c \in k.call, NEW row, CallMoves(k, c, row)
  PROVE  /\ call' = [x \in k.call |-> call'[x]] /\ call'[c] = row /\ \A x \in k.call : x # c => call'[x] = call[x]
         /\ \A x \in k.call : CallShape(call'[x]) /\ call'[x].usage \in Nat
              /\ (call'[x].at = "answered" => call'[x].usage <= Usage(k)!Most)
         /\ \A x \in k.call : call[x].at = "charged" => call'[x] = call[x]
BY DEF CallsStand, CallMoves

LEMMA WayMoves ==
  ASSUME NEW k, MeteringConstants(k), CallsStand(k), NEW c \in k.call, NEW row, CallMoves(k, c, row)
  PROVE  LET n == Cardinality(Usage(k)!OnTheirWay)  m == Cardinality(Usage(k)!OnTheirWay') IN
         /\ call[c].at = "idle" /\ row.at = "approved" => m = n + 1
         /\ call[c].at = "idle" /\ row.at \notin {"approved", "answered"} => m = n
         /\ call[c].at # "idle" /\ row.at \in {"approved", "answered"} => m = n
         /\ call[c].at # "idle" /\ row.at \notin {"approved", "answered"} => m = n - 1 /\ n >= 1
<1>1. call'[c] = row /\ \A x \in k.call : x # c => call'[x] = call[x]
  BY CallMoved
<1>2. IsFiniteSet(Usage(k)!OnTheirWay) /\ Cardinality(Usage(k)!OnTheirWay) \in Nat
  BY WayIsFinite
<1>3. call[c].at \in {"idle", "approved", "answered"}
  BY DEF CallMoves
<1>4. ASSUME call[c].at = "idle", row.at = "approved"
      PROVE  Cardinality(Usage(k)!OnTheirWay') = Cardinality(Usage(k)!OnTheirWay) + 1
  <2>1. Usage(k)!OnTheirWay' = Usage(k)!OnTheirWay \cup {c} /\ c \notin Usage(k)!OnTheirWay
    BY <1>1, <1>4 DEF Usage!OnTheirWay
  <2>. QED BY <1>2, <2>1, FS_AddElement
<1>5. ASSUME call[c].at = "idle", row.at \notin {"approved", "answered"} PROVE Usage(k)!OnTheirWay' = Usage(k)!OnTheirWay
  BY <1>1, <1>5 DEF Usage!OnTheirWay
<1>6. ASSUME call[c].at # "idle", row.at \in {"approved", "answered"} PROVE Usage(k)!OnTheirWay' = Usage(k)!OnTheirWay
  BY <1>1, <1>3, <1>6 DEF Usage!OnTheirWay
<1>7. ASSUME call[c].at # "idle", row.at \notin {"approved", "answered"}
      PROVE  Cardinality(Usage(k)!OnTheirWay') = Cardinality(Usage(k)!OnTheirWay) - 1 /\ Cardinality(Usage(k)!OnTheirWay) >= 1
  <2>1. Usage(k)!OnTheirWay' = Usage(k)!OnTheirWay \ {c} /\ c \in Usage(k)!OnTheirWay
    BY <1>1, <1>3, <1>7 DEF Usage!OnTheirWay
  <2>2. Cardinality(Usage(k)!OnTheirWay \ {c}) = Cardinality(Usage(k)!OnTheirWay) - 1
    BY <1>2, <2>1, FS_RemoveElement
  <2>3. Cardinality(Usage(k)!OnTheirWay) # 0
    BY <1>2, <2>1, FS_EmptySet
  <2>. QED BY <1>2, <2>1, <2>2, <2>3
<1>. QED BY <1>4, <1>5, <1>6, <1>7

LEMMA SequenceParts ==
  ASSUME NEW k, NEW S, NEW drawn, drawn \in Seq(S)
  PROVE  Len(drawn) \in Nat /\ DOMAIN drawn = 1 .. Len(drawn) /\ \A i \in 1 .. Len(drawn) : drawn[i] \in S
<1>1. Len(drawn) \in Nat
  OBVIOUS
<1>2. DOMAIN drawn = 1 .. Len(drawn)
  OBVIOUS
<1>3. ASSUME NEW i \in 1 .. Len(drawn) PROVE drawn[i] \in S
  OBVIOUS
<1>. QED BY <1>1, <1>2, <1>3

LEMMA EntriesAreCalls ==
  ASSUME NEW k, OutboxStands(k)
  PROVE  Len(outbox) \in Nat /\ DOMAIN outbox = 1 .. Len(outbox) /\ \A i \in DOMAIN outbox : outbox[i].call \in k.call
           /\ outbox[i].published \in BOOLEAN
<1>1. PICK S : S = [call : k.call, published : BOOLEAN] /\ outbox \in Seq(S)
  BY DEF OutboxStands
<1>2. Len(outbox) \in Nat /\ DOMAIN outbox = 1 .. Len(outbox) /\ \A i \in 1 .. Len(outbox) : outbox[i] \in S
  BY <1>1, SequenceParts
<1>5. \A x \in S : x.call \in k.call /\ x.published \in BOOLEAN
  BY <1>1
<1>. QED BY <1>2, <1>5

\* What a call's step does to the sums when nothing is charged.
LEMMA SumsIdle ==
  ASSUME NEW k, OutboxStands(k), SumsStand(k), UNCHANGED <<outbox, tree>>,
         \A x \in k.call : call[x].at = "charged" => call'[x] = call[x]
  PROVE  OutboxStands(k)' /\ SumsStand(k)'
<1>a. \A i \in DOMAIN outbox : outbox[i].call \in k.call
  BY EntriesAreCalls
<1>1. \A i \in DOMAIN outbox : call'[outbox[i].call] = call[outbox[i].call]
  BY <1>a DEF OutboxStands
<1>2. OutboxStands(k)'
  BY <1>1 DEF OutboxStands
<1>3. ASSUME NEW f PROVE Sums(f)' <=> Sums(f)
  <2>1. \A i \in 0 .. Len(outbox) : i # 0 => i \in DOMAIN outbox
    BY DEF OutboxStands
  <2>2. \A i \in 0 .. Len(outbox) : i # 0 => call'[outbox[i].call].usage = call[outbox[i].call].usage
    BY <1>1, <2>1
  <2>3. [i \in 0 .. Len(outbox) |-> IF i = 0 THEN 0 ELSE f[i - 1] + call'[outbox[i].call].usage]
        = [i \in 0 .. Len(outbox) |-> IF i = 0 THEN 0 ELSE f[i - 1] + call[outbox[i].call].usage]
    BY <2>2
  <2>. QED BY <2>3, Zenon DEF Sums
<1>. HIDE DEF Sums
<1>4. SumsStand(k)'
  BY <1>3 DEF SumsStand
<1>. QED BY <1>2, <1>4

\* A row is added to the outbox, and the usage of its call to the sum.
LEMMA SumsGrow ==
  ASSUME NEW k, MeteringConstants(k), CallsStand(k), OutboxStands(k), SumsStand(k), NEW c \in k.call, Usage(k)!Commit(c),
         NEW row, CallMoves(k, c, row), row.at = "charged",
         row.usage = call[c].usage
  PROVE  OutboxStands(k)' /\ SumsStand(k)'
<1>. DEFINE n == Len(outbox)  u == call[c].usage
<1>0. n \in Nat /\ DOMAIN outbox = 1 .. n /\ \A i \in 1 .. n : outbox[i].call \in k.call
  BY EntriesAreCalls
<1>1. PICK no : no = FALSE
  OBVIOUS
<1>2. PICK new : new = [call |-> c, published |-> no]
  OBVIOUS
<1>3. outbox' = Append(outbox, new)
  BY <1>1, <1>2, Zenon DEF Usage!Commit
<1>4. new \in [call : k.call, published : BOOLEAN] /\ new.call = c
  BY <1>1, <1>2
<1>5. outbox' \in Seq([call : k.call, published : BOOLEAN]) /\ Len(outbox') = n + 1 /\ outbox'[n + 1] = new
      /\ \A i \in 1 .. n : outbox'[i] = outbox[i]
  BY <1>3, <1>4 DEF OutboxStands
<1>6. call'[c] = row /\ \A x \in k.call : call[x].at = "charged" => call'[x] = call[x]
  BY CallMoved
<1>7. \A i \in 1 .. n : call'[outbox'[i].call] = call[outbox[i].call] /\ call[outbox[i].call].at = "charged"
  BY <1>0, <1>5, <1>6 DEF OutboxStands
<1>8. call'[outbox'[n + 1].call] = row
  BY <1>4, <1>5, <1>6
<1>9. OutboxStands(k)'
  <2>1. DOMAIN outbox' = 1 .. n + 1
    BY <1>5
  <2>2. \A i \in 1 .. n + 1 : i \in 1 .. n \/ i = n + 1
    BY <1>0
  <2>3. \A i \in 1 .. n : call'[outbox'[i].call].at = "charged"
    BY <1>7
  <2>. QED BY <1>5, <1>8, <2>1, <2>2, <2>3 DEF OutboxStands
<1>10. u \in Nat
  BY DEF CallsStand
<1>11. \A t \in k.tree : tree'[t] = tree[t] - u /\ tree[t] \in Int
  BY DEF Usage!Commit, Usage!Charged, CallsStand
<1>12. Len(outbox') = n + 1 /\ n + 1 \in Nat /\ 0 .. n + 1 = (0 .. n) \cup {n + 1}
  BY <1>0, <1>5
<1>13. \A f : Sums(f)' <=> f = [i \in 0 .. n + 1 |-> IF i = 0 THEN 0 ELSE f[i - 1] + call'[outbox'[i].call].usage]
  BY <1>12, Zenon DEF Sums
<1>14. ASSUME NEW f, Sums(f)' PROVE /\ f[n + 1] \in Nat /\ \A t \in k.tree : k.total - tree'[t] = f[n + 1]
  <2>1. f = [i \in 0 .. n + 1 |-> IF i = 0 THEN 0 ELSE f[i - 1] + call'[outbox'[i].call].usage]
    BY <1>13, <1>14
  <2>2. PICK g : g = [i \in 0 .. n |-> f[i]]
    OBVIOUS
  <2>3. \A i \in 0 .. n : g[i] = f[i] /\ (i # 0 => i - 1 \in 0 .. n /\ i \in 1 .. n)
    BY <1>0, <2>2
  <2>4. \A i \in 0 .. n : f[i] = IF i = 0 THEN 0 ELSE f[i - 1] + call'[outbox'[i].call].usage
    BY <1>12, <2>1
  <2>5. \A i \in 0 .. n : g[i] = IF i = 0 THEN 0 ELSE g[i - 1] + call[outbox[i].call].usage
    BY <1>7, <2>3, <2>4
  <2>6. g = [i \in 0 .. n |-> IF i = 0 THEN 0 ELSE g[i - 1] + call[outbox[i].call].usage]
    <3>1. g = [i \in 0 .. n |-> g[i]]
      BY <2>2
    <3>. QED BY <2>5, <3>1
  <2>7. Sums(g)
    BY <2>6, Zenon DEF Sums
  <2>8. g[n] \in Nat /\ \A t \in k.tree : k.total - tree[t] = g[n]
    <3>. HIDE DEF Sums
    <3>. QED BY <2>7 DEF SumsStand
  <2>9. f[n + 1] = f[n] + u
    <3>1. n + 1 \in 0 .. n + 1 /\ n + 1 # 0 /\ (n + 1) - 1 = n
      BY <1>0
    <3>2. f[n + 1] = f[(n + 1) - 1] + call'[outbox'[n + 1].call].usage
      BY <2>1, <3>1
    <3>. QED BY <1>8, <3>1, <3>2
  <2>10. f[n] = g[n]
    BY <1>0, <2>3
  <2>11. PICK total \in Nat : total = k.total
    BY DEF MeteringConstants
  <2>12. PICK spare \in Nat : spare = g[n]
    BY <2>8
  <2>. QED BY <1>10, <1>11, <2>8, <2>9, <2>10, <2>11, <2>12
<1>15. \E f : Sums(f)'
  <2>1. PICK g : Sums(g)
    BY DEF SumsStand
  <2>2. g = [i \in 0 .. n |-> IF i = 0 THEN 0 ELSE g[i - 1] + call[outbox[i].call].usage]
    BY <2>1, Zenon DEF Sums
  <2>3. PICK f : f = [i \in 0 .. n + 1 |-> IF i = n + 1 THEN g[n] + u ELSE g[i]]
    OBVIOUS
  <2>4. \A i \in 0 .. n : f[i] = g[i] /\ i # n + 1 /\ (i # 0 => i - 1 \in 0 .. n /\ i \in 1 .. n)
    BY <1>0, <1>12, <2>3
  <2>5. \A i \in 0 .. n : g[i] = IF i = 0 THEN 0 ELSE g[i - 1] + call[outbox[i].call].usage
    BY <2>2
  <2>6. \A i \in 0 .. n : f[i] = IF i = 0 THEN 0 ELSE f[i - 1] + call'[outbox'[i].call].usage
    BY <1>7, <2>4, <2>5
  <2>7. f[n + 1] = f[(n + 1) - 1] + call'[outbox'[n + 1].call].usage /\ n + 1 # 0
    <3>1. (n + 1) - 1 = n /\ n \in 0 .. n /\ n + 1 \in 0 .. n + 1 /\ n + 1 # 0
      BY <1>0
    <3>2. f[n + 1] = g[n] + u
      BY <2>3, <3>1
    <3>3. f[n] = g[n]
      BY <2>4, <3>1
    <3>. QED BY <1>8, <3>1, <3>2, <3>3
  <2>8. \A i \in 0 .. n + 1 : f[i] = IF i = 0 THEN 0 ELSE f[i - 1] + call'[outbox'[i].call].usage
    BY <1>12, <2>6, <2>7
  <2>9. f = [i \in 0 .. n + 1 |-> f[i]]
    BY <2>3
  <2>10. f = [i \in 0 .. n + 1 |-> IF i = 0 THEN 0 ELSE f[i - 1] + call'[outbox'[i].call].usage]
    BY <2>8, <2>9
  <2>. QED BY <1>13, <2>10, Zenon
<1>16. SumsStand(k)'
  <2>. HIDE DEF Sums
  <2>1. \A f : Sums(f)' => f[Len(outbox')] \in Nat /\ \A t \in k.tree : k.total - tree'[t] = f[Len(outbox')]
    BY <1>12, <1>14
  <2>. QED BY <1>15, <2>1, Zenon DEF SumsStand
<1>. QED BY <1>9, <1>16

LEMMA CallFields ==
  ASSUME NEW k, CallsStand(k), NEW c \in k.call
  PROVE  \E a, u, g : call[c] = [at |-> a, usage |-> u, gone |-> g] /\ u \in Nat
<1>1. PICK old : old = call[c] /\ CallShape(old)
  BY DEF CallsStand
<1>2. PICK a, u, g : old = [at |-> a, usage |-> u, gone |-> g]
  BY <1>1 DEF CallShape
<1>3. u = old.usage
  BY <1>2
<1>. QED BY <1>1, <1>2, <1>3 DEF CallsStand

\* A call goes on to another state.
Goes(c, s) == call' = [call EXCEPT ![c].at = s]

LEMMA CallGoesTo ==
  ASSUME NEW k, CallsStand(k), NEW c \in k.call, NEW s, s # "answered",
         call[c].at \in {"idle", "approved", "answered"}, Goes(c, s)
  PROVE  \E new : CallMoves(k, c, new) /\ new.at = s /\ new.usage = call[c].usage
<1>1. PICK old : old = call[c]
  OBVIOUS
<1>2. PICK a, u, g : old = [at |-> a, usage |-> u, gone |-> g] /\ u \in Nat
  BY <1>1, CallFields
<1>3. PICK new : new = [old EXCEPT !.at = s]
  OBVIOUS
<1>4. new = [at |-> s, usage |-> u, gone |-> g]
  BY <1>2, <1>3
<1>5. call' = [call EXCEPT ![c] = new]
  BY <1>1, <1>3, Zenon DEF Goes
<1>6. CallShape(new) /\ new.at = s /\ new.usage = u /\ old.usage = u
  BY <1>2, <1>4 DEF CallShape
<1>. QED BY <1>1, <1>2, <1>5, <1>6 DEF CallMoves

LEMMA CallIsGone ==
  ASSUME NEW k, CallsStand(k), NEW c \in k.call, call[c].at \in {"approved", "answered"},
         call' = [call EXCEPT ![c].gone = TRUE]
  PROVE  \E new : CallMoves(k, c, new) /\ new.at = call[c].at
<1>1. PICK old : old = call[c]
  OBVIOUS
<1>2. PICK a, u, g : old = [at |-> a, usage |-> u, gone |-> g] /\ u \in Nat
  BY <1>1, CallFields
<1>3. PICK yes : yes = TRUE
  OBVIOUS
<1>4. PICK new : new = [old EXCEPT !.gone = yes]
  OBVIOUS
<1>5. new = [at |-> a, usage |-> u, gone |-> yes]
  BY <1>2, <1>4
<1>6. call' = [call EXCEPT ![c] = new]
  BY <1>1, <1>3, <1>4, Zenon
<1>7. CallShape(new) /\ new.at = a /\ new.usage = u /\ old.usage = u /\ old.at = a
  BY <1>2, <1>5 DEF CallShape
<1>. QED BY <1>1, <1>2, <1>6, <1>7 DEF CallMoves, CallsStand

LEMMA CallIsAnswered ==
  ASSUME NEW k, MeteringConstants(k), CallsStand(k), NEW c \in k.call, NEW u \in k.usage, Usage(k)!Answer(c, u)
  PROVE  \E new : CallMoves(k, c, new) /\ new.at = "answered"
<1>1. PICK old : old = call[c]
  OBVIOUS
<1>2. PICK a, v, g : old = [at |-> a, usage |-> v, gone |-> g] /\ v \in Nat
  BY <1>1, CallFields
<1>3. PICK mid : mid = [old EXCEPT !.at = "answered"]
  OBVIOUS
<1>4. PICK new : new = [mid EXCEPT !.usage = u]
  OBVIOUS
<1>5. mid = [at |-> "answered", usage |-> v, gone |-> g]
  BY <1>2, <1>3
<1>6. new = [at |-> "answered", usage |-> u, gone |-> g]
  BY <1>4, <1>5
<1>7. call[c].at = "approved" /\ call' = [call EXCEPT ![c].at = "answered", ![c].usage = u]
  BY DEF Usage!Answer
<1>8. call' = [call EXCEPT ![c] = new]
  <2>1. PICK x : x = [call EXCEPT ![c] = mid]
    OBVIOUS
  <2>2. x = [call EXCEPT ![c].at = "answered"]
    BY <1>1, <1>3, <2>1, Zenon
  <2>3. x[c] = mid /\ call = [y \in k.call |-> call[y]]
    BY <2>1 DEF CallsStand
  <2>4. call' = [x EXCEPT ![c].usage = u]
    BY <1>7, <2>2, Zenon
  <2>5. call' = [x EXCEPT ![c] = new]
    BY <1>4, <2>3, <2>4, Zenon
  <2>. QED BY <2>1, <2>3, <2>5
<1>9. CallShape(new) /\ new.at = "answered" /\ new.usage = u /\ u \in Nat /\ u <= Usage(k)!Most
  BY <1>6, MostIsMost DEF CallShape, MeteringConstants
<1>. QED BY <1>7, <1>8, <1>9 DEF CallMoves

\* A call ends, or goes on, without being charged.
LEMMA CallsGoOn ==
  ASSUME NEW k, MeteringConstants(k), CallsStand(k), NEW c \in k.call, NEW new, CallMoves(k, c, new),
         UNCHANGED <<tree, peak>>,
         call[c].at = "idle" => new.at \notin {"approved", "answered"}
  PROVE  CallsStand(k)'
<1>. DEFINE n == Cardinality(Usage(k)!OnTheirWay)  m == Cardinality(Usage(k)!OnTheirWay')
<1>1. n \in Nat
  BY WayIsFinite
<1>2. m = n \/ (m = n - 1 /\ n >= 1)
  BY WayMoves
<1>3. m \in Nat /\ m <= peak /\ peak - m \in Nat /\ peak - n \in Nat /\ peak - n <= peak - m
  BY <1>1, <1>2 DEF CallsStand
<1>4. Floor(k, peak - m) <= Floor(k, peak - n) /\ Floor(k, peak - m) \in Int /\ Floor(k, peak - n) \in Int
  BY <1>3, FloorSteps
<1>5. \A t \in k.tree : tree[t] >= Floor(k, peak - n) /\ tree[t] \in Int
  BY DEF CallsStand
<1>6. \A t \in k.tree : tree[t] >= Floor(k, peak - m)
  BY <1>4, <1>5
<1>7. CallMoves(k, c, new) => /\ call' = [x \in k.call |-> call'[x]]
         /\ \A x \in k.call : CallShape(call'[x]) /\ call'[x].usage \in Nat
              /\ (call'[x].at = "answered" => call'[x].usage <= Usage(k)!Most)
  BY CallMoved
<1>8. tree' = tree /\ peak' = peak /\ Cardinality(Usage(k)!OnTheirWay)' = m
  OBVIOUS
<1>9. \A t \in k.tree : tree'[t] >= Floor(k, peak' - Cardinality(Usage(k)!OnTheirWay)')
  BY <1>6, <1>8
<1>. QED BY <1>3, <1>7, <1>8, <1>9 DEF CallsStand

LEMMA CallIsApproved ==
  ASSUME NEW k, MeteringConstants(k), CallsStand(k), NEW c \in k.call, NEW new, CallMoves(k, c, new), new.at = "approved",
         call[c].at = "idle",
         UNCHANGED tree, \A t \in k.tree : Usage(k)!StateOfTree(t) # "hard",
         peak' = IF Cardinality(Usage(k)!OnTheirWay) + 1 > peak THEN Cardinality(Usage(k)!OnTheirWay) + 1 ELSE peak
  PROVE  CallsStand(k)'
<1>. DEFINE n == Cardinality(Usage(k)!OnTheirWay)  m == Cardinality(Usage(k)!OnTheirWay')
<1>1. n \in Nat /\ peak \in Nat
  BY WayIsFinite DEF CallsStand
<1>2. m = n + 1
  BY WayMoves
<1>3. peak' \in Nat /\ m <= peak' /\ peak' - m \in Nat
  BY <1>1, <1>2
<1>4. \A t \in k.tree : tree[t] \in Int /\ tree[t] >= 2 - k.overdraft
  BY DEF Usage!StateOfTree, Usage!BudgetState, CallsStand, MeteringConstants
<1>5. Floor(k, peak' - m) <= 2 - k.overdraft /\ Floor(k, peak' - m) \in Int
  BY <1>3, FloorSteps
<1>6. \A t \in k.tree : tree[t] >= Floor(k, peak' - m)
  BY <1>4, <1>5 DEF MeteringConstants
<1>7. /\ call' = [x \in k.call |-> call'[x]]
      /\ \A x \in k.call : CallShape(call'[x]) /\ call'[x].usage \in Nat
           /\ (call'[x].at = "answered" => call'[x].usage <= Usage(k)!Most)
  BY CallMoved
<1>8. tree' = tree /\ Cardinality(Usage(k)!OnTheirWay)' = m
  OBVIOUS
<1>. QED BY <1>3, <1>6, <1>7, <1>8 DEF CallsStand

LEMMA CallIsCharged ==
  ASSUME NEW k, MeteringConstants(k), CallsStand(k), NEW c \in k.call, NEW new, CallMoves(k, c, new), new.at = "charged",
         call[c].at = "answered",
         UNCHANGED peak, tree' = Usage(k)!Charged(c)
  PROVE  CallsStand(k)'
<1>. DEFINE n == Cardinality(Usage(k)!OnTheirWay)  m == Cardinality(Usage(k)!OnTheirWay')  u == call[c].usage
<1>1. n \in Nat /\ peak \in Nat /\ n <= peak
  BY WayIsFinite DEF CallsStand
<1>2. m = n - 1 /\ n >= 1
  BY WayMoves
<1>3. m \in Nat /\ m <= peak /\ peak - n \in Nat /\ peak - m = (peak - n) + 1
  BY <1>1, <1>2
<1>4. Floor(k, peak - m) = Floor(k, peak - n) - Usage(k)!Most /\ Floor(k, peak - n) \in Int /\ Usage(k)!Most \in Nat
  BY <1>3, FloorSteps, MostIsMost
<1>5. u \in Nat /\ u <= Usage(k)!Most
  BY DEF CallsStand
<1>6. \A t \in k.tree : tree'[t] = tree[t] - u /\ tree[t] \in Int /\ tree[t] >= Floor(k, peak - n)
  BY DEF Usage!Charged, CallsStand
<1>7. tree' \in [k.tree -> Int]
  BY <1>5, <1>6 DEF Usage!Charged
<1>8. \A t \in k.tree : tree'[t] >= Floor(k, peak - m)
  BY <1>4, <1>5, <1>6
<1>9. /\ call' = [x \in k.call |-> call'[x]]
      /\ \A x \in k.call : CallShape(call'[x]) /\ call'[x].usage \in Nat
           /\ (call'[x].at = "answered" => call'[x].usage <= Usage(k)!Most)
  BY CallMoved
<1>10. peak' = peak /\ Cardinality(Usage(k)!OnTheirWay)' = m
  OBVIOUS
<1>. QED BY <1>1, <1>3, <1>7, <1>8, <1>9, <1>10 DEF CallsStand

\* What was charged stays charged, and the outbox grows at its end.
BooksMove(k) ==
  /\ \A x \in k.call : call[x].at = "charged" => call'[x].at = "charged"
  /\ UNCHANGED <<batch, broker, consumer, attempts, ledger, dropped>>
  /\ \/ UNCHANGED outbox
     \/ /\ Len(outbox') = Len(outbox) + 1 /\ \A i \in 1 .. Len(outbox) : outbox'[i] = outbox[i]
        /\ ~outbox'[Len(outbox')].published

LEMMA UnchargedMoves ==
  ASSUME NEW k, CallsStand(k), OutboxStands(k), SumsStand(k), NEW c \in k.call, NEW new, CallMoves(k, c, new),
         UNCHANGED <<tree, outbox>>, UNCHANGED Usage(k)!transport
  PROVE  OutboxStands(k)' /\ SumsStand(k)' /\ BooksMove(k)
<1>1. \A x \in k.call : call[x].at = "charged" => call'[x] = call[x]
  BY CallMoved
<1>2. OutboxStands(k)' /\ SumsStand(k)'
  BY <1>1, SumsIdle
<1>. QED BY <1>1, <1>2 DEF BooksMove, Usage!transport

\* A call's step: the books balance.
LEMMA BooksAreKept ==
  ASSUME NEW k, MeteringConstants(k), CallsStand(k), OutboxStands(k), SumsStand(k), NEW c \in k.call,
         \/ Usage(k)!Reserve(c) \/ Usage(k)!Unanswered(c) \/ Usage(k)!Disconnect(c) \/ Usage(k)!Commit(c)
              \/ Usage(k)!CommitFails(c) \/ \E u \in k.usage : Usage(k)!Answer(c, u)
  PROVE  CallsStand(k)' /\ OutboxStands(k)' /\ SumsStand(k)' /\ BooksMove(k)
<1>1. CASE Usage(k)!Reserve(c)
  <2>1. call[c].at = "idle" /\ UNCHANGED <<tree, outbox>> /\ UNCHANGED Usage(k)!transport
    BY <1>1 DEF Usage!Reserve
  <2>2. CASE \E t \in k.tree : Usage(k)!StateOfTree(t) = "hard"
    <3>1. Goes(c, "refused") /\ UNCHANGED peak
      BY <1>1, <2>2 DEF Usage!Reserve, Goes
    <3>2. PICK new : CallMoves(k, c, new) /\ new.at = "refused"
      BY <2>1, <3>1, CallGoesTo
    <3>. QED BY <2>1, <3>1, <3>2, CallsGoOn, UnchargedMoves
  <2>3. CASE \A t \in k.tree : Usage(k)!StateOfTree(t) # "hard"
    <3>1. /\ Goes(c, "approved")
          /\ peak' = IF Cardinality(Usage(k)!OnTheirWay) + 1 > peak THEN Cardinality(Usage(k)!OnTheirWay) + 1 ELSE peak
      BY <1>1, <2>3, UsageCount DEF Usage!Reserve, Goes
    <3>2. PICK new : CallMoves(k, c, new) /\ new.at = "approved"
      BY <2>1, <3>1, CallGoesTo
    <3>. QED BY <2>1, <2>3, <3>1, <3>2, CallIsApproved, UnchargedMoves
  <2>. QED BY <2>2, <2>3
<1>2. CASE Usage(k)!Unanswered(c) \/ Usage(k)!CommitFails(c)
  <2>1. /\ call[c].at \in {"approved", "answered"} /\ Goes(c, "unmetered")
        /\ UNCHANGED <<tree, outbox, peak>> /\ UNCHANGED Usage(k)!transport
    BY <1>2 DEF Usage!Unanswered, Usage!CommitFails, Goes
  <2>2. PICK new : CallMoves(k, c, new) /\ new.at = "unmetered"
    BY <2>1, CallGoesTo
  <2>. QED BY <2>1, <2>2, CallsGoOn, UnchargedMoves
<1>3. CASE Usage(k)!Disconnect(c)
  <2>1. /\ call[c].at \in {"approved", "answered"} /\ call' = [call EXCEPT ![c].gone = TRUE]
        /\ UNCHANGED <<tree, outbox, peak>> /\ UNCHANGED Usage(k)!transport
    BY <1>3 DEF Usage!Disconnect
  <2>2. PICK new : CallMoves(k, c, new) /\ new.at = call[c].at
    BY <2>1, CallIsGone
  <2>. QED BY <2>1, <2>2, CallsGoOn, UnchargedMoves
<1>4. ASSUME NEW u \in k.usage, Usage(k)!Answer(c, u)
      PROVE  CallsStand(k)' /\ OutboxStands(k)' /\ SumsStand(k)' /\ BooksMove(k)
  <2>1. call[c].at = "approved" /\ UNCHANGED <<tree, outbox, peak>> /\ UNCHANGED Usage(k)!transport
    BY <1>4 DEF Usage!Answer
  <2>2. PICK new : CallMoves(k, c, new) /\ new.at = "answered"
    BY <1>4, CallIsAnswered
  <2>. QED BY <2>1, <2>2, CallsGoOn, UnchargedMoves
<1>5. CASE Usage(k)!Commit(c)
  <2>1. /\ call[c].at = "answered" /\ Goes(c, "charged") /\ tree' = Usage(k)!Charged(c)
        /\ UNCHANGED peak /\ UNCHANGED Usage(k)!transport
    BY <1>5 DEF Usage!Commit, Goes
  <2>2. PICK new : CallMoves(k, c, new) /\ new.at = "charged" /\ new.usage = call[c].usage
    BY <2>1, CallGoesTo
  <2>3. CallsStand(k)'
    BY <2>1, <2>2, CallIsCharged
  <2>4. OutboxStands(k)' /\ SumsStand(k)'
    BY <1>5, <2>2, SumsGrow
  <2>5. \A x \in k.call : call[x].at = "charged" => call'[x] = call[x]
    BY <2>2, CallMoved
  <2>6. /\ Len(outbox') = Len(outbox) + 1 /\ \A i \in 1 .. Len(outbox) : outbox'[i] = outbox[i]
        /\ ~outbox'[Len(outbox')].published
    <3>1. PICK no : no = FALSE
      OBVIOUS
    <3>2. PICK new2 : new2 = [call |-> c, published |-> no]
      OBVIOUS
    <3>3. outbox' = Append(outbox, new2)
      BY <1>5, <3>1, <3>2, Zenon DEF Usage!Commit
    <3>4. ~new2.published
      BY <3>1, <3>2
    <3>5. Len(outbox') = Len(outbox) + 1 /\ outbox'[Len(outbox) + 1] = new2
            /\ \A i \in 1 .. Len(outbox) : outbox'[i] = outbox[i]
      BY <3>3 DEF OutboxStands
    <3>. QED BY <3>4, <3>5
  <2>. QED BY <2>1, <2>3, <2>4, <2>5, <2>6 DEF BooksMove, Usage!transport
<1>. QED BY <1>1, <1>2, <1>3, <1>4, <1>5

\* The transport.

BatchShape(b) == b = [rows |-> b.rows, sent |-> b.sent]
MessageShape(m) == m = [call |-> m.call, at |-> m.at]
HandShape(h) == h = [message |-> h.message, written |-> h.written]

\* The calls that are with the broker, in the ledger, or given up.
SafeCalls(k) == {c \in k.call : Usage(k)!Delivered(c) \/ ledger[c] = 1 \/ c \in dropped}

\* Of some rows of the outbox, there is a first, a second, and so on; the outbox grows by one row at a time.
Ranked(k, n) ==
  \A S \in SUBSET (1 .. n) : \A x \in 1 .. Cardinality(S) : \E i \in S : Cardinality({j \in S : j < i}) + 1 = x

\* What a batch has sent, and what is marked as published, is safe; a batch is drawn from the outbox.
DrawnStand(k) ==
  /\ Ranked(k, Len(outbox))
  /\ batch = [d \in k.publisher |-> batch[d]]
  /\ \A d \in k.publisher :
       /\ BatchShape(batch[d]) /\ batch[d].rows \in Seq(1 .. Len(outbox)) /\ batch[d].sent \in 0 .. Len(batch[d].rows)
       /\ \A x \in 1 .. batch[d].sent : outbox[batch[d].rows[x]].call \in SafeCalls(k)
  /\ \A i \in 1 .. Len(outbox) : outbox[i].published => outbox[i].call \in SafeCalls(k)

\* A message, and what a consumer has written of it, is of a call that was charged for; one row each in the ledger.
MessagesStand(k) ==
  /\ broker = [m \in Usage(k)!Message |-> broker[m]] /\ \A m \in Usage(k)!Message : MessageShape(broker[m])
  /\ \A m \in Usage(k)!Message : broker[m].at # "none" => broker[m].call \in k.call /\ call[broker[m].call].at = "charged"
  /\ consumer = [w \in k.consumer |-> consumer[w]]
  /\ \A w \in k.consumer :
       /\ HandShape(consumer[w])
       /\ (consumer[w].message # Usage(k)!None
            => consumer[w].message \in Usage(k)!Message /\ broker[consumer[w].message].at # "none")
       /\ consumer[w].written => consumer[w].message # Usage(k)!None /\ ledger[broker[consumer[w].message].call] = 1
  /\ ledger \in [k.call -> {0, 1}] /\ \A c \in k.call : ledger[c] = 1 => call[c].at = "charged"

MeteringInv(k) == CallsStand(k) /\ OutboxStands(k) /\ SumsStand(k) /\ DrawnStand(k) /\ MessagesStand(k)

LEMMA RankedGrows ==
  ASSUME NEW k, NEW n \in Nat, Ranked(k, n)
  PROVE  Ranked(k, n + 1)
<1>. SUFFICES ASSUME NEW S \in SUBSET (1 .. n + 1), NEW x \in 1 .. Cardinality(S)
              PROVE  \E i \in S : Cardinality({j \in S : j < i}) + 1 = x
  BY DEF Ranked
<1>1. 1 .. n + 1 = (1 .. n) \cup {n + 1} /\ \A i \in 1 .. n : i < n + 1 /\ ~(n + 1 < i)
  OBVIOUS
<1>2. CASE n + 1 \notin S
  BY <1>1, <1>2 DEF Ranked
<1>3. CASE n + 1 \in S
  <2>. DEFINE S0 == S \ {n + 1}
  <2>1. S0 \in SUBSET (1 .. n) /\ S = S0 \cup {n + 1} /\ n + 1 \notin S0
    BY <1>1, <1>3
  <2>2. IsFiniteSet(S0)
    <3>1. 1 \in Int /\ n \in Int
      OBVIOUS
    <3>2. IsFiniteSet(1 .. n)
      BY <3>1, FS_Interval
    <3>. QED BY <2>1, <3>2, FS_Subset
  <2>3. Cardinality(S0) \in Nat /\ Cardinality(S) = Cardinality(S0) + 1
    BY <2>1, <2>2, FS_CardinalityType, FS_AddElement
  <2>. HIDE DEF S0
  <2>4. CASE x \in 1 .. Cardinality(S0)
    <3>1. PICK i \in S0 : Cardinality({j \in S0 : j < i}) + 1 = x
      BY <2>1, <2>4 DEF Ranked
    <3>2. {j \in S : j < i} = {j \in S0 : j < i}
      BY <1>1, <2>1
    <3>. QED BY <2>1, <3>1, <3>2
  <2>5. CASE x = Cardinality(S0) + 1
    <3>1. PICK last : last = n + 1
      OBVIOUS
    <3>2. last \in S /\ \A j \in S : j < last <=> j \in S0
      BY <1>1, <1>3, <2>1, <3>1
    <3>3. {j \in S : j < last} = S0
      BY <2>1, <3>2
    <3>4. Cardinality({j \in S : j < last}) + 1 = x
      BY <2>5, <3>3
    <3>. QED BY <3>2, <3>4, Zenon
  <2>6. x \in 1 .. Cardinality(S0) \/ x = Cardinality(S0) + 1
    BY <2>3
  <2>. QED BY <2>4, <2>5, <2>6
<1>. QED BY <1>2, <1>3

LEMMA RankedStarts ==
  ASSUME NEW k
  PROVE  Ranked(k, 0)
<1>. SUFFICES ASSUME NEW S \in SUBSET (1 .. 0), NEW x \in 1 .. Cardinality(S) PROVE FALSE
  BY DEF Ranked
<1>1. S = {}
  OBVIOUS
<1>2. Cardinality(S) = 0
  BY <1>1, FS_EmptySet
<1>. QED BY <1>2

\* The leading rows are rows.
LEMMA LeadingRows ==
  ASSUME NEW k, MeteringConstants(k), NEW n \in Nat, Ranked(k, n), NEW S \in SUBSET (1 .. n)
  PROVE  Usage(k)!Leading(S, k.size) \in Seq(S)
<1>. DEFINE size == IF Cardinality(S) < k.size THEN Cardinality(S) ELSE k.size
            first(x) == CHOOSE i \in S : Cardinality({j \in S : j < i}) + 1 = x
<1>1. Usage(k)!Leading(S, k.size) = [x \in 1 .. size |-> first(x)]
  BY DEF Usage!Leading, Usage!Cardinality, Cardinality
<1>2. IsFiniteSet(S) /\ Cardinality(S) \in Nat
  <2>1. 1 \in Int /\ n \in Int
    OBVIOUS
  <2>2. IsFiniteSet(1 .. n)
    BY <2>1, FS_Interval
  <2>. QED BY <2>2, FS_Subset, FS_CardinalityType
<1>3. size \in Nat /\ \A x \in 1 .. size : x \in 1 .. Cardinality(S)
  BY <1>2 DEF MeteringConstants
<1>4. ASSUME NEW x \in 1 .. Cardinality(S) PROVE first(x) \in S
  <2>1. \E i \in S : Cardinality({j \in S : j < i}) + 1 = x
    BY DEF Ranked
  <2>. QED BY <2>1, Zenon
<1>. HIDE DEF size, first
<1>5. [x \in 1 .. size |-> first(x)] \in Seq(S)
  <2>1. \A x \in 1 .. size : first(x) \in S
    BY <1>3, <1>4
  <2>. QED BY <1>3, <2>1
<1>. QED BY <1>1, <1>5

LEMMA WiderSequence ==
  ASSUME NEW k, NEW S, NEW T, S \subseteq T, NEW drawn, drawn \in Seq(S)
  PROVE  drawn \in Seq(T)
<1>1. Len(drawn) \in Nat /\ DOMAIN drawn = 1 .. Len(drawn) /\ \A i \in 1 .. Len(drawn) : drawn[i] \in T
  BY SequenceParts
<1>2. drawn = [i \in 1 .. Len(drawn) |-> drawn[i]]
  OBVIOUS
<1>3. drawn \in [1 .. Len(drawn) -> T]
  BY <1>1, <1>2
<1>. QED BY <1>1, <1>3

\* The rows of the outbox stand when it grows.
LEMMA BatchesGrow ==
  ASSUME NEW k, OutboxStands(k), OutboxStands(k)', DrawnStand(k), BooksMove(k)
  PROVE  DrawnStand(k)'
<1>. DEFINE n == Len(outbox)
<1>1. n \in Nat /\ DOMAIN outbox = 1 .. n
  BY EntriesAreCalls
<1>2. SafeCalls(k)' = SafeCalls(k)
  BY DEF SafeCalls, Usage!Delivered, BooksMove
<1>3. CASE UNCHANGED outbox
  BY <1>2, <1>3 DEF DrawnStand, BooksMove
<1>4. CASE Len(outbox') = n + 1 /\ (\A i \in 1 .. n : outbox'[i] = outbox[i]) /\ ~outbox'[n + 1].published
  <2>1. Ranked(k, Len(outbox)')
    BY <1>1, <1>4, RankedGrows DEF DrawnStand
  <2>2. batch' = batch
    BY DEF BooksMove
  <2>3. 1 .. Len(outbox') = (1 .. n) \cup {n + 1}
    BY <1>1, <1>4
  <2>4. ASSUME NEW d \in k.publisher
        PROVE  /\ BatchShape(batch[d]) /\ batch[d].rows \in Seq(1 .. Len(outbox'))
               /\ batch[d].sent \in 0 .. Len(batch[d].rows)
               /\ \A x \in 1 .. batch[d].sent : outbox'[batch[d].rows[x]].call \in SafeCalls(k)'
    <3>1. batch[d].rows \in Seq(1 .. n) /\ batch[d].sent \in 0 .. Len(batch[d].rows)
      BY DEF DrawnStand
    <3>2. Len(batch[d].rows) \in Nat /\ \A x \in 1 .. Len(batch[d].rows) : batch[d].rows[x] \in 1 .. n
      BY <3>1, SequenceParts
    <3>3. \A x \in 1 .. batch[d].sent : x \in 1 .. Len(batch[d].rows)
      BY <3>1, <3>2
    <3>4. \A x \in 1 .. batch[d].sent : outbox'[batch[d].rows[x]] = outbox[batch[d].rows[x]]
      BY <1>4, <3>2, <3>3
    <3>5. \A x \in 1 .. batch[d].sent : outbox[batch[d].rows[x]].call \in SafeCalls(k)
      BY DEF DrawnStand
    <3>6. batch[d].rows \in Seq(1 .. Len(outbox'))
      BY <2>3, <3>1, WiderSequence
    <3>. QED BY <1>2, <3>1, <3>4, <3>5, <3>6 DEF DrawnStand
  <2>5. \A i \in 1 .. Len(outbox') : outbox'[i].published => outbox'[i].call \in SafeCalls(k)'
    BY <1>1, <1>2, <1>4, <2>3 DEF DrawnStand
  <2>. QED BY <2>1, <2>2, <2>4, <2>5 DEF DrawnStand
<1>. QED BY <1>3, <1>4 DEF BooksMove

LEMMA MessagesStay ==
  ASSUME NEW k, MessagesStand(k), BooksMove(k)
  PROVE  MessagesStand(k)'
BY DEF MessagesStand, BooksMove

\* The transport leaves the calls of the outbox, and their sum.
LEMMA SumsSame ==
  ASSUME NEW k, OutboxStands(k), SumsStand(k), UNCHANGED <<call, tree>>, Len(outbox') = Len(outbox),
         \A i \in 1 .. Len(outbox) : outbox'[i].call = outbox[i].call
  PROVE  SumsStand(k)'
<1>1. Len(outbox) \in Nat
  BY EntriesAreCalls
<1>2. ASSUME NEW f PROVE Sums(f)' <=> Sums(f)
  <2>1. \A i \in 0 .. Len(outbox) : i # 0 => i \in 1 .. Len(outbox)
    BY <1>1
  <2>2. \A i \in 0 .. Len(outbox) : i # 0 => call'[outbox'[i].call].usage = call[outbox[i].call].usage
    BY <2>1
  <2>3. [i \in 0 .. Len(outbox) |-> IF i = 0 THEN 0 ELSE f[i - 1] + call'[outbox'[i].call].usage]
        = [i \in 0 .. Len(outbox) |-> IF i = 0 THEN 0 ELSE f[i - 1] + call[outbox[i].call].usage]
    BY <2>2
  <2>. QED BY <2>3, Zenon DEF Sums
<1>. HIDE DEF Sums
<1>. QED BY <1>2 DEF SumsStand

LEMMA BooksIdle ==
  ASSUME NEW k, CallsStand(k), OutboxStands(k), SumsStand(k), UNCHANGED <<call, tree, peak, outbox>>
  PROVE  CallsStand(k)' /\ OutboxStands(k)' /\ SumsStand(k)'
<1>1. CallsStand(k)'
  <2>1. Usage(k)!OnTheirWay' = Usage(k)!OnTheirWay
    BY DEF Usage!OnTheirWay
  <2>2. Cardinality(Usage(k)!OnTheirWay)' = Cardinality(Usage(k)!OnTheirWay)
    BY <2>1
  <2>. QED BY <2>1 DEF CallsStand
<1>2. OutboxStands(k)'
  BY DEF OutboxStands
<1>3. SumsStand(k)'
  BY SumsSame
<1>. QED BY <1>1, <1>2, <1>3

LEMMA BatchesIdle ==
  ASSUME NEW k, DrawnStand(k), UNCHANGED <<batch, outbox>>, SafeCalls(k) \subseteq SafeCalls(k)'
  PROVE  DrawnStand(k)'
BY DEF DrawnStand

\* One publisher's batch is another one.
LEMMA OneBatch ==
  ASSUME NEW k, DrawnStand(k), NEW d \in k.publisher, NEW new, batch' = [batch EXCEPT ![d] = new], UNCHANGED outbox,
         SafeCalls(k) \subseteq SafeCalls(k)',
         BatchShape(new), new.rows \in Seq(1 .. Len(outbox)), new.sent \in 0 .. Len(new.rows),
         \A x \in 1 .. new.sent : outbox[new.rows[x]].call \in SafeCalls(k)'
  PROVE  DrawnStand(k)'
<1>1. batch' = [e \in k.publisher |-> batch'[e]] /\ batch'[d] = new /\ \A e \in k.publisher : e # d => batch'[e] = batch[e]
  BY DEF DrawnStand
<1>2. ASSUME NEW e \in k.publisher
      PROVE  /\ BatchShape(batch'[e]) /\ batch'[e].rows \in Seq(1 .. Len(outbox))
             /\ batch'[e].sent \in 0 .. Len(batch'[e].rows)
             /\ \A x \in 1 .. batch'[e].sent : outbox[batch'[e].rows[x]].call \in SafeCalls(k)'
  <2>1. CASE e = d
    BY <1>1, <2>1
  <2>2. CASE e # d
    BY <1>1, <2>2 DEF DrawnStand
  <2>. QED BY <2>1, <2>2
<1>3. \A i \in 1 .. Len(outbox) : outbox[i].published => outbox[i].call \in SafeCalls(k)'
  BY DEF DrawnStand
<1>. QED BY <1>1, <1>2, <1>3 DEF DrawnStand

LEMMA EmptyBatch ==
  ASSUME NEW k
  PROVE  BatchShape(Usage(k)!NoBatch) /\ Usage(k)!NoBatch.rows = <<>> /\ Usage(k)!NoBatch.sent = 0
           /\ Usage(k)!NoBatch.rows \in Seq(1 .. Len(outbox)) /\ Usage(k)!NoBatch.sent \in 0 .. Len(Usage(k)!NoBatch.rows)
BY DEF Usage!NoBatch, BatchShape

LEMMA BatchFields ==
  ASSUME NEW k, DrawnStand(k), NEW d \in k.publisher
  PROVE  \E drawn, sent : batch[d] = [rows |-> drawn, sent |-> sent] /\ drawn \in Seq(1 .. Len(outbox))
           /\ sent \in 0 .. Len(drawn)
<1>1. PICK old : old = batch[d] /\ BatchShape(old)
  BY DEF DrawnStand
<1>2. PICK r, s : old = [rows |-> r, sent |-> s]
  BY <1>1 DEF BatchShape
<1>3. r = old.rows /\ s = old.sent
  BY <1>2
<1>. QED BY <1>1, <1>2, <1>3 DEF DrawnStand

LEMMA BatchTaken ==
  ASSUME NEW k, MeteringConstants(k), OutboxStands(k), DrawnStand(k), NEW d \in k.publisher, Usage(k)!TakeBatch(d)
  PROVE  DrawnStand(k)'
<1>1. Len(outbox) \in Nat /\ DOMAIN outbox = 1 .. Len(outbox)
  BY EntriesAreCalls
<1>2. Usage(k)!Unpublished \in SUBSET (1 .. Len(outbox))
  BY <1>1 DEF Usage!Unpublished
<1>3. PICK drawn : drawn = Usage(k)!Leading(Usage(k)!Unpublished, k.size)
  OBVIOUS
<1>4. drawn \in Seq(1 .. Len(outbox))
  <2>1. Usage(k)!Leading(Usage(k)!Unpublished, k.size) \in Seq(Usage(k)!Unpublished)
    BY <1>1, <1>2, LeadingRows DEF DrawnStand
  <2>. QED BY <1>2, <1>3, <2>1, WiderSequence
<1>5. PICK old : old = batch[d] /\ old = Usage(k)!NoBatch
  BY DEF Usage!TakeBatch
<1>6. old = [rows |-> <<>>, sent |-> 0]
  BY <1>5 DEF Usage!NoBatch
<1>7. PICK new : new = [old EXCEPT !.rows = drawn]
  OBVIOUS
<1>8. new = [rows |-> drawn, sent |-> 0]
  BY <1>6, <1>7
<1>9. batch' = [batch EXCEPT ![d] = new]
  BY <1>3, <1>5, <1>7, Zenon DEF Usage!TakeBatch
<1>10. BatchShape(new) /\ new.rows = drawn /\ new.sent = 0
  BY <1>8 DEF BatchShape
<1>11. SafeCalls(k)' = SafeCalls(k) /\ UNCHANGED outbox
  BY DEF SafeCalls, Usage!Delivered, Usage!TakeBatch
<1>12. Len(drawn) \in Nat
  BY <1>4, SequenceParts
<1>13. new.rows \in Seq(1 .. Len(outbox)) /\ new.sent \in 0 .. Len(new.rows)
  BY <1>4, <1>10, <1>12
<1>14. \A x \in 1 .. new.sent : outbox[new.rows[x]].call \in SafeCalls(k)'
  BY <1>10
<1>15. SafeCalls(k) \subseteq SafeCalls(k)'
  BY <1>11
<1>. HIDE DEF BatchShape, DrawnStand, SafeCalls
<1>. QED BY <1>9, <1>10, <1>11, <1>13, <1>14, <1>15, OneBatch

LEMMA BatchAbandoned ==
  ASSUME NEW k, DrawnStand(k), NEW d \in k.publisher, batch' = [batch EXCEPT ![d] = Usage(k)!NoBatch],
         UNCHANGED <<outbox, broker, ledger, dropped>>
  PROVE  DrawnStand(k)'
<1>1. SafeCalls(k)' = SafeCalls(k)
  BY DEF SafeCalls, Usage!Delivered
<1>2. BatchShape(Usage(k)!NoBatch) /\ Usage(k)!NoBatch.rows \in Seq(1 .. Len(outbox))
        /\ Usage(k)!NoBatch.sent \in 0 .. Len(Usage(k)!NoBatch.rows) /\ Usage(k)!NoBatch.sent = 0
  BY EmptyBatch
<1>3. PICK none : none = Usage(k)!NoBatch
  OBVIOUS
<1>4. batch' = [batch EXCEPT ![d] = none]
  BY <1>3
<1>5. BatchShape(none) /\ none.rows \in Seq(1 .. Len(outbox)) /\ none.sent \in 0 .. Len(none.rows)
  BY <1>2, <1>3
<1>6. \A x \in 1 .. none.sent : outbox[none.rows[x]].call \in SafeCalls(k)'
  BY <1>2, <1>3
<1>7. SafeCalls(k) \subseteq SafeCalls(k)'
  BY <1>1
<1>. HIDE DEF BatchShape, DrawnStand, SafeCalls
<1>. QED BY <1>4, <1>5, <1>6, <1>7, OneBatch

\* All that is marked has been sent.
LEMMA BatchMarked ==
  ASSUME NEW k, MeteringConstants(k), OutboxStands(k), SumsStand(k), DrawnStand(k), NEW d \in k.publisher,
         Usage(k)!MarkPublished(d), UNCHANGED <<call, tree>>
  PROVE  OutboxStands(k)' /\ SumsStand(k)' /\ DrawnStand(k)'
<1>. DEFINE n == Len(outbox)
<1>1. n \in Nat /\ DOMAIN outbox = 1 .. n /\ \A i \in 1 .. n : outbox[i].call \in k.call
  BY EntriesAreCalls
<1>2. PICK drawn, sent : batch[d] = [rows |-> drawn, sent |-> sent] /\ drawn \in Seq(1 .. n)
  BY BatchFields
<1>3. sent = Len(drawn)
  BY <1>2 DEF Usage!MarkPublished, Usage!SentAll
<1>4. Len(drawn) \in Nat /\ DOMAIN drawn = 1 .. Len(drawn) /\ \A i \in 1 .. Len(drawn) : drawn[i] \in 1 .. n
  BY <1>2, SequenceParts
<1>5. \A x \in 1 .. Len(drawn) : outbox[drawn[x]].call \in SafeCalls(k)
  <2>1. batch[d].rows = drawn /\ batch[d].sent = Len(drawn)
    BY <1>2, <1>3
  <2>. QED BY <2>1 DEF DrawnStand
<1>6. outbox' = [i \in 1 .. n |->
          IF \E x \in 1 .. Len(drawn) : drawn[x] = i THEN [outbox[i] EXCEPT !.published = TRUE] ELSE outbox[i]]
  <2>1. batch[d].rows = drawn
    BY <1>2
  <2>. QED BY <1>1, <1>4, <2>1, Zenon DEF Usage!MarkPublished
<1>7. ASSUME NEW i \in 1 .. n
      PROVE  /\ outbox'[i] \in [call : k.call, published : BOOLEAN] /\ outbox'[i].call = outbox[i].call
             /\ outbox'[i].published => outbox[i].published \/ outbox[i].call \in SafeCalls(k)
  <2>1. PICK S : S = [call : k.call, published : BOOLEAN]
    OBVIOUS
  <2>2. outbox[i] \in S
    BY <1>1, <2>1, SequenceParts DEF OutboxStands
  <2>3. CASE \E x \in 1 .. Len(drawn) : drawn[x] = i
    <3>1. outbox[i].call \in SafeCalls(k)
      BY <1>5, <2>3
    <3>2. PICK old : old = outbox[i]
      OBVIOUS
    <3>3. PICK c, b : old = [call |-> c, published |-> b] /\ c \in k.call
      BY <2>1, <2>2, <3>2
    <3>4. PICK yes : yes = TRUE
      OBVIOUS
    <3>5. PICK new : new = [old EXCEPT !.published = yes]
      OBVIOUS
    <3>6. new = [call |-> c, published |-> yes]
      BY <3>3, <3>5
    <3>7. outbox'[i] = new
      <4>1. outbox'[i] = [outbox[i] EXCEPT !.published = TRUE]
        BY <1>6, <2>3, Zenon
      <4>. QED BY <3>2, <3>4, <3>5, <4>1, Zenon
    <3>8. new \in [call : k.call, published : BOOLEAN] /\ new.call = c /\ old.call = c
      BY <3>3, <3>4, <3>6
    <3>. QED BY <3>1, <3>2, <3>7, <3>8
  <2>4. CASE ~\E x \in 1 .. Len(drawn) : drawn[x] = i
    <3>1. outbox'[i] = outbox[i]
      BY <1>6, <2>4
    <3>. QED BY <2>1, <2>2, <3>1
  <2>. QED BY <2>3, <2>4
<1>8. outbox' = [i \in 1 .. n |-> outbox'[i]]
  BY <1>6
<1>9. outbox' \in Seq([call : k.call, published : BOOLEAN]) /\ Len(outbox') = n
  <2>1. PICK S : S = [call : k.call, published : BOOLEAN]
    OBVIOUS
  <2>2. outbox' \in [1 .. n -> S]
    BY <1>7, <1>8, <2>1
  <2>3. outbox' \in Seq(S) /\ Len(outbox') = n
    BY <1>1, <2>2
  <2>. QED BY <2>1, <2>3
<1>10. OutboxStands(k)'
  <2>1. DOMAIN outbox' = 1 .. n
    BY <1>8
  <2>. QED BY <1>1, <1>7, <1>9, <2>1 DEF OutboxStands
<1>11. SumsStand(k)'
  BY <1>7, <1>9, SumsSame
<1>12. SafeCalls(k)' = SafeCalls(k)
  BY DEF SafeCalls, Usage!Delivered, Usage!MarkPublished
<1>13. DrawnStand(k)'
  <2>1. batch' = [batch EXCEPT ![d] = Usage(k)!NoBatch]
    BY DEF Usage!MarkPublished
  <2>2. batch' = [e \in k.publisher |-> batch'[e]] /\ batch'[d] = Usage(k)!NoBatch /\ \A e \in k.publisher : e # d
          => batch'[e] = batch[e]
    BY <2>1 DEF DrawnStand
  <2>3. ASSUME NEW e \in k.publisher
        PROVE  /\ BatchShape(batch'[e]) /\ batch'[e].rows \in Seq(1 .. n) /\ batch'[e].sent \in 0 .. Len(batch'[e].rows)
               /\ \A x \in 1 .. batch'[e].sent : outbox'[batch'[e].rows[x]].call \in SafeCalls(k)
    <3>1. CASE e = d
      <4>1. BatchShape(Usage(k)!NoBatch) /\ Usage(k)!NoBatch.rows \in Seq(1 .. n)
              /\ Usage(k)!NoBatch.sent \in 0 .. Len(Usage(k)!NoBatch.rows) /\ Usage(k)!NoBatch.sent = 0
        BY EmptyBatch
      <4>. QED BY <2>2, <3>1, <4>1
    <3>2. CASE e # d
      <4>1. PICK r, s : batch[e] = [rows |-> r, sent |-> s] /\ r \in Seq(1 .. n) /\ s \in 0 .. Len(r)
        BY BatchFields
      <4>2. Len(r) \in Nat /\ \A x \in 1 .. Len(r) : r[x] \in 1 .. n
        BY <4>1, SequenceParts
      <4>3. batch[e].rows = r /\ batch[e].sent = s /\ BatchShape(batch[e]) /\ batch'[e] = batch[e]
        BY <2>2, <3>2, <4>1 DEF BatchShape
      <4>4. \A x \in 1 .. s : outbox[r[x]].call \in SafeCalls(k)
        BY <4>3 DEF DrawnStand
      <4>5. \A x \in 1 .. s : r[x] \in 1 .. n
        BY <4>1, <4>2
      <4>6. \A x \in 1 .. s : outbox'[r[x]].call \in SafeCalls(k)
        BY <1>7, <4>4, <4>5
      <4>. QED BY <4>1, <4>3, <4>6
    <3>. QED BY <3>1, <3>2
  <2>4. \A i \in 1 .. n : outbox'[i].published => outbox'[i].call \in SafeCalls(k)
    BY <1>7 DEF DrawnStand
  <2>5. Ranked(k, n)
    BY DEF DrawnStand
  <2>. QED BY <1>9, <1>12, <2>2, <2>3, <2>4, <2>5 DEF DrawnStand
<1>. QED BY <1>10, <1>11, <1>13

\* A row is sent: its call is with the broker.
LEMMA BatchSent ==
  ASSUME NEW k, OutboxStands(k), DrawnStand(k), MessagesStand(k), NEW d \in k.publisher, Usage(k)!Send(d)
  PROVE  DrawnStand(k)' /\ MessagesStand(k)'
<1>1. Len(outbox) \in Nat /\ DOMAIN outbox = 1 .. Len(outbox) /\ \A i \in 1 .. Len(outbox) : outbox[i].call \in k.call
  BY EntriesAreCalls
<1>2. PICK drawn, sent : batch[d] = [rows |-> drawn, sent |-> sent] /\ drawn \in Seq(1 .. Len(outbox))
        /\ sent \in 0 .. Len(drawn)
  BY BatchFields
<1>3. batch[d].rows = drawn /\ batch[d].sent = sent
  BY <1>2
<1>4. PICK m \in Usage(k)!Free : /\ batch[d].sent < Len(batch[d].rows)
                                 /\ broker' = [broker EXCEPT ![m] = [call |-> outbox[batch[d].rows[batch[d].sent + 1]].call,
                                         at |-> "ready"]]
                                 /\ batch' = [batch EXCEPT ![d].sent = @ + 1]
                                 /\ UNCHANGED <<outbox, consumer, attempts, ledger, dropped, crashes>>
                                 /\ UNCHANGED Usage(k)!books
  BY Zenon DEF Usage!Send
<1>5. Len(drawn) \in Nat /\ \A x \in 1 .. Len(drawn) : drawn[x] \in 1 .. Len(outbox)
  BY <1>2, SequenceParts
<1>6. sent + 1 \in 1 .. Len(drawn) /\ sent + 1 \in 0 .. Len(drawn) /\ 1 .. sent + 1 = (1 .. sent) \cup {sent + 1}
  BY <1>2, <1>3, <1>4, <1>5
<1>7. PICK c : c = outbox[drawn[sent + 1]].call /\ c \in k.call /\ call[c].at = "charged"
  BY <1>1, <1>5, <1>6 DEF OutboxStands
<1>8. PICK row : row = [call |-> c, at |-> "ready"]
  OBVIOUS
<1>9. broker' = [broker EXCEPT ![m] = row]
  BY <1>3, <1>4, <1>7, <1>8, Zenon
<1>10. m \in Usage(k)!Message /\ broker[m].at = "none"
  BY <1>4 DEF Usage!Free
<1>11. broker' = [x \in Usage(k)!Message |-> broker'[x]] /\ broker'[m] = row /\ \A x \in Usage(k)!Message : x # m
         => broker'[x] = broker[x]
  BY <1>9, <1>10 DEF MessagesStand
<1>12. MessageShape(row) /\ row.call = c /\ row.at = "ready"
  BY <1>8 DEF MessageShape
<1>13. UNCHANGED <<outbox, consumer, ledger, dropped, call>>
  BY <1>4 DEF Usage!books
<1>14. MessagesStand(k)'
  <2>1. \A x \in Usage(k)!Message : MessageShape(broker'[x])
          /\ (broker'[x].at # "none" => broker'[x].call \in k.call /\ call[broker'[x].call].at = "charged")
    BY <1>7, <1>11, <1>12 DEF MessagesStand
  <2>2. \A x \in Usage(k)!Message : broker[x].at # "none" => broker'[x] = broker[x]
    BY <1>10, <1>11
  <2>. QED BY <1>11, <1>13, <2>1, <2>2 DEF MessagesStand
<1>15. Usage(k)!Delivered(c)'
  BY <1>10, <1>11, <1>12 DEF Usage!Delivered
<1>16. SafeCalls(k) \subseteq SafeCalls(k)' /\ c \in SafeCalls(k)'
  <2>1. ASSUME NEW x \in k.call, Usage(k)!Delivered(x) PROVE Usage(k)!Delivered(x)'
    <3>1. PICK m0 \in Usage(k)!Message : broker[m0].call = x /\ broker[m0].at \in {"ready", "taken"}
      BY <2>1 DEF Usage!Delivered
    <3>2. broker'[m0] = broker[m0]
      BY <1>10, <1>11, <3>1
    <3>. QED BY <3>1, <3>2 DEF Usage!Delivered
  <2>. QED BY <1>7, <1>13, <1>15, <2>1 DEF SafeCalls
<1>17. PICK new : new = [batch[d] EXCEPT !.sent = @ + 1]
  OBVIOUS
<1>18. new = [rows |-> drawn, sent |-> sent + 1]
  BY <1>2, <1>17
<1>19. batch' = [batch EXCEPT ![d] = new]
  BY <1>4, <1>17, Zenon
<1>20. BatchShape(new) /\ new.rows = drawn /\ new.sent = sent + 1
  BY <1>18 DEF BatchShape
<1>21. new.rows \in Seq(1 .. Len(outbox)) /\ new.sent \in 0 .. Len(new.rows)
  BY <1>2, <1>6, <1>20
<1>22. \A x \in 1 .. new.sent : outbox[new.rows[x]].call \in SafeCalls(k)'
  <2>1. \A x \in 1 .. sent : outbox[drawn[x]].call \in SafeCalls(k)
    BY <1>3 DEF DrawnStand
  <2>. QED BY <1>6, <1>7, <1>16, <1>20, <2>1
<1>23. DrawnStand(k)'
  <2>. HIDE DEF BatchShape, DrawnStand, SafeCalls
  <2>. QED BY <1>13, <1>16, <1>19, <1>20, <1>21, <1>22, OneBatch
<1>. QED BY <1>14, <1>23

\* A message keeps its call, and does not become free again.
BrokerMoves(k) ==
  /\ broker' = [m \in Usage(k)!Message |-> broker'[m]] /\ \A m \in Usage(k)!Message : MessageShape(broker'[m])
  /\ \A m \in Usage(k)!Message : broker[m].at # "none" => broker'[m].at # "none"
  /\ \A m \in Usage(k)!Message : broker'[m].call = broker[m].call /\ (broker'[m].at # "none" => broker[m].at # "none")

\* A row of the ledger stays, and is written for what was charged.
LedgerMoves(k) ==
  /\ ledger' \in [k.call -> {0, 1}]
  /\ \A c \in k.call : (ledger[c] = 1 => ledger'[c] = 1) /\ (ledger'[c] = 1 => call[c].at = "charged")

LEMMA BrokerStays ==
  ASSUME NEW k, MessagesStand(k), UNCHANGED broker
  PROVE  BrokerMoves(k)
BY DEF MessagesStand, BrokerMoves

LEMMA LedgerStays ==
  ASSUME NEW k, MessagesStand(k), UNCHANGED ledger
  PROVE  LedgerMoves(k)
BY DEF MessagesStand, LedgerMoves

LEMMA MessageGoesTo ==
  ASSUME NEW k, MessagesStand(k), NEW m \in Usage(k)!Message, NEW s, s # "none", broker[m].at # "none",
         broker' = [broker EXCEPT ![m].at = s]
  PROVE  BrokerMoves(k) /\ broker'[m].at = s /\ \A x \in Usage(k)!Message : x # m => broker'[x] = broker[x]
<1>1. PICK old : old = broker[m] /\ MessageShape(old)
  BY DEF MessagesStand
<1>2. PICK c, a : old = [call |-> c, at |-> a]
  BY <1>1 DEF MessageShape
<1>3. PICK new : new = [old EXCEPT !.at = s]
  OBVIOUS
<1>4. new = [call |-> c, at |-> s]
  BY <1>2, <1>3
<1>5. broker' = [broker EXCEPT ![m] = new]
  BY <1>1, <1>3, Zenon
<1>6. MessageShape(new) /\ new.call = c /\ new.at = s /\ old.call = c
  BY <1>2, <1>4 DEF MessageShape
<1>7. broker' = [x \in Usage(k)!Message |-> broker'[x]] /\ broker'[m] = new /\ \A x \in Usage(k)!Message : x # m
        => broker'[x] = broker[x]
  BY <1>5 DEF MessagesStand
<1>. QED BY <1>1, <1>6, <1>7 DEF BrokerMoves, MessagesStand

LEMMA HandFields ==
  ASSUME NEW k, MessagesStand(k), NEW w \in k.consumer
  PROVE  \E m, b : consumer[w] = [message |-> m, written |-> b]
<1>1. PICK old : old = consumer[w] /\ HandShape(old)
  BY DEF MessagesStand
<1>. QED BY <1>1 DEF HandShape

LEMMA EmptyHand ==
  ASSUME NEW k
  PROVE  HandShape(Usage(k)!NothingInHand) /\ Usage(k)!NothingInHand.message = Usage(k)!None
           /\ ~Usage(k)!NothingInHand.written
<1>1. PICK no : no = FALSE
  OBVIOUS
<1>2. PICK empty : empty = [message |-> Usage(k)!None, written |-> no]
  OBVIOUS
<1>3. empty = Usage(k)!NothingInHand
  BY <1>1, <1>2, Zenon DEF Usage!NothingInHand
<1>4. HandShape(empty) /\ empty.message = Usage(k)!None /\ ~empty.written
  BY <1>1, <1>2 DEF HandShape
<1>. QED BY <1>3, <1>4

\* What the consumers hold.
LEMMA HandsStand ==
  ASSUME NEW k, MessagesStand(k), BrokerMoves(k), LedgerMoves(k), UNCHANGED call, NEW w \in k.consumer, NEW new,
         consumer' = [consumer EXCEPT ![w] = new],
         HandShape(new), new.message # Usage(k)!None => new.message \in Usage(k)!Message /\ broker'[new.message].at # "none",
         new.written => new.message # Usage(k)!None /\ ledger'[broker'[new.message].call] = 1
  PROVE  MessagesStand(k)'
<1>1. consumer' = [x \in k.consumer |-> consumer'[x]] /\ consumer'[w] = new /\ \A x \in k.consumer : x # w
        => consumer'[x] = consumer[x]
  BY DEF MessagesStand
<1>2. \A m \in Usage(k)!Message : broker'[m].at # "none" => broker'[m].call \in k.call /\ call[broker'[m].call].at = "charged"
  BY DEF MessagesStand, BrokerMoves
<1>3. ASSUME NEW x \in k.consumer
      PROVE  /\ HandShape(consumer'[x])
             /\ (consumer'[x].message # Usage(k)!None
                  => consumer'[x].message \in Usage(k)!Message /\ broker'[consumer'[x].message].at # "none")
             /\ consumer'[x].written
                  => consumer'[x].message # Usage(k)!None /\ ledger'[broker'[consumer'[x].message].call] = 1
  <2>1. CASE x = w
    BY <1>1, <2>1
  <2>2. CASE x # w
    <3>1. PICK h : h = consumer[x] /\ h = consumer'[x]
      BY <1>1, <2>2
    <3>2. /\ HandShape(h) /\ (h.message # Usage(k)!None => h.message \in Usage(k)!Message /\ broker[h.message].at # "none")
          /\ h.written => h.message # Usage(k)!None /\ ledger[broker[h.message].call] = 1
      BY <3>1 DEF MessagesStand
    <3>3. h.message # Usage(k)!None
            => broker'[h.message].at # "none" /\ broker'[h.message].call = broker[h.message].call
              /\ broker[h.message].call \in k.call
      BY <3>2 DEF BrokerMoves, MessagesStand
    <3>4. h.written => ledger'[broker'[h.message].call] = 1
      BY <3>2, <3>3 DEF LedgerMoves
    <3>. QED BY <3>1, <3>2, <3>3, <3>4
  <2>. QED BY <2>1, <2>2
<1>. QED BY <1>1, <1>2, <1>3 DEF MessagesStand, BrokerMoves, LedgerMoves

LEMMA HandsIdle ==
  ASSUME NEW k, MessagesStand(k), BrokerMoves(k), UNCHANGED <<call, consumer, ledger>>
  PROVE  MessagesStand(k)'
<1>1. \A m \in Usage(k)!Message : broker'[m].at # "none" => broker'[m].call \in k.call /\ call[broker'[m].call].at = "charged"
  BY DEF MessagesStand, BrokerMoves
<1>2. ASSUME NEW x \in k.consumer
      PROVE  /\ HandShape(consumer[x])
             /\ (consumer[x].message # Usage(k)!None
                  => consumer[x].message \in Usage(k)!Message /\ broker'[consumer[x].message].at # "none")
             /\ consumer[x].written => consumer[x].message # Usage(k)!None /\ ledger[broker'[consumer[x].message].call] = 1
  BY DEF MessagesStand, BrokerMoves
<1>. QED BY <1>1, <1>2 DEF MessagesStand, BrokerMoves

\* What is with the broker stays safe unless its message is acknowledged, and then its call is in the ledger or was given up.
LEMMA SafeStays ==
  ASSUME NEW k, MessagesStand(k), NEW m \in Usage(k)!Message, \A x \in Usage(k)!Message : x # m => broker'[x] = broker[x],
         broker'[m].call = broker[m].call, dropped \subseteq dropped',
         \A c \in k.call : ledger[c] = 1 => ledger'[c] = 1,
         broker'[m].at \in {"ready", "taken"} \/ broker[m].call \in dropped' \/ ledger'[broker[m].call] = 1
  PROVE  SafeCalls(k) \subseteq SafeCalls(k)'
<1>1. ASSUME NEW c \in k.call, Usage(k)!Delivered(c) PROVE Usage(k)!Delivered(c)' \/ ledger'[c] = 1 \/ c \in dropped'
  <2>1. PICK x \in Usage(k)!Message : broker[x].call = c /\ broker[x].at \in {"ready", "taken"}
    BY <1>1 DEF Usage!Delivered
  <2>2. CASE x # m
    BY <2>1, <2>2 DEF Usage!Delivered
  <2>3. CASE x = m
    BY <2>1, <2>3 DEF Usage!Delivered
  <2>. QED BY <2>2, <2>3
<1>. QED BY <1>1 DEF SafeCalls

LEMMA MessageReceived ==
  ASSUME NEW k, MessagesStand(k), NEW w \in k.consumer, NEW m \in Usage(k)!Message, Usage(k)!Receive(w, m)
  PROVE  MessagesStand(k)' /\ SafeCalls(k) \subseteq SafeCalls(k)'
<1>1. /\ consumer[w] = Usage(k)!NothingInHand /\ broker[m].at = "ready" /\ broker' = [broker EXCEPT ![m].at = "taken"]
      /\ consumer' = [consumer EXCEPT ![w].message = m] /\ UNCHANGED <<ledger, dropped, call>>
  BY DEF Usage!Receive, Usage!books
<1>2. BrokerMoves(k) /\ broker'[m].at = "taken" /\ \A x \in Usage(k)!Message : x # m => broker'[x] = broker[x]
  BY <1>1, MessageGoesTo
<1>3. LedgerMoves(k)
  BY <1>1, LedgerStays
<1>4. PICK no : no = FALSE
  OBVIOUS
<1>5. PICK old : old = consumer[w] /\ old = [message |-> Usage(k)!None, written |-> no]
  BY <1>1, <1>4, Zenon DEF Usage!NothingInHand
<1>6. PICK new : new = [old EXCEPT !.message = m]
  OBVIOUS
<1>7. new = [message |-> m, written |-> no]
  BY <1>5, <1>6
<1>8. consumer' = [consumer EXCEPT ![w] = new]
  BY <1>1, <1>5, <1>6, Zenon
<1>9. HandShape(new) /\ new.message = m /\ ~new.written
  BY <1>4, <1>7 DEF HandShape
<1>10. broker'[new.message].at # "none" /\ new.message \in Usage(k)!Message
  BY <1>2, <1>9
<1>11. MessagesStand(k)'
  <2>. HIDE DEF HandShape, MessagesStand, BrokerMoves, LedgerMoves
  <2>. QED BY <1>1, <1>2, <1>3, <1>8, <1>9, <1>10, HandsStand
<1>12. broker'[m].call = broker[m].call
  BY <1>2 DEF BrokerMoves
<1>. QED BY <1>1, <1>2, <1>11, <1>12, SafeStays

LEMMA MessageRedelivered ==
  ASSUME NEW k, MessagesStand(k), NEW m \in Usage(k)!Message, Usage(k)!Redeliver(m)
  PROVE  MessagesStand(k)' /\ SafeCalls(k) \subseteq SafeCalls(k)'
<1>1. /\ broker[m].at = "taken" /\ broker' = [broker EXCEPT ![m].at = "ready"]
      /\ UNCHANGED <<consumer, ledger, dropped, call>>
  BY DEF Usage!Redeliver, Usage!books
<1>2. BrokerMoves(k) /\ broker'[m].at = "ready" /\ \A x \in Usage(k)!Message : x # m => broker'[x] = broker[x]
  BY <1>1, MessageGoesTo
<1>3. MessagesStand(k)'
  BY <1>1, <1>2, HandsIdle
<1>4. broker'[m].call = broker[m].call
  BY <1>2 DEF BrokerMoves
<1>. QED BY <1>1, <1>2, <1>3, <1>4, SafeStays

LEMMA MessageInserted ==
  ASSUME NEW k, MessagesStand(k), NEW w \in k.consumer, Usage(k)!Insert(w)
  PROVE  MessagesStand(k)' /\ SafeCalls(k) \subseteq SafeCalls(k)'
<1>1. PICK m, b : consumer[w] = [message |-> m, written |-> b]
  BY HandFields
<1>2. consumer[w].message = m
  BY <1>1
<1>3. PICK c : c = broker[m].call
  OBVIOUS
<1>4. /\ m # Usage(k)!None /\ ledger' = [ledger EXCEPT ![c] = Usage(k)!Written(c)]
      /\ consumer' = [consumer EXCEPT ![w].written = TRUE]
      /\ UNCHANGED <<broker, dropped, call>>
  BY <1>2, <1>3, Zenon DEF Usage!Insert, Usage!books
<1>5. m \in Usage(k)!Message /\ broker[m].at # "none" /\ c \in k.call /\ call[c].at = "charged"
  BY <1>2, <1>3, <1>4 DEF MessagesStand
<1>6. ledger' = [ledger EXCEPT ![c] = 1]
  BY <1>4, <1>5 DEF Usage!Written, MessagesStand
<1>7. LedgerMoves(k) /\ ledger'[c] = 1
  BY <1>5, <1>6 DEF LedgerMoves, MessagesStand
<1>8. BrokerMoves(k)
  BY <1>4, BrokerStays
<1>9. PICK yes : yes = TRUE
  OBVIOUS
<1>10. PICK old : old = consumer[w]
  OBVIOUS
<1>11. PICK new : new = [old EXCEPT !.written = yes]
  OBVIOUS
<1>12. new = [message |-> m, written |-> yes]
  BY <1>1, <1>10, <1>11
<1>13. consumer' = [consumer EXCEPT ![w] = new]
  BY <1>4, <1>9, <1>10, <1>11, Zenon
<1>14. HandShape(new) /\ new.message = m
  BY <1>12 DEF HandShape
<1>15. broker'[new.message].at # "none" /\ new.message \in Usage(k)!Message /\ new.message # Usage(k)!None
         /\ ledger'[broker'[new.message].call] = 1
  BY <1>3, <1>4, <1>5, <1>7, <1>14
<1>16. MessagesStand(k)'
  <2>. HIDE DEF HandShape, MessagesStand, BrokerMoves, LedgerMoves
  <2>. QED BY <1>4, <1>7, <1>8, <1>13, <1>14, <1>15, HandsStand
<1>17. \A x \in k.call : ledger[x] = 1 => ledger'[x] = 1
  BY <1>7 DEF LedgerMoves
<1>. QED BY <1>3, <1>4, <1>5, <1>7, <1>16, <1>17, SafeStays

LEMMA HandIsEmptied ==
  ASSUME NEW k, MessagesStand(k), BrokerMoves(k), UNCHANGED <<call, ledger>>, NEW w \in k.consumer,
         consumer' = [consumer EXCEPT ![w] = Usage(k)!NothingInHand]
  PROVE  MessagesStand(k)'
<1>1. PICK new : new = Usage(k)!NothingInHand
  OBVIOUS
<1>2. HandShape(new) /\ new.message = Usage(k)!None /\ ~new.written
  BY <1>1, EmptyHand
<1>3. LedgerMoves(k)
  BY LedgerStays
<1>4. consumer' = [consumer EXCEPT ![w] = new]
  BY <1>1
<1>. HIDE DEF HandShape, MessagesStand, BrokerMoves, LedgerMoves
<1>. QED BY <1>2, <1>3, <1>4, HandsStand

LEMMA InsertionFailed ==
  ASSUME NEW k, MessagesStand(k), NEW w \in k.consumer, Usage(k)!InsertFails(w)
  PROVE  MessagesStand(k)' /\ SafeCalls(k) \subseteq SafeCalls(k)'
<1>1. PICK m : m = consumer[w].message
  OBVIOUS
<1>2. /\ m # Usage(k)!None /\ consumer' = [consumer EXCEPT ![w] = Usage(k)!NothingInHand] /\ UNCHANGED <<ledger, call>>
      /\ \/ UNCHANGED <<broker, dropped>>
         \/ dropped' = dropped \cup {broker[m].call} /\ broker' = [broker EXCEPT ![m].at = "acked"]
  BY <1>1 DEF Usage!InsertFails, Usage!books
<1>3. m \in Usage(k)!Message /\ broker[m].at # "none"
  BY <1>1, <1>2 DEF MessagesStand
<1>4. CASE UNCHANGED <<broker, dropped>>
  <2>1. MessagesStand(k)'
    BY <1>2, <1>4, BrokerStays, HandIsEmptied
  <2>2. SafeCalls(k)' = SafeCalls(k)
    BY <1>2, <1>4 DEF SafeCalls, Usage!Delivered
  <2>. QED BY <2>1, <2>2
<1>5. CASE dropped' = dropped \cup {broker[m].call} /\ broker' = [broker EXCEPT ![m].at = "acked"]
  <2>1. BrokerMoves(k) /\ \A x \in Usage(k)!Message : x # m => broker'[x] = broker[x]
    BY <1>3, <1>5, MessageGoesTo
  <2>2. MessagesStand(k)'
    BY <1>2, <2>1, HandIsEmptied
  <2>3. broker'[m].call = broker[m].call
    BY <1>3, <2>1 DEF BrokerMoves
  <2>. QED BY <1>2, <1>3, <1>5, <2>1, <2>2, <2>3, SafeStays
<1>. QED BY <1>2, <1>4, <1>5

LEMMA MessageAcknowledged ==
  ASSUME NEW k, MessagesStand(k), NEW w \in k.consumer, NEW arrives \in BOOLEAN, Usage(k)!Ack(w, arrives)
  PROVE  MessagesStand(k)' /\ SafeCalls(k) \subseteq SafeCalls(k)'
<1>1. PICK m : m = consumer[w].message
  OBVIOUS
<1>2. /\ consumer[w].written /\ consumer' = [consumer EXCEPT ![w] = Usage(k)!NothingInHand]
      /\ UNCHANGED <<ledger, call, dropped>>
      /\ (UNCHANGED broker \/ broker' = [broker EXCEPT ![m].at = "acked"])
  BY <1>1 DEF Usage!Ack, Usage!books
<1>3. m \in Usage(k)!Message /\ broker[m].at # "none" /\ ledger[broker[m].call] = 1
  BY <1>1, <1>2 DEF MessagesStand
<1>4. CASE UNCHANGED broker
  <2>1. MessagesStand(k)'
    BY <1>2, <1>4, BrokerStays, HandIsEmptied
  <2>2. SafeCalls(k)' = SafeCalls(k)
    BY <1>2, <1>4 DEF SafeCalls, Usage!Delivered
  <2>. QED BY <2>1, <2>2
<1>5. CASE broker' = [broker EXCEPT ![m].at = "acked"]
  <2>1. BrokerMoves(k) /\ \A x \in Usage(k)!Message : x # m => broker'[x] = broker[x]
    BY <1>3, <1>5, MessageGoesTo
  <2>2. MessagesStand(k)'
    BY <1>2, <2>1, HandIsEmptied
  <2>3. broker'[m].call = broker[m].call
    BY <1>3, <2>1 DEF BrokerMoves
  <2>. QED BY <1>2, <1>3, <1>5, <2>1, <2>2, <2>3, SafeStays
<1>. QED BY <1>2, <1>4, <1>5

LEMMA ConsumerRestarts ==
  ASSUME NEW k, MessagesStand(k), NEW w \in k.consumer, Usage(k)!Restart(w)
  PROVE  MessagesStand(k)' /\ SafeCalls(k) \subseteq SafeCalls(k)'
<1>1. consumer' = [consumer EXCEPT ![w] = Usage(k)!NothingInHand] /\ UNCHANGED <<broker, ledger, call, dropped>>
  BY DEF Usage!Restart, Usage!books
<1>2. MessagesStand(k)'
  BY <1>1, BrokerStays, HandIsEmptied
<1>3. SafeCalls(k)' = SafeCalls(k)
  BY <1>1 DEF SafeCalls, Usage!Delivered
<1>. QED BY <1>2, <1>3

\* The transport leaves the calls and the outbox when it is the consumers' turn.
LEMMA ConsumersKeep ==
  ASSUME NEW k, MeteringInv(k),
         \/ \E w \in k.consumer : Usage(k)!Consume(w) \/ Usage(k)!Restart(w)
              \/ \E m \in Usage(k)!Message : Usage(k)!Receive(w, m)
         \/ \E m \in Usage(k)!Message : Usage(k)!Redeliver(m)
  PROVE  MeteringInv(k)'
<1>1. MessagesStand(k) /\ DrawnStand(k) /\ CallsStand(k) /\ OutboxStands(k) /\ SumsStand(k)
  BY DEF MeteringInv
<1>2. UNCHANGED <<batch, outbox, call, tree, peak>>
  BY DEF Usage!Consume, Usage!Insert, Usage!InsertFails, Usage!Ack, Usage!Restart, Usage!Receive, Usage!Redeliver, Usage!books
<1>3. MessagesStand(k)' /\ SafeCalls(k) \subseteq SafeCalls(k)'
  <2>1. ASSUME NEW w \in k.consumer, Usage(k)!Consume(w) \/ Usage(k)!Restart(w)
        PROVE  MessagesStand(k)' /\ SafeCalls(k) \subseteq SafeCalls(k)'
    <3>1. TRUE \in BOOLEAN /\ FALSE \in BOOLEAN
      OBVIOUS
    <3>2. CASE Usage(k)!Insert(w)
      BY <1>1, <3>2, MessageInserted
    <3>3. CASE Usage(k)!InsertFails(w)
      BY <1>1, <3>3, InsertionFailed
    <3>4. CASE Usage(k)!Ack(w, TRUE)
      BY <1>1, <3>1, <3>4, MessageAcknowledged
    <3>5. CASE Usage(k)!Ack(w, FALSE)
      BY <1>1, <3>1, <3>5, MessageAcknowledged
    <3>6. CASE Usage(k)!Restart(w)
      BY <1>1, <3>6, ConsumerRestarts
    <3>. QED BY <2>1, <3>2, <3>3, <3>4, <3>5, <3>6 DEF Usage!Consume
  <2>2. ASSUME NEW w \in k.consumer, NEW m \in Usage(k)!Message, Usage(k)!Receive(w, m)
        PROVE  MessagesStand(k)' /\ SafeCalls(k) \subseteq SafeCalls(k)'
    BY <1>1, <2>2, MessageReceived
  <2>3. ASSUME NEW m \in Usage(k)!Message, Usage(k)!Redeliver(m)
        PROVE  MessagesStand(k)' /\ SafeCalls(k) \subseteq SafeCalls(k)'
    BY <1>1, <2>3, MessageRedelivered
  <2>. QED BY <2>1, <2>2, <2>3
<1>. QED BY <1>1, <1>2, <1>3, BatchesIdle, BooksIdle DEF MeteringInv

LEMMA PublishersKeep ==
  ASSUME NEW k, MeteringConstants(k), MeteringInv(k), NEW d \in k.publisher, Usage(k)!Publish(d) \/ Usage(k)!AbandonBatch(d)
  PROVE  MeteringInv(k)'
<1>1. MessagesStand(k) /\ DrawnStand(k) /\ CallsStand(k) /\ OutboxStands(k) /\ SumsStand(k)
  BY DEF MeteringInv
<1>2. UNCHANGED <<call, tree, peak>>
  BY DEF Usage!Publish, Usage!TakeBatch, Usage!Send, Usage!MarkPublished, Usage!AbandonBatch, Usage!books
<1>3. CASE Usage(k)!TakeBatch(d)
  <2>1. UNCHANGED <<outbox, broker, consumer, ledger>>
    BY <1>3 DEF Usage!TakeBatch
  <2>. QED BY <1>1, <1>2, <1>3, <2>1, BatchTaken, BooksIdle, BrokerStays, HandsIdle DEF MeteringInv
<1>4. CASE Usage(k)!AbandonBatch(d)
  <2>1. UNCHANGED <<outbox, broker, consumer, ledger, dropped>> /\ batch' = [batch EXCEPT ![d] = Usage(k)!NoBatch]
    BY <1>4 DEF Usage!AbandonBatch
  <2>. QED BY <1>1, <1>2, <2>1, BatchAbandoned, BooksIdle, BrokerStays, HandsIdle DEF MeteringInv
<1>5. CASE Usage(k)!Send(d)
  <2>1. UNCHANGED outbox
    BY <1>5 DEF Usage!Send
  <2>. QED BY <1>1, <1>2, <1>5, <2>1, BatchSent, BooksIdle DEF MeteringInv
<1>6. CASE Usage(k)!MarkPublished(d)
  <2>1. UNCHANGED <<broker, consumer, ledger>>
    BY <1>6 DEF Usage!MarkPublished
  <2>2. MessagesStand(k)'
    BY <1>1, <1>2, <2>1, BrokerStays, HandsIdle
  <2>3. OutboxStands(k)' /\ SumsStand(k)' /\ DrawnStand(k)'
    BY <1>1, <1>2, <1>6, BatchMarked
  <2>4. CallsStand(k)'
    <3>1. Usage(k)!OnTheirWay' = Usage(k)!OnTheirWay
      BY <1>2 DEF Usage!OnTheirWay
    <3>2. Cardinality(Usage(k)!OnTheirWay)' = Cardinality(Usage(k)!OnTheirWay)
      BY <3>1
    <3>. QED BY <1>1, <1>2, <3>1, <3>2 DEF CallsStand
  <2>. QED BY <2>2, <2>3, <2>4 DEF MeteringInv
<1>. QED BY <1>3, <1>4, <1>5, <1>6 DEF Usage!Publish

LEMMA MeteringKeeps ==
  ASSUME NEW k, MeteringConstants(k), MeteringInv(k), [Usage(k)!MeteringNext]_(Usage(k)!meteringVars)
  PROVE  MeteringInv(k)'
<1>1. MessagesStand(k) /\ DrawnStand(k) /\ CallsStand(k) /\ OutboxStands(k) /\ SumsStand(k)
  BY DEF MeteringInv
<1>2. ASSUME NEW c \in k.call,
             \/ Usage(k)!Reserve(c) \/ Usage(k)!Unanswered(c) \/ Usage(k)!Disconnect(c) \/ Usage(k)!Commit(c)
                  \/ Usage(k)!CommitFails(c) \/ \E u \in k.usage : Usage(k)!Answer(c, u)
      PROVE  MeteringInv(k)'
  <2>1. CallsStand(k)' /\ OutboxStands(k)' /\ SumsStand(k)' /\ BooksMove(k)
    BY <1>1, <1>2, BooksAreKept
  <2>. QED BY <1>1, <2>1, BatchesGrow, MessagesStay DEF MeteringInv
<1>3. CASE UNCHANGED Usage(k)!meteringVars
  <2>1. UNCHANGED <<tree, call, outbox, batch, broker, consumer, ledger, dropped, peak>>
    BY <1>3 DEF Usage!meteringVars
  <2>2. SafeCalls(k)' = SafeCalls(k)
    BY <2>1 DEF SafeCalls, Usage!Delivered
  <2>3. MessagesStand(k)'
    BY <1>1, <2>1, BrokerStays, HandsIdle
  <2>. QED BY <1>1, <2>1, <2>2, <2>3, BatchesIdle, BooksIdle DEF MeteringInv
<1>. QED BY <1>2, <1>3, ConsumersKeep, PublishersKeep DEF Usage!MeteringNext

LEMMA MeteringStarts ==
  ASSUME NEW k, MeteringConstants(k), Usage(k)!MeteringInit
  PROVE  MeteringInv(k)
<1>1. PICK no : no = FALSE
  OBVIOUS
<1>2. PICK idle : idle = [at |-> "idle", usage |-> Usage(k)!None, gone |-> no]
  OBVIOUS
<1>3. call = [c \in k.call |-> idle]
  BY <1>1, <1>2, Zenon DEF Usage!MeteringInit
<1>4. CallShape(idle) /\ idle.at = "idle" /\ idle.usage = 0
  BY <1>2 DEF CallShape, Usage!None
<1>5. Cardinality(Usage(k)!OnTheirWay) = 0
  <2>1. Usage(k)!OnTheirWay = {}
    BY <1>3, <1>4 DEF Usage!OnTheirWay
  <2>. QED BY <2>1, FS_EmptySet
<1>6. outbox = <<>> /\ peak = 0 /\ tree = [t \in k.tree |-> k.total]
  BY DEF Usage!MeteringInit
<1>7. CallsStand(k)
  <2>1. Floor(k, 0) = 2 - k.overdraft
    BY FloorSteps
  <2>2. \A t \in k.tree : tree[t] >= Floor(k, 0)
    BY <1>6, <2>1 DEF MeteringConstants
  <2>. QED BY <1>3, <1>4, <1>5, <1>6, <2>2 DEF CallsStand, MeteringConstants
<1>8. OutboxStands(k)
  BY <1>6 DEF OutboxStands
<1>9. SumsStand(k)
  <2>1. Len(outbox) = 0 /\ 0 .. 0 = {0}
    BY <1>6
  <2>2. \A f : Sums(f) <=> f = [i \in 0 .. 0 |-> IF i = 0 THEN 0 ELSE f[i - 1] + call[outbox[i].call].usage]
    BY <2>1, Zenon DEF Sums
  <2>3. \A f : Sums(f) => f[0] = 0
    BY <2>1, <2>2
  <2>4. \E f : Sums(f)
    <3>1. PICK f : f = [i \in 0 .. 0 |-> 0]
      OBVIOUS
    <3>2. f = [i \in 0 .. 0 |-> IF i = 0 THEN 0 ELSE f[i - 1] + call[outbox[i].call].usage]
      BY <2>1, <3>1
    <3>. QED BY <2>2, <3>2, Zenon
  <2>. HIDE DEF Sums
  <2>. QED BY <1>6, <2>1, <2>3, <2>4 DEF SumsStand, MeteringConstants
<1>10. PICK empty : empty = Usage(k)!NoBatch
  OBVIOUS
<1>11. batch = [d \in k.publisher |-> empty]
  BY <1>10 DEF Usage!MeteringInit
<1>12. BatchShape(empty) /\ empty.rows \in Seq(1 .. Len(outbox)) /\ empty.sent \in 0 .. Len(empty.rows) /\ empty.sent = 0
  BY <1>10, EmptyBatch
<1>13. DrawnStand(k)
  <2>1. Ranked(k, Len(outbox)) /\ Len(outbox) = 0
    BY <1>6, RankedStarts
  <2>. QED BY <1>11, <1>12, <2>1 DEF DrawnStand
<1>14. PICK free : free = [call |-> Usage(k)!None, at |-> "none"]
  OBVIOUS
<1>15. broker = [m \in Usage(k)!Message |-> free] /\ MessageShape(free) /\ free.at = "none"
  BY <1>14 DEF Usage!MeteringInit, MessageShape
<1>16. PICK hand : hand = Usage(k)!NothingInHand /\ HandShape(hand) /\ hand.message = Usage(k)!None /\ ~hand.written
  BY EmptyHand
<1>17. consumer = [w \in k.consumer |-> hand] /\ ledger = [c \in k.call |-> 0]
  BY <1>16 DEF Usage!MeteringInit
<1>18. MessagesStand(k)
  BY <1>14, <1>15, <1>16, <1>17 DEF MessagesStand
<1>. QED BY <1>7, <1>8, <1>9, <1>13, <1>18 DEF MeteringInv

LEMMA MeteringIsSound ==
  ASSUME NEW k, MeteringConstants(k), MeteringInv(k)
  PROVE  Usage(k)!MeteringHolds
<1>1. MessagesStand(k) /\ DrawnStand(k) /\ CallsStand(k) /\ OutboxStands(k) /\ SumsStand(k)
  BY DEF MeteringInv
<1>2. Usage(k)!BooksBalance
  BY <1>1, SummedIs
<1>3. Usage(k)!OverrunIsBounded
  <2>. DEFINE n == Cardinality(Usage(k)!OnTheirWay)
  <2>1. n \in Nat /\ peak \in Nat /\ n <= peak
    BY <1>1, WayIsFinite DEF CallsStand
  <2>2. peak - n \in Nat /\ peak - n <= peak
    BY <2>1
  <2>3. Floor(k, peak) <= Floor(k, peak - n) /\ Floor(k, peak) \in Int /\ Floor(k, peak - n) \in Int
    BY <2>1, <2>2, FloorSteps
  <2>4. \A t \in k.tree : tree[t] \in Int /\ tree[t] >= Floor(k, peak - n)
    BY <1>1 DEF CallsStand
  <2>5. \A t \in k.tree : tree[t] >= Floor(k, peak)
    BY <2>3, <2>4
  <2>. QED BY <2>5, Zenon DEF Usage!OverrunIsBounded, Floor
<1>4. Usage(k)!NothingVanishes
  <2>1. \A i \in DOMAIN outbox : outbox[i].published => outbox[i].call \in SafeCalls(k)
    BY <1>1, EntriesAreCalls DEF DrawnStand
  <2>2. \A i \in DOMAIN outbox : outbox[i].published
          => Usage(k)!Delivered(outbox[i].call) \/ ledger[outbox[i].call] = 1 \/ outbox[i].call \in dropped
    BY <2>1 DEF SafeCalls
  <2>3. \A c \in k.call : ledger[c] <= 1 /\ (ledger[c] = 1 => call[c].at = "charged")
    BY <1>1 DEF MessagesStand
  <2>. QED BY <2>2, <2>3 DEF Usage!NothingVanishes
<1>. QED BY <1>2, <1>3, <1>4 DEF Usage!MeteringHolds

-----------------------------------------
(* The readiness of services: the heartbeats, and the gate that reads them. *)

Beating ==
  [instance |-> {1}, service |-> [i \in {1} |-> 1], required |-> {1}, reader |-> {}, interval |-> 2, timeout |-> 1,
   maxAge |-> 9, stale |-> 1, prune |-> 10, declared |-> "ready", failures |-> 4, events |-> 6]
Gated ==
  [instance |-> {1}, service |-> [i \in {1} |-> 1], required |-> {1}, reader |-> {"g"}, interval |-> 2, timeout |-> 1,
   maxAge |-> 3, stale |-> 2, prune |-> 3, declared |-> "ready", failures |-> 0, events |-> 3]

Ready(k) == INSTANCE Readiness WITH
  Instance <- k.instance, ServiceOf <- k.service, Required <- k.required, Reader <- k.reader, Interval <- k.interval,
  Timeout <- k.timeout, MaxAge <- k.maxAge, StaleAfter <- k.stale, PruneAfter <- k.prune, Declared <- k.declared,
  MaxFailures <- k.failures, MaxEvents <- k.events, None <- Nil,
  row <- s1, publisher <- s2, late <- s3, reading <- s4, snapshot <- s5, dark <- s6, events <- s7

row == s1
publisher == s2
late == s3
query == s4
snapshot == s5
dark == s6
events == s7

USE DEF row, publisher, late, query, snapshot, dark, events

ReadingShape(r) == r = [pc |-> r.pc, waited |-> r.waited, ready |-> r.ready]
AnswerShape(s) == s = [ready |-> s.ready, age |-> s.age]

\* Times are numbers.
GateConstants(k) == k.timeout \in Nat /\ k.stale \in Nat

\* What a reader has read of a serving table was so no longer ago than its query has run; and what it keeps was so no longer
\* before that than the longest query.
GateStands(k) ==
  /\ dark \in Nat
  /\ query = [g \in k.reader |-> query[g]] /\ snapshot = [g \in k.reader |-> snapshot[g]]
  /\ \A g \in k.reader :
       /\ ReadingShape(query[g]) /\ query[g].waited \in 0 .. k.timeout
       /\ query[g].pc = "read" /\ query[g].ready => dark <= query[g].waited
       /\ snapshot[g] # Nil => AnswerShape(snapshot[g]) /\ snapshot[g].age \in Nat
       /\ snapshot[g] # Nil /\ snapshot[g].ready /\ snapshot[g].age <= k.stale => dark <= k.timeout + snapshot[g].age

LEMMA NothingRead ==
  ASSUME NEW k
  PROVE  \E none : none = Ready(k)!NoReading /\ ReadingShape(none) /\ none.pc = "none" /\ none.waited = 0
<1>1. PICK no : no = FALSE
  OBVIOUS
<1>2. PICK none : none = [pc |-> "none", waited |-> 0, ready |-> no]
  OBVIOUS
<1>3. none = Ready(k)!NoReading
  BY <1>1, <1>2, Zenon DEF Ready!NoReading
<1>. QED BY <1>2, <1>3 DEF ReadingShape

LEMMA GateStarts ==
  ASSUME NEW k
  PROVE  GateConstants(k) /\ Ready(k)!ReadinessInit => GateStands(k)
<1>. SUFFICES ASSUME GateConstants(k), Ready(k)!ReadinessInit PROVE GateStands(k)
  OBVIOUS
<1>1. PICK none : none = Ready(k)!NoReading /\ ReadingShape(none) /\ none.pc = "none" /\ none.waited = 0
  BY NothingRead
<1>2. query = [g \in k.reader |-> none] /\ snapshot = [g \in k.reader |-> Nil]
  BY <1>1 DEF Ready!ReadinessInit
<1>3. dark \in Nat /\ 0 \in 0 .. k.timeout
  BY DEF Ready!ReadinessInit, Ready!LongDark, GateConstants
<1>. QED BY <1>1, <1>2, <1>3 DEF GateStands

LEMMA WatchMoves ==
  ASSUME NEW k, GateConstants(k), dark \in Nat, NEW passed \in {0, 1}, Ready(k)!Watch(passed)
  PROVE  dark' \in Nat /\ dark' <= dark + passed /\ (Ready(k)!Serviceable => dark' = passed)
BY DEF Ready!Watch, Ready!AtMost, Ready!LongDark, GateConstants

LEMMA GateIdle ==
  ASSUME NEW k, GateConstants(k), GateStands(k), UNCHANGED <<query, snapshot>>, dark' \in Nat, dark' <= dark
  PROVE  GateStands(k)'
<1>. SUFFICES ASSUME NEW g \in k.reader
     PROVE  /\ query[g].pc = "read" /\ query[g].ready => dark' <= query[g].waited
            /\ snapshot[g] # Nil /\ snapshot[g].ready /\ snapshot[g].age <= k.stale => dark' <= k.timeout + snapshot[g].age
  BY DEF GateStands
<1>1. query[g].waited \in Nat /\ dark \in Nat
  BY DEF GateStands, GateConstants
<1>2. snapshot[g] # Nil => snapshot[g].age \in Nat
  BY DEF GateStands
<1>. QED BY <1>1, <1>2 DEF GateStands, GateConstants

\* One reader's query goes on.
LEMMA GateReads ==
  ASSUME NEW k, GateConstants(k), GateStands(k), NEW g \in k.reader, NEW row0, query' = [query EXCEPT ![g] = row0],
         UNCHANGED snapshot,
         dark' \in Nat, dark' <= dark, ReadingShape(row0), row0.waited \in 0 .. k.timeout,
         row0.pc = "read" /\ row0.ready => dark' <= row0.waited
  PROVE  GateStands(k)'
<1>1. query' = [x \in k.reader |-> query'[x]] /\ query'[g] = row0 /\ \A x \in k.reader : x # g => query'[x] = query[x]
  BY DEF GateStands
<1>2. ASSUME NEW x \in k.reader
      PROVE  /\ ReadingShape(query'[x]) /\ query'[x].waited \in 0 .. k.timeout
             /\ query'[x].pc = "read" /\ query'[x].ready => dark' <= query'[x].waited
  <2>1. CASE x = g
    BY <1>1, <2>1
  <2>2. CASE x # g
    <3>1. query'[x] = query[x] /\ dark \in Nat /\ query[x].waited \in Nat
      BY <1>1, <2>2 DEF GateStands, GateConstants
    <3>2. /\ ReadingShape(query[x]) /\ query[x].waited \in 0 .. k.timeout
          /\ query[x].pc = "read" /\ query[x].ready => dark <= query[x].waited
      BY DEF GateStands
    <3>. QED BY <3>1, <3>2
  <2>. QED BY <2>1, <2>2
<1>3. ASSUME NEW x \in k.reader
      PROVE  /\ snapshot[x] # Nil => AnswerShape(snapshot[x]) /\ snapshot[x].age \in Nat
             /\ snapshot[x] # Nil /\ snapshot[x].ready /\ snapshot[x].age <= k.stale => dark' <= k.timeout + snapshot[x].age
  BY DEF GateStands, GateConstants
<1>. QED BY <1>1, <1>2, <1>3 DEF GateStands

\* One reader keeps an answer, or none.
LEMMA GateKeeps ==
  ASSUME NEW k, GateConstants(k), GateStands(k), NEW g \in k.reader, NEW answer, snapshot' = [snapshot EXCEPT ![g] = answer],
         query' = [query EXCEPT ![g] = Ready(k)!NoReading], dark' \in Nat, dark' <= dark,
         answer # Nil
           => AnswerShape(answer) /\ answer.age \in Nat
             /\ (answer.ready /\ answer.age <= k.stale => dark' <= k.timeout + answer.age)
  PROVE  GateStands(k)'
<1>1. PICK none : none = Ready(k)!NoReading /\ ReadingShape(none) /\ none.pc = "none" /\ none.waited = 0
  BY NothingRead
<1>2. query' = [x \in k.reader |-> query'[x]] /\ query'[g] = none /\ \A x \in k.reader : x # g => query'[x] = query[x]
  BY <1>1 DEF GateStands
<1>3. snapshot' = [x \in k.reader |-> snapshot'[x]] /\ snapshot'[g] = answer /\ \A x \in k.reader : x # g
        => snapshot'[x] = snapshot[x]
  BY DEF GateStands
<1>4. ASSUME NEW x \in k.reader
      PROVE  /\ ReadingShape(query'[x]) /\ query'[x].waited \in 0 .. k.timeout
             /\ query'[x].pc = "read" /\ query'[x].ready => dark' <= query'[x].waited
  <2>1. CASE x = g
    BY <1>1, <1>2, <2>1 DEF GateConstants
  <2>2. CASE x # g
    <3>1. query'[x] = query[x]
      BY <1>2, <2>2
    <3>3. dark \in Nat /\ query[x].waited \in Nat
      BY DEF GateStands, GateConstants
    <3>2. /\ ReadingShape(query[x]) /\ query[x].waited \in 0 .. k.timeout
          /\ query[x].pc = "read" /\ query[x].ready => dark <= query[x].waited
      BY DEF GateStands
    <3>. QED BY <3>1, <3>2, <3>3
  <2>. QED BY <2>1, <2>2
<1>5. ASSUME NEW x \in k.reader, snapshot'[x] # Nil
      PROVE  /\ AnswerShape(snapshot'[x]) /\ snapshot'[x].age \in Nat
             /\ snapshot'[x].ready /\ snapshot'[x].age <= k.stale => dark' <= k.timeout + snapshot'[x].age
  <2>1. CASE x = g
    BY <1>3, <1>5, <2>1
  <2>2. CASE x # g
    <3>1. snapshot'[x] = snapshot[x] /\ dark \in Nat
      BY <1>3, <2>2 DEF GateStands
    <3>2. /\ snapshot[x] # Nil => AnswerShape(snapshot[x]) /\ snapshot[x].age \in Nat
          /\ snapshot[x] # Nil /\ snapshot[x].ready /\ snapshot[x].age <= k.stale => dark <= k.timeout + snapshot[x].age
      BY DEF GateStands
    <3>3. k.timeout \in Nat
      BY DEF GateConstants
    <3>. QED BY <1>5, <3>1, <3>2, <3>3
  <2>. QED BY <2>1, <2>2
<1>. QED BY <1>2, <1>3, <1>4, <1>5 DEF GateStands

LEMMA QueryBegins ==
  ASSUME NEW k, GateConstants(k), GateStands(k), NEW g \in k.reader, Ready(k)!BeginRefresh(g), dark' \in Nat, dark' <= dark
  PROVE  GateStands(k)'
<1>1. PICK old : old = query[g] /\ ReadingShape(old) /\ old.waited \in 0 .. k.timeout
  BY DEF GateStands
<1>2. PICK s, w, y : old = [pc |-> s, waited |-> w, ready |-> y]
  BY <1>1 DEF ReadingShape
<1>3. PICK new : new = [old EXCEPT !.pc = "asked"]
  OBVIOUS
<1>4. new = [pc |-> "asked", waited |-> w, ready |-> y]
  BY <1>2, <1>3
<1>5. query' = [query EXCEPT ![g] = new] /\ UNCHANGED snapshot
  BY <1>1, <1>3, Zenon DEF Ready!BeginRefresh
<1>6. ReadingShape(new) /\ new.waited = old.waited /\ new.pc # "read"
  BY <1>2, <1>4 DEF ReadingShape
<1>. QED BY <1>1, <1>5, <1>6, GateReads

LEMMA QueryReads ==
  ASSUME NEW k, GateConstants(k), GateStands(k), NEW g \in k.reader, Ready(k)!ReadAll(g), dark' \in Nat, dark' <= dark,
         Ready(k)!Serviceable => dark' = 0
  PROVE  GateStands(k)'
<1>1. PICK old : old = query[g] /\ ReadingShape(old) /\ old.waited \in 0 .. k.timeout
  BY DEF GateStands
<1>2. PICK s, w, y : old = [pc |-> s, waited |-> w, ready |-> y]
  BY <1>1 DEF ReadingShape
<1>3. PICK yes : yes = Ready(k)!Evaluate(row)
  OBVIOUS
<1>4. PICK mid : mid = [old EXCEPT !.pc = "read"]
  OBVIOUS
<1>5. PICK new : new = [mid EXCEPT !.ready = yes]
  OBVIOUS
<1>6. mid = [pc |-> "read", waited |-> w, ready |-> y]
  BY <1>2, <1>4
<1>7. new = [pc |-> "read", waited |-> w, ready |-> yes]
  BY <1>5, <1>6
<1>8. query' = [query EXCEPT ![g] = new] /\ UNCHANGED snapshot
  BY <1>1, <1>3, <1>4, <1>5, Zenon DEF Ready!ReadAll
<1>9. ReadingShape(new) /\ new.waited = old.waited /\ new.ready = yes
  BY <1>2, <1>7 DEF ReadingShape
<1>10. Ready(k)!Evaluate(row) => Ready(k)!Serviceable
  BY DEF Ready!Evaluate, Ready!Serving, Ready!Serviceable
<1>11. yes => Ready(k)!Serviceable
  BY <1>3, <1>10, Zenon
<1>12. new.ready => dark' <= new.waited
  <2>1. new.waited \in Nat
    BY <1>1, <1>9 DEF GateConstants
  <2>. QED BY <1>9, <1>11, <2>1
<1>. QED BY <1>1, <1>8, <1>9, <1>12, GateReads

LEMMA QueryEnds ==
  ASSUME NEW k, GateConstants(k), GateStands(k), NEW g \in k.reader, Ready(k)!Refresh(g), dark' \in Nat, dark' <= dark
  PROVE  GateStands(k)'
<1>1. PICK yes : yes = query[g].ready
  OBVIOUS
<1>2. PICK answer : answer = [ready |-> yes, age |-> 0]
  OBVIOUS
<1>3. snapshot' = [snapshot EXCEPT ![g] = answer] /\ query' = [query EXCEPT ![g] = Ready(k)!NoReading] /\ query[g].pc = "read"
  BY <1>1, <1>2, Zenon DEF Ready!Refresh, Ready!Store
<1>4. AnswerShape(answer) /\ answer.age = 0 /\ answer.ready = yes
  BY <1>2 DEF AnswerShape
<1>5. query[g].waited \in 0 .. k.timeout /\ (query[g].ready => dark <= query[g].waited)
  BY <1>3 DEF GateStands
<1>6. answer.ready => dark' <= k.timeout + answer.age
  <2>. SUFFICES ASSUME answer.ready PROVE dark' <= k.timeout
    BY <1>4 DEF GateConstants
  <2>1. query[g].ready
    BY <1>1, <1>4
  <2>2. dark <= query[g].waited
    BY <1>5, <2>1
  <2>. QED BY <1>5, <2>2 DEF GateConstants, GateStands
<1>7. answer # Nil
        => AnswerShape(answer) /\ answer.age \in Nat
          /\ (answer.ready /\ answer.age <= k.stale => dark' <= k.timeout + answer.age)
  BY <1>4, <1>6
<1>. QED BY <1>3, <1>7, GateKeeps

LEMMA QueryFails ==
  ASSUME NEW k, GateConstants(k), GateStands(k), NEW g \in k.reader, Ready(k)!RefreshFails(g), dark' \in Nat, dark' <= dark
  PROVE  GateStands(k)'
<1>1. PICK no : no = Ready(k)!FailedReading(g)
  OBVIOUS
<1>2. PICK answer : answer = [ready |-> no, age |-> 0]
  OBVIOUS
<1>3. snapshot' = [snapshot EXCEPT ![g] = answer] /\ query' = [query EXCEPT ![g] = Ready(k)!NoReading]
  BY <1>1, <1>2, Zenon DEF Ready!RefreshFails, Ready!Store
<1>4. AnswerShape(answer) /\ answer.age = 0 /\ answer.ready = no
  BY <1>2 DEF AnswerShape
<1>5. ~no
  BY <1>1, Zenon DEF Ready!FailedReading
<1>7. answer # Nil
        => AnswerShape(answer) /\ answer.age \in Nat
          /\ (answer.ready /\ answer.age <= k.stale => dark' <= k.timeout + answer.age)
  BY <1>4, <1>5
<1>. QED BY <1>3, <1>7, GateKeeps

LEMMA GateTicks ==
  ASSUME NEW k, GateConstants(k), GateStands(k), Ready(k)!Tick, dark' \in Nat, dark' <= dark + 1 PROVE GateStands(k)'
<1>1. query' = [g \in k.reader |->
          IF query[g] = Ready(k)!NoReading THEN Ready(k)!NoReading ELSE [query[g] EXCEPT !.waited = @ + 1]]
  BY DEF Ready!Tick
<1>2. snapshot' = [g \in k.reader |-> IF snapshot[g] = Nil THEN Nil ELSE [snapshot[g] EXCEPT !.age = Ready(k)!AtMost(@ + 1,
        k.stale + 1)]]
  BY DEF Ready!Tick
<1>3. ASSUME NEW g \in k.reader
      PROVE  /\ ReadingShape(query'[g]) /\ query'[g].waited \in 0 .. k.timeout
             /\ query'[g].pc = "read" /\ query'[g].ready => dark' <= query'[g].waited
  <2>1. CASE query[g] = Ready(k)!NoReading
    <3>1. PICK none : none = Ready(k)!NoReading /\ ReadingShape(none) /\ none.pc = "none" /\ none.waited = 0
      BY NothingRead
    <3>2. query'[g] = none
      BY <1>1, <2>1, <3>1
    <3>. QED BY <3>1, <3>2 DEF GateConstants
  <2>2. CASE query[g] # Ready(k)!NoReading
    <3>1. PICK old : old = query[g] /\ ReadingShape(old) /\ old.waited \in 0 .. k.timeout /\ old.waited < k.timeout
      BY DEF GateStands, Ready!Tick
    <3>2. PICK s, w, y : old = [pc |-> s, waited |-> w, ready |-> y]
      BY <3>1 DEF ReadingShape
    <3>3. PICK new : new = [old EXCEPT !.waited = @ + 1]
      OBVIOUS
    <3>4. new = [pc |-> s, waited |-> w + 1, ready |-> y]
      BY <3>2, <3>3
    <3>5. query'[g] = new
      BY <1>1, <2>2, <3>1, <3>3
    <3>6. ReadingShape(new) /\ new.waited = old.waited + 1 /\ new.pc = old.pc /\ new.ready = old.ready
      BY <3>2, <3>4 DEF ReadingShape
    <3>7. old.pc = "read" /\ old.ready => dark <= old.waited
      BY <3>1 DEF GateStands
    <3>8. new.waited \in 0 .. k.timeout /\ dark \in Nat /\ old.waited \in Nat
      BY <3>1, <3>6 DEF GateConstants, GateStands
    <3>9. new.pc = "read" /\ new.ready => dark' <= new.waited
      BY <3>6, <3>7, <3>8
    <3>. QED BY <3>5, <3>6, <3>8, <3>9
  <2>. QED BY <2>1, <2>2
<1>4. ASSUME NEW g \in k.reader, snapshot'[g] # Nil
      PROVE  /\ AnswerShape(snapshot'[g]) /\ snapshot'[g].age \in Nat
             /\ snapshot'[g].ready /\ snapshot'[g].age <= k.stale => dark' <= k.timeout + snapshot'[g].age
  <2>1. snapshot[g] # Nil
    BY <1>2, <1>4
  <2>2. PICK old : old = snapshot[g] /\ AnswerShape(old) /\ old.age \in Nat
    BY <2>1 DEF GateStands
  <2>3. PICK y, a : old = [ready |-> y, age |-> a]
    BY <2>2 DEF AnswerShape
  <2>4. PICK new : new = [old EXCEPT !.age = Ready(k)!AtMost(@ + 1, k.stale + 1)]
    OBVIOUS
  <2>5. new = [ready |-> y, age |-> Ready(k)!AtMost(a + 1, k.stale + 1)]
    BY <2>3, <2>4
  <2>6. snapshot'[g] = new
    BY <1>2, <2>1, <2>2, <2>4
  <2>7. AnswerShape(new) /\ new.ready = old.ready /\ new.age = Ready(k)!AtMost(old.age + 1, k.stale + 1)
    BY <2>3, <2>5 DEF AnswerShape
  <2>8. new.age \in Nat /\ (new.age <= k.stale => new.age = old.age + 1 /\ old.age <= k.stale)
    BY <2>2, <2>7 DEF Ready!AtMost, GateConstants
  <2>9. old.ready /\ old.age <= k.stale => dark <= k.timeout + old.age
    BY <2>1, <2>2 DEF GateStands
  <2>10. dark \in Nat
    BY DEF GateStands
  <2>11. ASSUME new.ready, new.age <= k.stale PROVE dark' <= k.timeout + new.age
    <3>1. dark <= k.timeout + old.age /\ new.age = old.age + 1
      BY <2>7, <2>8, <2>9, <2>11
    <3>. QED BY <2>2, <2>10, <3>1 DEF GateConstants
  <2>. QED BY <2>6, <2>7, <2>8, <2>11
<1>. QED BY <1>1, <1>2, <1>3, <1>4 DEF GateStands

LEMMA GateMoves ==
  ASSUME NEW k
  PROVE  GateConstants(k) /\ GateStands(k) /\ [Ready(k)!ReadinessNext]_(Ready(k)!readinessVars) => GateStands(k)'
<1>. SUFFICES ASSUME GateConstants(k), GateStands(k), [Ready(k)!ReadinessNext]_(Ready(k)!readinessVars) PROVE GateStands(k)'
  OBVIOUS
<1>1. CASE Ready(k)!Tick /\ Ready(k)!Watch(1)
  BY <1>1, WatchMoves, GateTicks DEF GateStands
<1>2. CASE UNCHANGED Ready(k)!readinessVars
  <2>1. UNCHANGED <<query, snapshot, dark>>
    BY <1>2 DEF Ready!readinessVars
  <2>. QED BY <2>1 DEF GateStands
<1>3. ASSUME Ready(k)!Watch(0) PROVE dark' \in Nat /\ dark' <= dark /\ (Ready(k)!Serviceable => dark' = 0)
  <2>1. dark \in Nat
    BY DEF GateStands
  <2>2. dark' \in Nat /\ dark' <= dark + 0 /\ (Ready(k)!Serviceable => dark' = 0)
    BY <1>3, <2>1, WatchMoves
  <2>. QED BY <2>1, <2>2
<1>4. ASSUME Ready(k)!Watch(0), UNCHANGED <<query, snapshot>> PROVE GateStands(k)'
  BY <1>3, <1>4, GateIdle
<1>5. ASSUME Ready(k)!Watch(0), Ready(k)!Prune PROVE GateStands(k)'
  BY <1>4, <1>5 DEF Ready!Prune
<1>6. ASSUME Ready(k)!Watch(0), NEW i \in k.instance,
             \/ Ready(k)!Run(i) \/ Ready(k)!Write(i) \/ Ready(k)!Stop(i) \/ Ready(k)!Crash(i)
             \/ \E ok \in BOOLEAN : Ready(k)!Publish(i, ok) \/ Ready(k)!WriteFails(i, ok)
             \/ \E told \in late[i] : Ready(k)!Lands(i, told)
      PROVE  GateStands(k)'
  BY <1>4, <1>6 DEF Ready!Run, Ready!Write, Ready!Stop, Ready!Crash, Ready!Publish, Ready!WriteFails, Ready!Lands
<1>7. ASSUME Ready(k)!Watch(0), NEW g \in k.reader, Ready(k)!BeginRefresh(g) PROVE GateStands(k)'
  BY <1>3, <1>7, QueryBegins
<1>8. ASSUME Ready(k)!Watch(0), NEW g \in k.reader, Ready(k)!ReadAll(g) PROVE GateStands(k)'
  BY <1>3, <1>8, QueryReads
<1>9. ASSUME Ready(k)!Watch(0), NEW g \in k.reader, Ready(k)!Refresh(g) PROVE GateStands(k)'
  BY <1>3, <1>9, QueryEnds
<1>10. ASSUME Ready(k)!Watch(0), NEW g \in k.reader, Ready(k)!RefreshFails(g) PROVE GateStands(k)'
  BY <1>3, <1>10, QueryFails
<1>11. ASSUME Ready(k)!Watch(0), NEW g \in k.reader, Ready(k)!Restart(g) PROVE GateStands(k)'
  BY <1>3, <1>11, GateKeeps DEF Ready!Restart
<1>. QED BY <1>1, <1>2, <1>5, <1>6, <1>7, <1>8, <1>9, <1>10, <1>11 DEF Ready!ReadinessNext

LEMMA GateIsClosed ==
  ASSUME NEW k
  PROVE  GateConstants(k) /\ GateStands(k) => Ready(k)!GateFailsClosed
<1>. SUFFICES ASSUME GateConstants(k), GateStands(k), NEW g \in k.reader, Ready(k)!Serves(g) PROVE dark <= k.timeout + k.stale
  BY DEF Ready!GateFailsClosed
<1>1. snapshot[g] # Nil /\ snapshot[g].ready /\ snapshot[g].age <= k.stale
  <2>1. Ready(k)!Health(g).ready
    BY DEF Ready!Serves, Ready!Gate
  <2>2. Ready(k)!Health(g).ready = (snapshot[g] # Nil /\ snapshot[g].ready /\ Ready(k)!Fresh(snapshot[g]))
    BY DEF Ready!Health
  <2>. QED BY <2>1, <2>2, Zenon DEF Ready!Fresh
<1>2. snapshot[g].age \in Nat /\ dark <= k.timeout + snapshot[g].age
  BY <1>1 DEF GateStands
<1>. QED BY <1>1, <1>2 DEF GateConstants, GateStands

\* The reports.

PublisherShape(own) == own = [pc |-> own.pc, since |-> own.since, waited |-> own.waited, ok |-> own.ok,
                              failures |-> own.failures]
PublisherFits(own) ==
  PublisherShape(own) /\ own.ok \in BOOLEAN /\ own.since \in Nat /\ own.waited \in Nat /\ own.failures \in Nat
USE DEF PublisherFits
RowText == [status : {"ready", "stopping"}, ok : BOOLEAN, age : Nat]
ReportText == [status : {"ready", "stopping"}, ok : BOOLEAN]

\* Three intervals and a report that is still being written fit into the age that counts.
BeatConstants(k) ==
  /\ k.interval \in Nat /\ k.timeout \in 0 .. k.interval /\ k.failures \in Nat /\ k.failures > 3
  /\ k.maxAge \in Nat /\ 4 * k.interval + k.timeout <= k.maxAge /\ k.prune \in Nat /\ k.maxAge <= k.prune
  /\ Nil \notin RowText

\* The oldest a report gets while that many of its successors fail.
Aged(k, failures) == failures * k.interval

\* A report is no older than the intervals of its failed successors and the time since the last of them was begun.
BeatStands(k, i) ==
  LET own == publisher[i] IN
  /\ PublisherFits(own)
  /\ own.pc \in {"down", "due"} => own.failures > 3
  /\ own.pc = "idle" => own.since <= k.interval
  /\ own.pc = "writing" => own.since = own.waited /\ own.waited <= k.timeout
  /\ own.pc = "idle" /\ own.failures <= 3 => row[i] # Nil /\ row[i].age <= Aged(k, own.failures) + own.since
  /\ own.pc = "writing" /\ own.failures <= 3 => row[i] # Nil /\ row[i].age <= Aged(k, own.failures + 1) + own.since

\* The rows of the instances are reports.
RowsStand(k) ==
  /\ row = [i \in k.instance |-> row[i]] /\ \A i \in k.instance : row[i] = Nil \/ row[i] \in RowText
  /\ late = [i \in k.instance |-> late[i]] /\ \A i \in k.instance : late[i] \subseteq ReportText
  /\ publisher = [i \in k.instance |-> publisher[i]]

BeatInv(k) == RowsStand(k) /\ \A i \in k.instance : BeatStands(k, i)

LEMMA AgedSteps ==
  ASSUME NEW k, BeatConstants(k)
  PROVE  /\ \A n \in Nat : Aged(k, n) \in Nat /\ Aged(k, n + 1) = Aged(k, n) + k.interval
         /\ \A n \in Nat : n <= 3 => Aged(k, n) + k.interval <= k.maxAge /\ Aged(k, n + 1) + k.timeout <= k.maxAge
<1>1. PICK d, m, o \in Nat : k.interval = d /\ k.maxAge = m /\ k.timeout = o /\ 4 * d + o <= m
  BY DEF BeatConstants
<1>2. \A n \in Nat : n * d \in Nat /\ (n + 1) * d = n * d + d
  OBVIOUS
<1>3. 0 * d = 0 /\ 1 * d = d /\ 2 * d = d + d /\ 3 * d = d + d + d /\ 4 * d = d + d + d + d
  OBVIOUS
<1>4. \A n \in Nat : n <= 3 => n = 0 \/ n = 1 \/ n = 2 \/ n = 3
  OBVIOUS
<1>5. ASSUME NEW n \in Nat, n <= 3 PROVE n * d + d <= m /\ (n + 1) * d + o <= m
  BY <1>1, <1>2, <1>3, <1>4, <1>5
<1>6. \A n : Aged(k, n) = n * d
  BY <1>1 DEF Aged
<1>. QED BY <1>1, <1>2, <1>5, <1>6

LEMMA DownIsFresh ==
  ASSUME NEW k, k.failures \in Nat
  PROVE  /\ PublisherShape(Ready(k)!Down) /\ Ready(k)!Down.ok \in BOOLEAN /\ Ready(k)!Down.since \in Nat
         /\ Ready(k)!Down.waited \in Nat
         /\ Ready(k)!Down.failures = k.failures /\ Ready(k)!Down.pc = "down"
<1>1. PICK no : no = FALSE
  OBVIOUS
<1>2. PICK down : down = [pc |-> "down", since |-> 0, waited |-> 0, ok |-> no, failures |-> k.failures]
  OBVIOUS
<1>3. down = Ready(k)!Down
  BY <1>1, <1>2, Zenon DEF Ready!Down
<1>4. no \in BOOLEAN
  BY <1>1
<1>. QED BY <1>2, <1>3, <1>4 DEF PublisherShape

\* What a step does to a publisher and to its row.
PublisherMoves(k, i) ==
  LET own == publisher[i]  next == publisher'[i] IN
  /\ PublisherFits(next)
  /\ \/ next.pc \in {"down", "due"} /\ next.failures > 3
     \/ next.pc = "stopping"
     \/ next = own /\ row'[i] # Nil /\ row'[i].age = 0
     \/ next = own /\ (row[i] # Nil /\ row[i].age <= k.maxAge => row'[i] = row[i])
     \/ /\ own.pc = "writing" /\ next.pc = "idle" /\ next.since = own.since /\ row'[i] = row[i]
        /\ next.failures = Ready(k)!AtMost(own.failures + 1, k.failures)
     \/ own.pc = "writing" /\ next.pc = "idle" /\ next.since = own.since /\ row'[i] # Nil /\ row'[i].age = 0
     \/ own.pc = "due" /\ next.pc = "writing" /\ next.failures = own.failures /\ next.since = 0 /\ next.waited = 0
     \/ /\ own.pc = "idle" /\ own.since = k.interval /\ next.pc = "writing" /\ next.failures = own.failures
        /\ next.since = 0 /\ next.waited = 0 /\ row'[i] = row[i]
     \/ /\ own.pc = "idle" /\ own.since < k.interval /\ next.pc = "idle" /\ next.failures = own.failures
        /\ next.since = own.since + 1
        /\ row[i] # Nil => row'[i] # Nil /\ row'[i].age <= row[i].age + 1
     \/ /\ own.pc = "writing" /\ own.waited < k.timeout /\ next.pc = "writing" /\ next.failures = own.failures
        /\ next.since = own.since + 1 /\ next.waited = own.waited + 1
        /\ row[i] # Nil => row'[i] # Nil /\ row'[i].age <= row[i].age + 1

LEMMA BeatGoesOn ==
  ASSUME NEW k, BeatConstants(k), RowsStand(k), RowsStand(k)', NEW i \in k.instance, BeatStands(k, i), PublisherMoves(k, i)
  PROVE  BeatStands(k, i)'
<1>. DEFINE own == publisher[i]  next == publisher'[i]
<1>1. /\ PublisherFits(next)
  BY DEF PublisherMoves
<1>2. /\ PublisherFits(own)
      /\ own.pc \in {"down", "due"} => own.failures > 3
      /\ own.pc = "idle" => own.since <= k.interval
      /\ own.pc = "writing" => own.since = own.waited /\ own.waited <= k.timeout
      /\ own.pc = "idle" /\ own.failures <= 3 => row[i] # Nil /\ row[i].age <= Aged(k, own.failures) + own.since
      /\ own.pc = "writing" /\ own.failures <= 3 => row[i] # Nil /\ row[i].age <= Aged(k, own.failures + 1) + own.since
  BY DEF BeatStands
<1>3. (row[i] # Nil => row[i].age \in Nat) /\ (row'[i] # Nil => row'[i].age \in Nat)
  BY DEF RowsStand, RowText
<1>4. /\ \A n \in Nat : Aged(k, n) \in Nat /\ Aged(k, n + 1) = Aged(k, n) + k.interval
      /\ \A n \in Nat : n <= 3 => Aged(k, n) + k.interval <= k.maxAge /\ Aged(k, n + 1) + k.timeout <= k.maxAge
  BY AgedSteps
<1>5. k.interval \in Nat /\ k.timeout \in Nat /\ k.timeout <= k.interval /\ k.failures \in Nat /\ k.failures > 3
        /\ k.maxAge \in Nat
  BY DEF BeatConstants
<1>a. own.failures + 1 \in Nat /\ next.failures + 1 \in Nat
  BY <1>1, <1>2
<1>b. Aged(k, own.failures) \in Nat /\ Aged(k, own.failures + 1) = Aged(k, own.failures) + k.interval
  BY <1>2, <1>4
<1>c. Aged(k, next.failures) \in Nat /\ Aged(k, next.failures + 1) = Aged(k, next.failures) + k.interval
  BY <1>1, <1>4
<1>d. own.failures <= 3 => Aged(k, own.failures) + k.interval <= k.maxAge /\ Aged(k, own.failures + 1) + k.timeout <= k.maxAge
  BY <1>2, <1>4
<1>. DEFINE Good ==
       /\ next.pc \in {"down", "due"} => next.failures > 3
       /\ next.pc = "idle" => next.since <= k.interval
       /\ next.pc = "writing" => next.since = next.waited /\ next.waited <= k.timeout
       /\ next.pc = "idle" /\ next.failures <= 3 => row'[i] # Nil /\ row'[i].age <= Aged(k, next.failures) + next.since
       /\ next.pc = "writing" /\ next.failures <= 3 => row'[i] # Nil /\ row'[i].age <= Aged(k, next.failures + 1) + next.since
<1>6. ASSUME next.pc \in {"down", "due"} /\ next.failures > 3 PROVE Good
  BY <1>1, <1>6
<1>7. ASSUME next.pc = "stopping" PROVE Good
  BY <1>7
<1>8. ASSUME next = own, row'[i] # Nil /\ row'[i].age = 0 PROVE Good
  BY <1>2, <1>8, <1>b, <1>5
<1>9. ASSUME next = own, row[i] # Nil /\ row[i].age <= k.maxAge => row'[i] = row[i] PROVE Good
  <2>1. ASSUME next.pc = "idle" /\ next.failures <= 3
        PROVE  row[i] # Nil /\ row[i].age <= Aged(k, next.failures) + next.since /\ row[i].age <= k.maxAge
    BY <1>2, <1>3, <1>5, <1>9, <1>b, <1>d, <2>1
  <2>2. ASSUME next.pc = "writing" /\ next.failures <= 3
        PROVE  row[i] # Nil /\ row[i].age <= Aged(k, next.failures + 1) + next.since /\ row[i].age <= k.maxAge
    BY <1>2, <1>3, <1>5, <1>9, <1>b, <1>d, <2>2
  <2>. QED BY <1>2, <1>9, <2>1, <2>2
<1>10. ASSUME own.pc = "writing" /\ next.pc = "idle" /\ next.since = own.since /\ row'[i] = row[i],
              next.failures = Ready(k)!AtMost(own.failures + 1, k.failures)
       PROVE  Good
  <2>1. next.failures <= 3 => next.failures = own.failures + 1 /\ own.failures <= 3
    BY <1>2, <1>5, <1>10 DEF Ready!AtMost
  <2>. QED BY <1>2, <1>5, <1>10, <2>1
<1>11. ASSUME own.pc = "writing" /\ next.pc = "idle" /\ next.since = own.since /\ row'[i] # Nil /\ row'[i].age = 0 PROVE Good
  BY <1>1, <1>2, <1>5, <1>11, <1>c
<1>12. ASSUME own.pc = "due" /\ next.pc = "writing" /\ next.failures = own.failures /\ next.since = 0 /\ next.waited = 0
       PROVE  Good
  BY <1>2, <1>5, <1>12
<1>13. ASSUME own.pc = "idle" /\ own.since = k.interval /\ next.pc = "writing" /\ next.failures = own.failures
                /\ next.since = 0 /\ next.waited = 0 /\ row'[i] = row[i]
       PROVE  Good
  BY <1>2, <1>3, <1>5, <1>13, <1>b
<1>14. ASSUME own.pc = "idle" /\ own.since < k.interval /\ next.pc = "idle" /\ next.failures = own.failures
                /\ next.since = own.since + 1,
              row[i] # Nil => row'[i] # Nil /\ row'[i].age <= row[i].age + 1 PROVE Good
  BY <1>2, <1>3, <1>5, <1>14, <1>b
<1>15. ASSUME own.pc = "writing" /\ own.waited < k.timeout /\ next.pc = "writing" /\ next.failures = own.failures
                /\ next.since = own.since + 1 /\ next.waited = own.waited + 1,
              row[i] # Nil => row'[i] # Nil /\ row'[i].age <= row[i].age + 1 PROVE Good
  BY <1>2, <1>3, <1>5, <1>15, <1>a, <1>b
<1>16. Good
  BY <1>6, <1>7, <1>8, <1>9, <1>10, <1>11, <1>12, <1>13, <1>14, <1>15 DEF PublisherMoves
<1>. QED BY <1>1, <1>16 DEF BeatStands

LEMMA OthersStay ==
  ASSUME NEW k, BeatInv(k), NEW x \in k.instance, publisher'[x] = publisher[x], row'[x] = row[x]
  PROVE  PublisherMoves(k, x)
BY DEF BeatInv, BeatStands, PublisherMoves

\* One publisher moves, and its row with it.
LEMMA OneMoves ==
  ASSUME NEW k, BeatConstants(k), BeatInv(k), RowsStand(k)', NEW i \in k.instance, PublisherMoves(k, i),
         \A x \in k.instance : x # i => publisher'[x] = publisher[x] /\ row'[x] = row[x]
  PROVE  BeatInv(k)'
<1>1. ASSUME NEW x \in k.instance PROVE BeatStands(k, x)'
  <2>1. PublisherMoves(k, x)
    BY OthersStay
  <2>. QED BY <2>1, BeatGoesOn DEF BeatInv
<1>. QED BY <1>1 DEF BeatInv

LEMMA ReportIsText ==
  ASSUME NEW k, BeatInv(k), NEW i \in k.instance
  PROVE  Ready(k)!Report(i) \in ReportText
<1>1. PICK ok : ok = publisher[i].ok
  OBVIOUS
<1>2. ok \in BOOLEAN
  BY <1>1 DEF BeatInv, BeatStands
<1>3. PICK s : s = IF publisher[i].pc = "stopping" THEN "stopping" ELSE "ready"
  OBVIOUS
<1>4. Ready(k)!Report(i) = [status |-> s, ok |-> ok]
  BY <1>1, <1>3, Zenon DEF Ready!Report
<1>. QED BY <1>2, <1>3, <1>4 DEF ReportText

LEMMA WritesRow ==
  ASSUME NEW k, BeatConstants(k), RowsStand(k), NEW i \in k.instance, NEW told \in ReportText, Ready(k)!Written(i, told)
  PROVE  /\ row' = [x \in k.instance |-> row'[x]] /\ \A x \in k.instance : row'[x] = Nil \/ row'[x] \in RowText
         /\ row'[i] # Nil /\ row'[i].age = 0 /\ \A x \in k.instance : x # i => row'[x] = row[x]
<1>1. PICK new : new = [status |-> told.status, ok |-> told.ok, age |-> 0]
  OBVIOUS
<1>2. row' = [row EXCEPT ![i] = new]
  BY <1>1, Zenon DEF Ready!Written
<1>3. new \in RowText /\ new.age = 0
  BY <1>1 DEF RowText, ReportText
<1>4. row' = [x \in k.instance |-> row'[x]] /\ row'[i] = new /\ \A x \in k.instance : x # i => row'[x] = row[x]
  BY <1>2 DEF RowsStand
<1>. QED BY <1>3, <1>4 DEF RowsStand, BeatConstants

LEMMA PublisherFields ==
  ASSUME NEW k, BeatInv(k), NEW i \in k.instance
  PROVE  \E s, n, w, y, f : publisher[i] = [pc |-> s, since |-> n, waited |-> w, ok |-> y, failures |-> f] /\ n \in Nat
           /\ w \in Nat /\ y \in BOOLEAN /\ f \in Nat
<1>1. PICK old : old = publisher[i] /\ PublisherShape(old)
  BY DEF BeatInv, BeatStands
<1>2. PICK s, n, w, y, f : old = [pc |-> s, since |-> n, waited |-> w, ok |-> y, failures |-> f]
  BY <1>1 DEF PublisherShape
<1>3. s = old.pc /\ n = old.since /\ w = old.waited /\ y = old.ok /\ f = old.failures
  BY <1>2
<1>4. old.ok \in BOOLEAN /\ old.since \in Nat /\ old.waited \in Nat /\ old.failures \in Nat
  BY <1>1 DEF BeatInv, BeatStands
<1>. QED BY <1>1, <1>2, <1>3, <1>4

\* A publisher is left as it was made.
LEMMA PublisherMade ==
  ASSUME NEW k, BeatInv(k), NEW i \in k.instance, NEW new, publisher' = [publisher EXCEPT ![i] = new]
  PROVE  /\ publisher' = [x \in k.instance |-> publisher'[x]] /\ publisher'[i] = new
         /\ \A x \in k.instance : x # i => publisher'[x] = publisher[x]
BY DEF BeatInv, RowsStand

LEMMA FieldsMade ==
  ASSUME NEW k, NEW new, NEW s, NEW n \in Nat, NEW w \in Nat, NEW y \in BOOLEAN, NEW f \in Nat,
         new = [pc |-> s, since |-> n, waited |-> w, ok |-> y, failures |-> f]
  PROVE  /\ PublisherFits(new)
         /\ new.pc = s /\ new.since = n /\ new.waited = w /\ new.failures = f
BY DEF PublisherShape

LEMMA BeatRuns ==
  ASSUME NEW k, BeatConstants(k), BeatInv(k), NEW i \in k.instance, Ready(k)!Run(i)
  PROVE  BeatInv(k)'
<1>1. PICK no : no = FALSE
  OBVIOUS
<1>2. PICK down : down = [pc |-> "down", since |-> 0, waited |-> 0, ok |-> no, failures |-> k.failures]
  OBVIOUS
<1>3. PICK new : new = [down EXCEPT !.pc = "due"]
  OBVIOUS
<1>4. new = [pc |-> "due", since |-> 0, waited |-> 0, ok |-> no, failures |-> k.failures]
  BY <1>2, <1>3
<1>5. down = Ready(k)!Down
  BY <1>1, <1>2, Zenon DEF Ready!Down
<1>6. publisher' = [publisher EXCEPT ![i] = new]
  BY <1>3, <1>5, Zenon DEF Ready!Run
<1>7. no \in BOOLEAN /\ k.failures \in Nat /\ k.failures > 3 /\ 0 \in Nat
  BY <1>1 DEF BeatConstants
<1>8. /\ PublisherFits(new)
      /\ new.pc = "due" /\ new.failures = k.failures
  BY <1>4, <1>7, FieldsMade
<1>9. /\ publisher' = [x \in k.instance |-> publisher'[x]] /\ publisher'[i] = new
      /\ \A x \in k.instance : x # i => publisher'[x] = publisher[x]
  BY <1>6, PublisherMade
<1>10. UNCHANGED <<row, late>>
  BY DEF Ready!Run
<1>11. RowsStand(k)'
  BY <1>9, <1>10 DEF BeatInv, RowsStand
<1>12. PublisherMoves(k, i)
  BY <1>7, <1>8, <1>9 DEF PublisherMoves
<1>. QED BY <1>9, <1>10, <1>11, <1>12, OneMoves

LEMMA BeatPublishes ==
  ASSUME NEW k, BeatConstants(k), BeatInv(k), NEW i \in k.instance, NEW yes \in BOOLEAN, Ready(k)!Publish(i, yes)
  PROVE  BeatInv(k)'
<1>1. PICK old : old = publisher[i]
  OBVIOUS
<1>2. PICK s, n, w, y, f : old = [pc |-> s, since |-> n, waited |-> w, ok |-> y, failures |-> f] /\ n \in Nat /\ w \in Nat
        /\ y \in BOOLEAN /\ f \in Nat
  BY <1>1, PublisherFields
<1>3. PICK a : a = [old EXCEPT !.pc = "writing"]
  OBVIOUS
<1>4. PICK b : b = [a EXCEPT !.since = 0]
  OBVIOUS
<1>5. PICK c : c = [b EXCEPT !.waited = 0]
  OBVIOUS
<1>6. PICK new : new = [c EXCEPT !.ok = yes]
  OBVIOUS
<1>7. publisher' = [publisher EXCEPT ![i] = new]
  BY <1>1, <1>3, <1>4, <1>5, <1>6, Zenon DEF Ready!Publish
<1>8. a = [pc |-> "writing", since |-> n, waited |-> w, ok |-> y, failures |-> f]
  BY <1>2, <1>3
<1>9. b = [pc |-> "writing", since |-> 0, waited |-> w, ok |-> y, failures |-> f]
  BY <1>4, <1>8
<1>10. c = [pc |-> "writing", since |-> 0, waited |-> 0, ok |-> y, failures |-> f]
  BY <1>5, <1>9
<1>11. new = [pc |-> "writing", since |-> 0, waited |-> 0, ok |-> yes, failures |-> f]
  BY <1>6, <1>10
<1>12. /\ PublisherFits(new)
       /\ new.pc = "writing" /\ new.since = 0 /\ new.waited = 0 /\ new.failures = f
  BY <1>2, <1>11, FieldsMade
<1>13. /\ publisher' = [x \in k.instance |-> publisher'[x]] /\ publisher'[i] = new
       /\ \A x \in k.instance : x # i => publisher'[x] = publisher[x]
  BY <1>7, PublisherMade
<1>14. UNCHANGED <<row, late>>
  BY DEF Ready!Publish
<1>15. RowsStand(k)'
  BY <1>13, <1>14 DEF BeatInv, RowsStand
<1>16. old.failures = f /\ (old.pc = "due" \/ (old.pc = "idle" /\ old.since = k.interval))
  BY <1>1, <1>2 DEF Ready!Publish
<1>17. PublisherMoves(k, i)
  BY <1>1, <1>12, <1>13, <1>14, <1>16 DEF PublisherMoves
<1>. QED BY <1>13, <1>14, <1>15, <1>17, OneMoves

\* The loop goes on after a report, or ends with the last.
LEMMA LoopResumes ==
  ASSUME NEW k, BeatConstants(k), BeatInv(k), NEW i \in k.instance, NEW g \in Nat, Ready(k)!Resume(i, g),
         publisher[i].pc \in {"writing", "stopping"}
  PROVE  LET own == publisher[i]  next == publisher'[i] IN
         /\ publisher' = [x \in k.instance |-> publisher'[x]]
         /\ \A x \in k.instance : x # i => publisher'[x] = publisher[x]
         /\ PublisherFits(next)
         /\ \/ next.pc = "down" /\ next.failures > 3
            \/ own.pc = "writing" /\ next.pc = "idle" /\ next.since = own.since /\ next.failures = g
<1>1. CASE publisher[i].pc = "stopping"
  <2>1. PICK down : down = Ready(k)!Down
    OBVIOUS
  <2>2. publisher' = [publisher EXCEPT ![i] = down]
    BY <1>1, <2>1, Zenon DEF Ready!Resume
  <2>3. PublisherShape(down) /\ down.ok \in BOOLEAN /\ down.since \in Nat /\ down.waited \in Nat
          /\ down.failures = k.failures /\ down.pc = "down"
    BY <2>1, DownIsFresh DEF BeatConstants
  <2>4. k.failures \in Nat /\ k.failures > 3
    BY DEF BeatConstants
  <2>. QED BY <2>2, <2>3, <2>4, PublisherMade
<1>2. CASE publisher[i].pc # "stopping"
  <2>1. PICK old : old = publisher[i]
    OBVIOUS
  <2>2. PICK s, n, w, y, f : old = [pc |-> s, since |-> n, waited |-> w, ok |-> y, failures |-> f] /\ n \in Nat /\ w \in Nat
          /\ y \in BOOLEAN /\ f \in Nat
    BY <2>1, PublisherFields
  <2>3. PICK a : a = [old EXCEPT !.pc = "idle"]
    OBVIOUS
  <2>4. PICK b : b = [a EXCEPT !.waited = 0]
    OBVIOUS
  <2>5. PICK new : new = [b EXCEPT !.failures = g]
    OBVIOUS
  <2>6. publisher' = [publisher EXCEPT ![i] = new]
    BY <1>2, <2>1, <2>3, <2>4, <2>5, Zenon DEF Ready!Resume
  <2>7. a = [pc |-> "idle", since |-> n, waited |-> w, ok |-> y, failures |-> f]
    BY <2>2, <2>3
  <2>8. b = [pc |-> "idle", since |-> n, waited |-> 0, ok |-> y, failures |-> f]
    BY <2>4, <2>7
  <2>9. new = [pc |-> "idle", since |-> n, waited |-> 0, ok |-> y, failures |-> g]
    BY <2>5, <2>8
  <2>10. /\ PublisherFits(new)
         /\ new.pc = "idle" /\ new.since = n /\ new.failures = g
    BY <2>2, <2>9, FieldsMade
  <2>11. old.since = n /\ old.pc = "writing"
    BY <1>2, <2>1, <2>2
  <2>. QED BY <2>1, <2>6, <2>10, <2>11, PublisherMade
<1>. QED BY <1>1, <1>2

LEMMA BeatWrites ==
  ASSUME NEW k, BeatConstants(k), BeatInv(k), NEW i \in k.instance, Ready(k)!Write(i)
  PROVE  BeatInv(k)'
<1>1. publisher[i].pc \in {"writing", "stopping"} /\ Ready(k)!Written(i, Ready(k)!Report(i)) /\ Ready(k)!Resume(i, 0)
        /\ UNCHANGED late
  BY DEF Ready!Write
<1>2. /\ row' = [x \in k.instance |-> row'[x]] /\ \A x \in k.instance : row'[x] = Nil \/ row'[x] \in RowText
      /\ row'[i] # Nil /\ row'[i].age = 0 /\ \A x \in k.instance : x # i => row'[x] = row[x]
  BY <1>1, ReportIsText, WritesRow DEF BeatInv
<1>3. LET own == publisher[i]  next == publisher'[i] IN
         /\ publisher' = [x \in k.instance |-> publisher'[x]]
         /\ \A x \in k.instance : x # i => publisher'[x] = publisher[x]
         /\ PublisherFits(next)
         /\ \/ next.pc = "down" /\ next.failures > 3
            \/ own.pc = "writing" /\ next.pc = "idle" /\ next.since = own.since /\ next.failures = 0
  BY <1>1, LoopResumes
<1>4. RowsStand(k)'
  BY <1>1, <1>2, <1>3 DEF BeatInv, RowsStand
<1>5. PublisherMoves(k, i)
  BY <1>2, <1>3 DEF PublisherMoves
<1>. QED BY <1>2, <1>3, <1>4, <1>5, OneMoves

LEMMA BeatFails ==
  ASSUME NEW k, BeatConstants(k), BeatInv(k), NEW i \in k.instance, NEW lands \in BOOLEAN, Ready(k)!WriteFails(i, lands)
  PROVE  BeatInv(k)'
<1>. DEFINE g == Ready(k)!AtMost(publisher[i].failures + 1, k.failures)
<1>1. /\ publisher[i].pc \in {"writing", "stopping"} /\ Ready(k)!Resume(i, g) /\ UNCHANGED row
      /\ late' = IF lands THEN [late EXCEPT ![i] = @ \cup {Ready(k)!Report(i)}] ELSE late
  BY DEF Ready!WriteFails
<1>2. g \in Nat
  BY DEF Ready!AtMost, BeatInv, BeatStands, BeatConstants
<1>3. LET own == publisher[i]  next == publisher'[i] IN
         /\ publisher' = [x \in k.instance |-> publisher'[x]]
         /\ \A x \in k.instance : x # i => publisher'[x] = publisher[x]
         /\ PublisherFits(next)
         /\ \/ next.pc = "down" /\ next.failures > 3
            \/ own.pc = "writing" /\ next.pc = "idle" /\ next.since = own.since /\ next.failures = g
  <2>. HIDE DEF g
  <2>. QED BY <1>1, <1>2, LoopResumes
<1>4. RowsStand(k)'
  <2>1. late' = [x \in k.instance |-> late'[x]] /\ \A x \in k.instance : late'[x] \subseteq ReportText
    <3>1. PICK told \in ReportText : told = Ready(k)!Report(i)
      BY ReportIsText
    <3>2. late' = IF lands THEN [late EXCEPT ![i] = @ \cup {told}] ELSE late
      BY <1>1, <3>1
    <3>. QED BY <3>2 DEF BeatInv, RowsStand
  <2>. QED BY <1>1, <1>3, <2>1 DEF BeatInv, RowsStand
<1>5. PublisherMoves(k, i)
  BY <1>1, <1>3 DEF PublisherMoves
<1>. QED BY <1>1, <1>3, <1>4, <1>5, OneMoves

LEMMA BeatLands ==
  ASSUME NEW k, BeatConstants(k), BeatInv(k), NEW i \in k.instance, NEW told \in late[i], Ready(k)!Lands(i, told)
  PROVE  BeatInv(k)'
<1>1. told \in ReportText /\ Ready(k)!Written(i, told) /\ UNCHANGED publisher /\ late' = [late EXCEPT ![i] = @ \ {told}]
  BY DEF Ready!Lands, BeatInv, RowsStand
<1>2. /\ row' = [x \in k.instance |-> row'[x]] /\ \A x \in k.instance : row'[x] = Nil \/ row'[x] \in RowText
      /\ row'[i] # Nil /\ row'[i].age = 0 /\ \A x \in k.instance : x # i => row'[x] = row[x]
  BY <1>1, WritesRow DEF BeatInv
<1>3. RowsStand(k)'
  BY <1>1, <1>2 DEF BeatInv, RowsStand
<1>4. PublisherMoves(k, i)
  BY <1>1, <1>2 DEF PublisherMoves, BeatInv, BeatStands
<1>. QED BY <1>1, <1>2, <1>3, <1>4, OneMoves

LEMMA BeatStops ==
  ASSUME NEW k, BeatConstants(k), BeatInv(k), NEW i \in k.instance, Ready(k)!Stop(i)
  PROVE  BeatInv(k)'
<1>1. PICK old : old = publisher[i]
  OBVIOUS
<1>2. PICK s, n, w, y, f : old = [pc |-> s, since |-> n, waited |-> w, ok |-> y, failures |-> f] /\ n \in Nat /\ w \in Nat
        /\ y \in BOOLEAN /\ f \in Nat
  BY <1>1, PublisherFields
<1>3. PICK a : a = [old EXCEPT !.pc = "stopping"]
  OBVIOUS
<1>4. PICK new : new = [a EXCEPT !.waited = 0]
  OBVIOUS
<1>5. publisher' = [publisher EXCEPT ![i] = new]
  BY <1>1, <1>3, <1>4, Zenon DEF Ready!Stop
<1>6. a = [pc |-> "stopping", since |-> n, waited |-> w, ok |-> y, failures |-> f]
  BY <1>2, <1>3
<1>7. new = [pc |-> "stopping", since |-> n, waited |-> 0, ok |-> y, failures |-> f]
  BY <1>4, <1>6
<1>8. /\ PublisherFits(new)
      /\ new.pc = "stopping"
  BY <1>2, <1>7, FieldsMade
<1>9. /\ publisher' = [x \in k.instance |-> publisher'[x]] /\ publisher'[i] = new
      /\ \A x \in k.instance : x # i => publisher'[x] = publisher[x]
  BY <1>5, PublisherMade
<1>10. UNCHANGED row /\ late' = [x \in k.instance |-> late'[x]] /\ \A x \in k.instance : late'[x] \subseteq ReportText
  <2>1. PICK told \in ReportText : told = Ready(k)!Report(i)
    BY ReportIsText
  <2>2. UNCHANGED row /\ (late' = [late EXCEPT ![i] = late[i] \cup {told}] \/ late' = late)
    BY <2>1, Zenon DEF Ready!Stop
  <2>. QED BY <2>2 DEF BeatInv, RowsStand
<1>11. RowsStand(k)'
  BY <1>9, <1>10 DEF BeatInv, RowsStand
<1>12. PublisherMoves(k, i)
  BY <1>8, <1>9 DEF PublisherMoves
<1>. QED BY <1>9, <1>10, <1>11, <1>12, OneMoves

LEMMA BeatCrashes ==
  ASSUME NEW k, BeatConstants(k), BeatInv(k), NEW i \in k.instance, Ready(k)!Crash(i)
  PROVE  BeatInv(k)'
<1>1. PICK down : down = Ready(k)!Down
  OBVIOUS
<1>2. publisher' = [publisher EXCEPT ![i] = down] /\ UNCHANGED <<row, late>>
  BY <1>1, Zenon DEF Ready!Crash
<1>3. PublisherShape(down) /\ down.ok \in BOOLEAN /\ down.since \in Nat /\ down.waited \in Nat /\ down.failures = k.failures
        /\ down.pc = "down"
  BY <1>1, DownIsFresh DEF BeatConstants
<1>4. k.failures \in Nat /\ k.failures > 3
  BY DEF BeatConstants
<1>5. /\ publisher' = [x \in k.instance |-> publisher'[x]] /\ publisher'[i] = down
      /\ \A x \in k.instance : x # i => publisher'[x] = publisher[x]
  BY <1>2, PublisherMade
<1>6. RowsStand(k)'
  BY <1>2, <1>5 DEF BeatInv, RowsStand
<1>7. PublisherMoves(k, i)
  BY <1>3, <1>4, <1>5 DEF PublisherMoves
<1>. QED BY <1>2, <1>5, <1>6, <1>7, OneMoves

LEMMA BeatPrunes ==
  ASSUME NEW k, BeatConstants(k), BeatInv(k), Ready(k)!Prune
  PROVE  BeatInv(k)'
<1>1. row' = [i \in k.instance |-> IF Ready(k)!Gone(i) THEN Nil ELSE row[i]] /\ UNCHANGED <<publisher, late>>
  BY DEF Ready!Prune
<1>2. RowsStand(k)'
  BY <1>1 DEF BeatInv, RowsStand
<1>3. ASSUME NEW i \in k.instance PROVE BeatStands(k, i)'
  <2>1. row[i] # Nil /\ row[i].age <= k.maxAge => row'[i] = row[i]
    <3>1. row[i] # Nil => row[i].age \in Nat
      BY DEF BeatInv, RowsStand, RowText
    <3>2. k.maxAge \in Nat /\ k.prune \in Nat /\ k.maxAge <= k.prune
      BY DEF BeatConstants
    <3>3. row[i] # Nil /\ row[i].age <= k.maxAge => ~Ready(k)!Gone(i)
      BY <3>1, <3>2 DEF Ready!Gone
    <3>. QED BY <1>1, <3>3
  <2>2. PublisherMoves(k, i)
    BY <1>1, <2>1 DEF PublisherMoves, BeatInv, BeatStands
  <2>. QED BY <1>2, <2>2, BeatGoesOn DEF BeatInv
<1>. QED BY <1>2, <1>3 DEF BeatInv

LEMMA RowAges ==
  ASSUME NEW k, BeatConstants(k), RowsStand(k), Ready(k)!Tick, NEW i \in k.instance
  PROVE  (row'[i] = Nil \/ row'[i] \in RowText) /\ (row[i] # Nil => row'[i] # Nil /\ row'[i].age <= row[i].age + 1)
<1>1. row'[i] = IF row[i] = Nil THEN Nil ELSE [row[i] EXCEPT !.age = Ready(k)!AtMost(@ + 1, Ready(k)!Forgotten)]
  BY DEF Ready!Tick
<1>2. CASE row[i] = Nil
  BY <1>1, <1>2
<1>3. CASE row[i] # Nil
  <2>1. PICK old : old = row[i] /\ old \in RowText
    BY <1>3 DEF RowsStand
  <2>2. PICK s, y, a : old = [status |-> s, ok |-> y, age |-> a] /\ s \in {"ready", "stopping"} /\ y \in BOOLEAN /\ a \in Nat
    BY <2>1 DEF RowText
  <2>3. PICK new : new = [old EXCEPT !.age = Ready(k)!AtMost(@ + 1, Ready(k)!Forgotten)]
    OBVIOUS
  <2>4. new = [status |-> s, ok |-> y, age |-> Ready(k)!AtMost(a + 1, Ready(k)!Forgotten)]
    BY <2>2, <2>3
  <2>5. Ready(k)!AtMost(a + 1, Ready(k)!Forgotten) \in Nat /\ Ready(k)!AtMost(a + 1, Ready(k)!Forgotten) <= a + 1
    BY <2>2 DEF Ready!AtMost, Ready!Forgotten, BeatConstants
  <2>6. new \in RowText /\ new.age <= old.age + 1
    BY <2>2, <2>4, <2>5 DEF RowText
  <2>7. row'[i] = new
    BY <1>1, <1>3, <2>1, <2>3
  <2>. QED BY <2>1, <2>6, <2>7 DEF BeatConstants
<1>. QED BY <1>2, <1>3

LEMMA BeatTicks ==
  ASSUME NEW k, BeatConstants(k), BeatInv(k), Ready(k)!Tick
  PROVE  BeatInv(k)'
<1>1. UNCHANGED late /\ row' = [i \in k.instance |-> row'[i]] /\ publisher' = [i \in k.instance |-> publisher'[i]]
  BY DEF Ready!Tick
<1>2. RowsStand(k)'
  BY <1>1, RowAges DEF BeatInv, RowsStand
<1>3. ASSUME NEW i \in k.instance PROVE BeatStands(k, i)'
  <2>1. PICK old : old = publisher[i]
    OBVIOUS
  <2>2. PICK s, n, w, y, f : old = [pc |-> s, since |-> n, waited |-> w, ok |-> y, failures |-> f] /\ n \in Nat /\ w \in Nat
          /\ y \in BOOLEAN /\ f \in Nat
    BY <2>1, PublisherFields
  <2>3. publisher'[i] = CASE publisher[i].pc = "idle" -> [publisher[i] EXCEPT !.since = @ + 1]
                          [] publisher[i].pc = "writing" -> [publisher[i] EXCEPT !.since = @ + 1, !.waited = @ + 1]
                          [] publisher[i].pc = "stopping" -> [publisher[i] EXCEPT !.waited = @ + 1]
                          [] OTHER -> publisher[i]
    BY Zenon DEF Ready!Tick
  <2>4. old.pc = s /\ old.since = n /\ old.waited = w /\ old.failures = f
    BY <2>2
  <2>5. row[i] # Nil => row'[i] # Nil /\ row'[i].age <= row[i].age + 1
    BY RowAges DEF BeatInv
  <2>6. n + 1 \in Nat /\ w + 1 \in Nat
    BY <2>2
  <2>7. old.pc # "due" /\ (old.pc = "idle" => old.since < k.interval)
          /\ (old.pc \in {"writing", "stopping"} => old.waited < k.timeout)
    BY <2>1 DEF Ready!Tick
  <2>8. CASE s = "idle"
    <3>1. PICK new : new = [old EXCEPT !.since = @ + 1]
      OBVIOUS
    <3>2. new = [pc |-> "idle", since |-> n + 1, waited |-> w, ok |-> y, failures |-> f]
      BY <2>2, <2>8, <3>1
    <3>3. publisher'[i] = new
      BY <2>1, <2>3, <2>4, <2>8, <3>1, Zenon
    <3>4. /\ PublisherFits(new)
          /\ new.pc = "idle" /\ new.since = n + 1 /\ new.failures = f
      BY <2>2, <2>6, <3>2, FieldsMade
    <3>5. PublisherMoves(k, i)
      BY <2>1, <2>4, <2>5, <2>7, <2>8, <3>3, <3>4 DEF PublisherMoves
    <3>. QED BY <1>2, <3>5, BeatGoesOn DEF BeatInv
  <2>9. CASE s = "writing"
    <3>1. PICK a : a = [old EXCEPT !.since = @ + 1]
      OBVIOUS
    <3>2. PICK new : new = [a EXCEPT !.waited = @ + 1]
      OBVIOUS
    <3>3. a = [pc |-> "writing", since |-> n + 1, waited |-> w, ok |-> y, failures |-> f]
      BY <2>2, <2>9, <3>1
    <3>4. new = [pc |-> "writing", since |-> n + 1, waited |-> w + 1, ok |-> y, failures |-> f]
      BY <3>2, <3>3
    <3>5. publisher'[i] = new
      <4>1. "writing" # "idle"
        OBVIOUS
      <4>2. publisher'[i] = [publisher[i] EXCEPT !.since = @ + 1, !.waited = @ + 1]
        BY <2>1, <2>3, <2>4, <2>9, <4>1, Zenon
      <4>. QED BY <2>1, <3>1, <3>2, <4>2, Zenon
    <3>6. /\ PublisherFits(new)
          /\ new.pc = "writing" /\ new.since = n + 1 /\ new.waited = w + 1 /\ new.failures = f
      BY <2>2, <2>6, <3>4, FieldsMade
    <3>7. PublisherMoves(k, i)
      BY <2>1, <2>4, <2>5, <2>7, <2>9, <3>5, <3>6 DEF PublisherMoves
    <3>. QED BY <1>2, <3>7, BeatGoesOn DEF BeatInv
  <2>10. CASE s = "stopping"
    <3>1. PICK new : new = [old EXCEPT !.waited = @ + 1]
      OBVIOUS
    <3>2. new = [pc |-> "stopping", since |-> n, waited |-> w + 1, ok |-> y, failures |-> f]
      BY <2>2, <2>10, <3>1
    <3>3. publisher'[i] = new
      BY <2>1, <2>3, <2>4, <2>10, <3>1
    <3>4. /\ PublisherFits(new)
          /\ new.pc = "stopping"
      BY <2>2, <2>6, <3>2, FieldsMade
    <3>5. PublisherMoves(k, i)
      BY <3>3, <3>4 DEF PublisherMoves
    <3>. QED BY <1>2, <3>5, BeatGoesOn DEF BeatInv
  <2>11. CASE s \notin {"idle", "writing", "stopping"}
    <3>1. publisher'[i] = publisher[i]
      BY <2>1, <2>3, <2>4, <2>11
    <3>2. BeatStands(k, i)
      BY DEF BeatInv
    <3>. QED BY <2>1, <2>4, <2>11, <3>1, <3>2 DEF BeatStands
  <2>. QED BY <2>8, <2>9, <2>10, <2>11
<1>. QED BY <1>2, <1>3 DEF BeatInv

LEMMA BeatsStart ==
  ASSUME NEW k
  PROVE  BeatConstants(k) /\ Ready(k)!ReadinessInit => BeatInv(k)
<1>. SUFFICES ASSUME BeatConstants(k), Ready(k)!ReadinessInit PROVE BeatInv(k)
  OBVIOUS
<1>1. PICK down : down = Ready(k)!Down
  OBVIOUS
<1>2. PublisherShape(down) /\ down.ok \in BOOLEAN /\ down.since \in Nat /\ down.waited \in Nat /\ down.failures = k.failures
        /\ down.pc = "down"
  BY <1>1, DownIsFresh DEF BeatConstants
<1>3. row = [i \in k.instance |-> Nil] /\ late = [i \in k.instance |-> {}] /\ publisher = [i \in k.instance |-> down]
  BY <1>1 DEF Ready!ReadinessInit
<1>4. RowsStand(k)
  BY <1>3 DEF RowsStand
<1>5. \A i \in k.instance : BeatStands(k, i)
  BY <1>2, <1>3 DEF BeatStands, BeatConstants
<1>. QED BY <1>4, <1>5 DEF BeatInv

LEMMA BeatsKeep ==
  ASSUME NEW k
  PROVE  BeatConstants(k) /\ BeatInv(k) /\ [Ready(k)!ReadinessNext]_(Ready(k)!readinessVars) => BeatInv(k)'
<1>. SUFFICES ASSUME BeatConstants(k), BeatInv(k), [Ready(k)!ReadinessNext]_(Ready(k)!readinessVars) PROVE BeatInv(k)'
  OBVIOUS
<1>1. CASE Ready(k)!Tick
  BY <1>1, BeatTicks
<1>2. ASSUME UNCHANGED <<row, late, publisher>> PROVE BeatInv(k)'
  BY <1>2 DEF BeatInv, RowsStand, BeatStands
<1>3. CASE UNCHANGED Ready(k)!readinessVars
  BY <1>2, <1>3 DEF Ready!readinessVars
<1>4. CASE Ready(k)!Prune
  BY <1>4, BeatPrunes
<1>5. ASSUME NEW g \in k.reader,
             Ready(k)!BeginRefresh(g) \/ Ready(k)!ReadAll(g) \/ Ready(k)!Refresh(g) \/ Ready(k)!RefreshFails(g)
               \/ Ready(k)!Restart(g)
      PROVE  BeatInv(k)'
  BY <1>2, <1>5 DEF Ready!BeginRefresh, Ready!ReadAll, Ready!Refresh, Ready!RefreshFails, Ready!Restart, Ready!Store
<1>6. ASSUME NEW i \in k.instance,
             \/ Ready(k)!Run(i) \/ Ready(k)!Write(i) \/ Ready(k)!Stop(i) \/ Ready(k)!Crash(i)
             \/ \E ok \in BOOLEAN : Ready(k)!Publish(i, ok) \/ Ready(k)!WriteFails(i, ok)
             \/ \E told \in late[i] : Ready(k)!Lands(i, told)
      PROVE  BeatInv(k)'
  BY <1>6, BeatRuns, BeatWrites, BeatStops, BeatCrashes, BeatPublishes, BeatFails, BeatLands
<1>. QED BY <1>1, <1>3, <1>4, <1>5, <1>6 DEF Ready!ReadinessNext

LEMMA BeatsSound ==
  ASSUME NEW k
  PROVE  BeatConstants(k) /\ BeatInv(k) => Ready(k)!ThreeFailuresAreBorne
<1>. SUFFICES ASSUME BeatConstants(k), BeatInv(k), NEW i \in k.instance,
                     publisher[i].pc \in {"idle", "writing"} /\ publisher[i].failures <= 3
              PROVE  row[i] # Nil /\ row[i].age <= k.maxAge
  BY DEF Ready!ThreeFailuresAreBorne
<1>1. BeatStands(k, i) /\ (row[i] # Nil => row[i].age \in Nat)
  BY DEF BeatInv, RowsStand, RowText
<1>2. publisher[i].failures \in Nat
  BY <1>1 DEF BeatStands
<1>3. /\ Aged(k, publisher[i].failures) \in Nat /\ Aged(k, publisher[i].failures + 1) \in Nat
      /\ Aged(k, publisher[i].failures) + k.interval <= k.maxAge /\ Aged(k, publisher[i].failures + 1) + k.timeout <= k.maxAge
  BY <1>2, AgedSteps
<1>. QED BY <1>1, <1>3 DEF BeatStands, BeatConstants

-----------------------------------------
(* The other services. *)

Moves == INSTANCE Migration WITH
  Task <- {"t"}, Node <- {"n1", "n2"}, Cluster <- {"c1", "c2"},
  NodeCluster <- [n \in {"n1", "n2"} |-> IF n = "n1" THEN "c1" ELSE "c2"], Binding <- [t \in {"t"} |-> "c1"],
  Registered <- {"c1"}, Unsteady <- {"n1"}, Replica <- {"r1"}, Ends <- {"COMPLETED"}, MaxAttempt <- 2, None <- Nil,
  row <- s1, ledger <- s2, outbox <- s3, ran <- s4, age <- s5, listed <- s6, snap <- s7, round <- s8,
  quiet <- s9, lost <- s10, moved <- s11

Triggers == INSTANCE FlowTriggers WITH
  Automation <- {1, 2}, Worker <- {w1, w2}, MaxTrigger <- 1, MaxVersion <- 2, MaxClaim <- 2, Expiry <- 1, None <- Nil,
  outbox <- s1, bound <- s2, run <- s3, version <- s4, enabled <- s5, worker <- s6, executed <- s7

Replays == INSTANCE FlowTriggers WITH
  Automation <- {1}, Worker <- {w1}, MaxTrigger <- 2, MaxVersion <- 2, MaxClaim <- 2, Expiry <- 1, None <- Nil,
  outbox <- s1, bound <- s2, run <- s3, version <- s4, enabled <- s5, worker <- s6, executed <- s7

Flows == INSTANCE FlowLifecycle WITH
  Author <- "author", Reviewer <- {"manager"}, Definition <- {"d1", "d2"}, MaxVersion <- 3, MaxRevision <- 5,
  MaxChange <- 2, None <- Nil,
  flow <- s1, snapshot <- s2, change <- s3, created <- s4, view <- s5, step <- s6, captured <- s7

Edits == INSTANCE CronCursors WITH
  Automation <- {"a"}, Producer <- {p}, Expression <- {1 .. 4, {2, 4}, {}}, Existing <- Nil, MaxTime <- 4,
  MaxEdit <- 3, None <- Nil,
  clock <- s1, wanted <- s2, cursor <- s3, fired <- s4, cycle <- s5, edits <- s6

Producers == INSTANCE CronCursors WITH
  Automation <- {"a", "b"}, Producer <- {p, q}, Expression <- {1 .. 3}, Existing <- 1 .. 3,
  MaxTime <- 3, MaxEdit <- 0, None <- Nil,
  clock <- s1, wanted <- s2, cursor <- s3, fired <- s4, cycle <- s5, edits <- s6

Replicas == INSTANCE CronCursors WITH
  Automation <- {"a"}, Producer <- {p, q}, Expression <- {{1, 3}, {2}}, Existing <- {1, 3},
  MaxTime <- 3, MaxEdit <- 1, None <- Nil,
  clock <- s1, wanted <- s2, cursor <- s3, fired <- s4, cycle <- s5, edits <- s6

Graph == INSTANCE FlowGraph WITH
  Node <- 1 .. 3, MaxHops <- 3,
  edges <- s1, engine <- s2, answered <- s3

Documents == INSTANCE Documents WITH
  Instance <- {1}, Client <- {"a", "b"}, MaxUpdate <- 3, MaxCrash <- 1, MaxEditors <- 2, RepliesLost <- FALSE,
  wal <- s1, counter <- s2, saved <- s3, doc <- s4, snapshot <- s5, conn <- s6, peers <- s7, ring <- s8,
  draining <- s9, acked <- s10, sent <- s11, crashes <- s12

Indexing == INSTANCE Knowledge WITH
  Worker <- {w1, w2}, Projector <- {p}, Editor <- {}, MaxVersion <- 2, MaxAttempts <- 2, MaxRemoval <- 0,
  publications <- s1, cycle <- s2, calling <- s3, orphans <- s4, source <- s5, queued <- s6, projector <- s7,
  vectors <- s8, reading <- s9, removals <- s10, texts <- s11

Clocks == INSTANCE CronCalendar WITH
  Hours <- 4, Minutes <- 2, Week <- 3, Cycle <- 9, Zone <- Zones, Expression <- Expressions, Outage <- {3, 17},
  Calendar <- <<<<1, 1>>, <<1, 2>>, <<1, 3>>, <<2, 1>>, <<1, 1>>, <<1, 2>>, <<1, 3>>, <<2, 1>>, <<2, 2>>>>,
  Horizon <- 44, MaxScanDays <- 11, MaxCatchUpSteps <- 3,
  zone <- s1, expression <- s2, schedule <- s3, cursor <- s4

Writers == INSTANCE SessionLog WITH
  Node <- {1, 2}, MaxSeq <- 3, MaxIncarnation <- 2, MaxFailure <- 1, MaxLate <- 0, None <- Nil,
  lease <- s1, log <- s2, head <- s3, session <- s4, tail <- s5, write <- s6, token <- s7, fenced <- s8,
  renewal <- s9, up <- s10, past <- s11

Leases == INSTANCE SessionLog WITH
  Node <- {1, 2}, MaxSeq <- 2, MaxIncarnation <- 2, MaxFailure <- 1, MaxLate <- 1, None <- Nil,
  lease <- s1, log <- s2, head <- s3, session <- s4, tail <- s5, write <- s6, token <- s7, fenced <- s8,
  renewal <- s9, up <- s10, past <- s11

Journal == INSTANCE ToolJournal WITH
  Call <- {c1, c2, r1}, Class <- {"idempotent", "non-idempotent", "unknown"}, MaxConfirm <- 1, None <- Nil,
  class <- s1, row <- s2, call <- s3, executed <- s4, confirms <- s5, mercy <- s6

Commands == INSTANCE JobControl WITH
  Job <- {1}, Command <- {c1, c2}, MaxFailure <- 1, MaxRestart <- 1, None <- Nil,
  job <- s1, known <- s2, execution <- s3, stream <- s4, record <- s5, command <- s6, batch <- s7,
  killed <- s8, count <- s9

Jobs == INSTANCE JobControl WITH
  Job <- {1, 2}, Command <- {c1}, MaxFailure <- 1, MaxRestart <- 1, None <- Nil,
  job <- s1, known <- s2, execution <- s3, stream <- s4, record <- s5, command <- s6, batch <- s7,
  killed <- s8, count <- s9

Mail == INSTANCE Mailbox WITH
  Waiter <- {w1, w2}, Settler <- {c1, c2}, Rejecting <- {c2}, Ttl <- 1, MaxRepeat <- 1, None <- Nil,
  future <- s1, settle <- s2, result <- s3, waiter <- s4

Inputs == INSTANCE Actuation WITH
  Round <- {p}, Ttl <- 1, Offered <- {"pause", "resume"}, MaxCommand <- 2, MaxMessage <- 2, NoRow <- w1, None <- Nil,
  row <- s1, cache <- s2, query <- s3, inbox <- s4, agent <- s5, acted <- s6, done <- s7, held <- s8,
  sent <- s9

Orders == INSTANCE Actuation WITH
  Round <- {p}, Ttl <- 2, Offered <- {"stop", "abort"}, MaxCommand <- 2, MaxMessage <- 1, NoRow <- w1, None <- Nil,
  row <- s1, cache <- s2, query <- s3, inbox <- s4, agent <- s5, acted <- s6, done <- s7, held <- s8,
  sent <- s9

Init ==
  \/ world = "moves" /\ Moves!Init /\ Empty11
  \/ world = "losses" /\ Nodes(LostOnce)!Init /\ Empty11
  \/ world = "outages" /\ Nodes(LostTwice)!Init /\ Empty11
  \/ world = "triggers" /\ Triggers!TriggerInit /\ Empty7
  \/ world = "replays" /\ Replays!TriggerInit /\ Empty7
  \/ world = "flows" /\ Flows!LifecycleInit /\ Empty7
  \/ world = "edits" /\ Edits!CronInit /\ Empty6
  \/ world = "producers" /\ Producers!CronInit /\ Empty6
  \/ world = "replicas" /\ Replicas!CronInit /\ Empty6
  \/ world = "graph" /\ Graph!GraphInit /\ Empty3
  \/ world = "documents" /\ Documents!DocInit
  \/ world = "indexing" /\ Indexing!KnowledgeInit /\ Empty11
  \/ world = "sources" /\ Sources!KnowledgeInit /\ Empty11
  \/ world = "grants" /\ Grants!OAuthInit /\ Empty8
  \/ world = "invocations" /\ Tools!InvocationInit /\ Empty5
  \/ world = "projects" /\ Projects!ProjectInit /\ Empty9
  \/ world = "requests" /\ Batch!CoalescerInit /\ Empty6
  \/ world = "calls" /\ Usage(Budgeted)!MeteringInit /\ Empty11
  \/ world = "ledger" /\ Usage(Billed)!MeteringInit /\ Empty11
  \/ world = "rollouts" /\ Rollouts!RolloutInit /\ Empty7
  \/ world = "provisions" /\ Installs(Provisioned)!InstallInit /\ Empty9
  \/ world = "calendar" /\ Clocks!CalendarInit /\ Empty4
  \/ world = "beats" /\ Ready(Beating)!ReadinessInit /\ Empty7
  \/ world = "gate" /\ Ready(Gated)!ReadinessInit /\ Empty7
  \/ world = "skills" /\ Skills(Undisturbed)!SkillReleaseInit /\ Empty7
  \/ world = "upgrades" /\ Skills(Restarted)!SkillReleaseInit /\ Empty7
  \/ world = "access" /\ Access(Persons)!AccessInit /\ Empty10
  \/ world = "agents" /\ Access(Agents)!AccessInit /\ Empty10
  \/ world = "writers" /\ Writers!SessionLogInit /\ Empty11
  \/ world = "leases" /\ Leases!SessionLogInit /\ Empty11
  \/ world = "journal" /\ Journal!JournalInit /\ Empty6
  \/ world = "commands" /\ Commands!JobInit /\ Empty9
  \/ world = "jobs" /\ Jobs!JobInit /\ Empty9
  \/ world = "mail" /\ Mail!MailboxInit /\ Empty4
  \/ world = "inputs" /\ Inputs!ActuationInit /\ Empty9
  \/ world = "orders" /\ Orders!ActuationInit /\ Empty9
  \/ world = "runtime" /\ Installs(Served)!InstallInit /\ Empty9

Next ==
  /\ UNCHANGED world
  /\ \/ world = "moves" /\ Moves!Next /\ UNCHANGED Beyond11
     \/ world = "losses" /\ Nodes(LostOnce)!Next /\ UNCHANGED Beyond11
     \/ world = "outages" /\ Nodes(LostTwice)!Next /\ UNCHANGED Beyond11
     \/ world = "triggers" /\ Triggers!TriggerNext /\ UNCHANGED Beyond7
     \/ world = "replays" /\ Replays!TriggerNext /\ UNCHANGED Beyond7
     \/ world = "flows" /\ Flows!LifecycleNext /\ UNCHANGED Beyond7
     \/ world = "edits" /\ Edits!CronNext /\ UNCHANGED Beyond6
     \/ world = "producers" /\ Producers!CronNext /\ UNCHANGED Beyond6
     \/ world = "replicas" /\ Replicas!CronNext /\ UNCHANGED Beyond6
     \/ world = "graph" /\ Graph!GraphNext /\ UNCHANGED Beyond3
     \/ world = "documents" /\ Documents!DocNext
     \/ world = "indexing" /\ Indexing!KnowledgeNext /\ UNCHANGED Beyond11
     \/ world = "sources" /\ Sources!KnowledgeNext /\ UNCHANGED Beyond11
     \/ world = "grants" /\ Grants!OAuthNext /\ UNCHANGED Beyond8
     \/ world = "invocations" /\ Tools!InvocationNext /\ UNCHANGED Beyond5
     \/ world = "projects" /\ Projects!ProjectNext /\ UNCHANGED Beyond9
     \/ world = "requests" /\ Batch!CoalescerNext /\ UNCHANGED Beyond6
     \/ world = "calls" /\ Usage(Budgeted)!MeteringNext /\ UNCHANGED Beyond11
     \/ world = "ledger" /\ Usage(Billed)!MeteringNext /\ UNCHANGED Beyond11
     \/ world = "rollouts" /\ Rollouts!RolloutNext /\ UNCHANGED Beyond7
     \/ world = "provisions" /\ Installs(Provisioned)!InstallNext /\ UNCHANGED Beyond9
     \/ world = "calendar" /\ Clocks!CalendarNext /\ UNCHANGED Beyond4
     \/ world = "beats" /\ Ready(Beating)!ReadinessNext /\ UNCHANGED Beyond7
     \/ world = "gate" /\ Ready(Gated)!ReadinessNext /\ UNCHANGED Beyond7
     \/ world = "skills" /\ Skills(Undisturbed)!SkillReleaseNext /\ UNCHANGED Beyond7
     \/ world = "upgrades" /\ Skills(Restarted)!SkillReleaseNext /\ UNCHANGED Beyond7
     \/ world = "access" /\ Access(Persons)!AccessNext /\ UNCHANGED Beyond10
     \/ world = "agents" /\ Access(Agents)!AccessNext /\ UNCHANGED Beyond10
     \/ world = "writers" /\ Writers!SessionLogNext /\ UNCHANGED Beyond11
     \/ world = "leases" /\ Leases!SessionLogNext /\ UNCHANGED Beyond11
     \/ world = "journal" /\ Journal!JournalNext /\ UNCHANGED Beyond6
     \/ world = "commands" /\ Commands!JobNext /\ UNCHANGED Beyond9
     \/ world = "jobs" /\ Jobs!JobNext /\ UNCHANGED Beyond9
     \/ world = "mail" /\ Mail!MailboxNext /\ UNCHANGED Beyond4
     \/ world = "inputs" /\ Inputs!ActuationNext /\ UNCHANGED Beyond9
     \/ world = "orders" /\ Orders!ActuationNext /\ UNCHANGED Beyond9
     \/ world = "runtime" /\ Installs(Served)!InstallNext /\ UNCHANGED Beyond9

Spec == Init /\ [][Next]_vars

\* A node is reported once its failure is evident, no failure is told of twice, and each thread finds one heir; and
\* management is served only by what was lately seen to be ready.
NodeLossHolds ==
  /\ world = "losses" => Nodes(LostOnce)!NodeLossHolds
  /\ world = "outages" => Nodes(LostTwice)!NodeLossHolds
  /\ world = "beats" => Ready(Beating)!ReadinessHolds
  /\ world = "gate" => Ready(Gated)!GateFailsClosed

\* Triggers are delivered once to each binding, published flows have their snapshots, the clocks of automations fire
\* once for each occurrence while one replica runs or nobody edits them, leave nothing behind and find what is in the
\* calendar, and the engine and the questions of lineage follow the graph.
FlowsHold ==
  /\ world = "triggers" => Triggers!TriggersHold
  /\ world = "replays" => Replays!TriggersHold
  /\ world = "flows" => Flows!PublishedHasSnapshot
  /\ world = "edits" => Edits!CursorsHold
  /\ world = "producers" => Producers!CursorsHold
  /\ world = "replicas" => Replicas!NothingBetween
  /\ world = "calendar" => Clocks!CalendarHolds
  /\ world = "graph" => Graph!GraphHolds

\* Acknowledged edits survive a crash, delivered publications are indexed, and the vector index follows its source; a session's
\* log has one writer at a time, a tool is not reached twice unasked, jobs are recorded and stopped as they should, a future has
\* one outcome, and an agent that is stopped keeps its input.
DocumentsHold ==
  /\ world = "documents" => Documents!AckedSurvives
  /\ world = "indexing" => Indexing!KnowledgeHolds
  /\ world = "sources" => Sources!KnowledgeHolds
  /\ world = "writers" => Writers!SessionLogHolds
  /\ world = "leases" => Leases!SessionLogHolds
  /\ world = "journal" => Journal!ReachedOnce
  /\ world = "commands" => Commands!JobsHold
  /\ world = "jobs" => Jobs!JobsHold
  /\ world = "mail" => Mail!MailboxHolds
  /\ world = "inputs" => Inputs!ActuationHolds
  /\ world = "orders" => Orders!ActuationHolds

\* The connector's credentials follow the user's wish and no token is forgotten; calls rest on approvals and the breaker.
ConnectorsHold ==
  /\ world = "grants" => Grants!GrantHolds
  /\ world = "invocations" => Tools!CallsHold

\* The rows of a project hang on it, and its decisions and reports form one history; skills are given as they are granted
\* and not as they are revoked.
RecordsHold ==
  /\ world = "projects" => Projects!RecordsHold
  /\ world = "access" => Access(Persons)!SkillAccessHolds
  /\ world = "agents" => Access(Agents)!SkillAccessHolds

\* Money charged is money used, nothing of it vanishes on its way to the ledger, and requests are not held too long.
UsageHolds ==
  /\ world = "requests" => Batch!CoalescerHolds
  /\ world = "calls" => Usage(Budgeted)!MeteringHolds
  /\ world = "ledger" => Usage(Billed)!MeteringHolds

\* What a channel selects can be fetched, what is released of a skill was approved, and what a node reports as converged is
\* on its disk.
ReleasesHold ==
  /\ world = "rollouts" => Rollouts!RolloutsHold
  /\ world = "skills" => Skills(Undisturbed)!SkillReleasesHold
  /\ world = "upgrades" => Skills(Restarted)!PublishedStands
  /\ world = "provisions" => Installs(Provisioned)!InstallsHold
  /\ world = "runtime" => Installs(Served)!InstallsHold

\* Tasks are moved or given up only when their place is lost, flow runs keep their outcomes, snapshots are reviewed, the
\* clocks of automations fire forward, also where replicas meet an edit, the log of a session is written by who holds its
\* lease, and an agent obeys in time.
WorkIsKept ==
  [][/\ world = "moves" => Moves!MovesAreSafe
     /\ world = "triggers" => Triggers!OutcomesKept
     /\ world = "replays" => Replays!OutcomesKept
     /\ world = "flows" => Flows!SnapshotsAreReviewed
     /\ world = "edits" => Edits!FiresForward
     /\ world = "producers" => Producers!FiresForward
     /\ world = "replicas" => Replicas!FiresForward
     /\ world = "writers" => Writers!WritersHoldTheLease
     /\ world = "leases" => Leases!WritersHoldTheLease
     /\ world = "inputs" => Inputs!CommandsTakeEffect
     /\ world = "orders" => Orders!CommandsTakeEffect]_vars

\* Confirmed reports stand, edits of sources are not lost, releases only widen, processes start from verified payloads,
\* and groups of requests leave when they are due.
RecordsAreKept ==
  [][/\ world = "projects" => Projects!RecordsStand
     /\ world = "sources" => Sources!NoEditIsLost
     /\ world = "rollouts" => Rollouts!ReleasesOnlyWiden
     /\ world = "runtime" => Installs(Served)!StartsAreVerified
     /\ world = "requests" => Batch!BatchesAreDue]_vars

-----------------------------------------
(* What is proved of the services together. *)

ServicesInv ==
  /\ world = "grants" => GrantsInv
  /\ world = "invocations" => CallsInv
  /\ world = "projects" => ProjectInv
  /\ world = "access" => AccessInv(Persons)
  /\ world = "agents" => AccessInv(Agents)
  /\ world = "rollouts" => RolloutInv
  /\ world = "skills" => ReleaseInv(Undisturbed)
  /\ world = "upgrades" => ReleaseInv(Restarted)
  /\ world = "provisions" => InstallInv(Provisioned)
  /\ world = "runtime" => InstallInv(Served) /\ DOMAIN process = {1}
  /\ world = "sources" => SeenStands
  /\ world = "requests" => TimersStand /\ CallersStand /\ ModelsStand /\ SeatsStand
  /\ world = "losses" => LossInv(LostOnce)
  /\ world = "outages" => LossInv(LostTwice)
  /\ world = "beats" => GateStands(Beating) /\ BeatInv(Beating)
  /\ world = "gate" => GateStands(Gated)
  /\ world = "calls" => MeteringInv(Budgeted)
  /\ world = "ledger" => MeteringInv(Billed)

LEMMA WorkersAreMeant == AccessConstants(Persons) /\ AccessConstants(Agents)
BY DEF AccessConstants, Persons, Agents, Granted, Entry

\* No row of a skill is taken for a missing one.
ASSUME NilIsNoRow == Nil \notin SkillText(Undisturbed) /\ Nil \notin SkillRow(Undisturbed)

LEMMA ReleasesAreMeant ==
  /\ ReleaseConstants(Undisturbed) /\ Undisturbed.restarts = 0
  /\ ReleaseConstants(Restarted) /\ Restarted.restarts \in Nat
BY NilIsNoRow DEF ReleaseConstants, SkillText, SkillRow, Skills!Digest, Undisturbed, Restarted

LEMMA NodesAreMeant ==
  /\ Installs(Provisioned)!None \notin Provisioned.version
  /\ Installs(Served)!None \notin Served.version /\ Served.version = {1}
BY DEF Installs!None, Provisioned, Served

\* Nor is a thread, a node or a report taken for none.
ASSUME NilIsNoEntity == Nil \notin 1 .. 3 /\ Nil \notin {"n1", "n2"} /\ Nil \notin RowText

LEMMA ThreadsAreMeant == LossConstants(LostOnce) /\ LossConstants(LostTwice)
<1>1. 1 \in Int /\ 2 \in Int /\ 3 \in Int /\ 1 .. 2 \subseteq 1 .. 3
  OBVIOUS
<1>2. IsFiniteSet(1 .. 3) /\ IsFiniteSet(1 .. 2)
  BY <1>1, FS_Interval
<1>. QED BY <1>1, <1>2, NilIsNoEntity DEF LossConstants, LostOnce, LostTwice

LEMMA ReportsAreMeant == GateConstants(Beating) /\ BeatConstants(Beating) /\ GateConstants(Gated)
BY NilIsNoEntity DEF GateConstants, BeatConstants, Beating, Gated

LEMMA BudgetsAreMeant == MeteringConstants(Budgeted) /\ MeteringConstants(Billed)
<1>1. IsFiniteSet((({} \cup {r1}) \cup {r2}) \cup {r3}) /\ IsFiniteSet(({} \cup {r1}) \cup {r2})
  BY FS_EmptySet, FS_AddElement
<1>2. {r1, r2, r3} = (({} \cup {r1}) \cup {r2}) \cup {r3} /\ {r1, r2} = ({} \cup {r1}) \cup {r2}
  OBVIOUS
<1>. QED BY <1>1, <1>2 DEF MeteringConstants, Budgeted, Billed

LEMMA ServicesStart == Init => ServicesInv
<1>. SUFFICES ASSUME Init PROVE ServicesInv
  OBVIOUS
<1>1. world = "grants" => GrantsInv
  BY GrantsInit DEF Init
<1>2. world = "invocations" => CallsInv
  BY CallsInit DEF Init
<1>3. world = "projects" => ProjectInv
  BY ProjectStarts DEF Init
<1>4. world = "access" => AccessInv(Persons)
  BY AccessStarts DEF Init
<1>5. world = "agents" => AccessInv(Agents)
  BY AccessStarts DEF Init
<1>6. world = "rollouts" => RolloutInv
  BY RolloutStarts DEF Init
<1>7. world = "skills" => ReleaseInv(Undisturbed)
  BY ReleaseStarts, ReleasesAreMeant DEF Init
<1>8. world = "upgrades" => ReleaseInv(Restarted)
  BY ReleaseStarts, ReleasesAreMeant DEF Init
<1>9. world = "provisions" => InstallInv(Provisioned)
  BY InstallStarts DEF Init
<1>10. world = "runtime" => InstallInv(Served) /\ DOMAIN process = {1}
  BY InstallStarts, NodesAreMeant DEF Init, Installs!InstallInit
<1>11. world = "sources" => SeenStands
  BY SeenStarts DEF Init
<1>12. world = "requests" => TimersStand /\ CallersStand /\ ModelsStand /\ SeatsStand
  BY TimersStart, CallersStart, ModelsStart, SeatsStart DEF Init
<1>13. world = "losses" => LossInv(LostOnce)
  BY LossStarts, ThreadsAreMeant DEF Init
<1>14. world = "outages" => LossInv(LostTwice)
  BY LossStarts, ThreadsAreMeant DEF Init
<1>15. world = "beats" => GateStands(Beating) /\ BeatInv(Beating)
  BY GateStarts, BeatsStart, ReportsAreMeant DEF Init
<1>16. world = "gate" => GateStands(Gated)
  BY GateStarts, ReportsAreMeant DEF Init
<1>17. world = "calls" => MeteringInv(Budgeted)
  BY MeteringStarts, BudgetsAreMeant DEF Init
<1>18. world = "ledger" => MeteringInv(Billed)
  BY MeteringStarts, BudgetsAreMeant DEF Init
<1>. QED BY <1>1, <1>2, <1>3, <1>4, <1>5, <1>6, <1>7, <1>8, <1>9, <1>10, <1>11, <1>12, <1>13, <1>14, <1>15, <1>16, <1>17,
            <1>18 DEF ServicesInv

\* A behaviour stays in its world, and is one of that world's service.
LEMMA WorldsPart ==
  ASSUME [Next]_vars
  PROVE  /\ UNCHANGED world
         /\ world = "grants" => [Grants!OAuthNext]_(Grants!oauthVars)
         /\ world = "invocations" => [Tools!InvocationNext]_(Tools!invocationVars)
         /\ world = "projects" => [Projects!ProjectNext]_(Projects!projectVars)
         /\ world = "access" => [Access(Persons)!AccessNext]_(Access(Persons)!accessVars)
         /\ world = "agents" => [Access(Agents)!AccessNext]_(Access(Agents)!accessVars)
         /\ world = "rollouts" => [Rollouts!RolloutNext]_(Rollouts!rolloutVars)
         /\ world = "skills" => [Skills(Undisturbed)!SkillReleaseNext]_(Skills(Undisturbed)!releaseVars)
         /\ world = "upgrades" => [Skills(Restarted)!SkillReleaseNext]_(Skills(Restarted)!releaseVars)
         /\ world = "provisions" => [Installs(Provisioned)!InstallNext]_(Installs(Provisioned)!installVars)
         /\ world = "runtime" => [Installs(Served)!InstallNext]_(Installs(Served)!installVars)
         /\ world = "sources" => [Sources!KnowledgeNext]_(Sources!knowledgeVars)
         /\ world = "requests" => [Batch!CoalescerNext]_(Batch!coalescerVars)
         /\ world = "losses" => [Nodes(LostOnce)!Next]_(Nodes(LostOnce)!vars)
         /\ world = "outages" => [Nodes(LostTwice)!Next]_(Nodes(LostTwice)!vars)
         /\ world = "beats" => [Ready(Beating)!ReadinessNext]_(Ready(Beating)!readinessVars)
         /\ world = "gate" => [Ready(Gated)!ReadinessNext]_(Ready(Gated)!readinessVars)
         /\ world = "calls" => [Usage(Budgeted)!MeteringNext]_(Usage(Budgeted)!meteringVars)
         /\ world = "ledger" => [Usage(Billed)!MeteringNext]_(Usage(Billed)!meteringVars)
BY DEF Next, vars, Beyond3, Beyond4, Beyond5, Beyond6, Beyond7, Beyond8, Beyond9, Beyond10, Beyond11,
   Grants!oauthVars, Tools!invocationVars, Projects!projectVars, Access!accessVars, Rollouts!rolloutVars,
   Skills!releaseVars, Installs!installVars, Sources!knowledgeVars, Batch!coalescerVars, Nodes!vars, Nodes!rows,
   Nodes!watch, Ready!readinessVars, Usage!meteringVars

LEMMA ServicesKeep == ServicesInv /\ [Next]_vars => ServicesInv'
<1>. SUFFICES ASSUME ServicesInv, [Next]_vars PROVE ServicesInv'
  OBVIOUS
<1>1. UNCHANGED world
  BY WorldsPart
<1>2. ASSUME world = "grants" PROVE GrantsInv'
  BY <1>2, WorldsPart, GrantsNext DEF ServicesInv
<1>3. ASSUME world = "invocations" PROVE CallsInv'
  BY <1>3, WorldsPart, CallsNext DEF ServicesInv
<1>4. ASSUME world = "projects" PROVE ProjectInv'
  BY <1>4, WorldsPart, ProjectKeeps DEF ServicesInv
<1>5. ASSUME world = "access" PROVE AccessInv(Persons)'
  BY <1>5, WorldsPart, AccessKeeps, WorkersAreMeant DEF ServicesInv
<1>6. ASSUME world = "agents" PROVE AccessInv(Agents)'
  BY <1>6, WorldsPart, AccessKeeps, WorkersAreMeant DEF ServicesInv
<1>7. ASSUME world = "rollouts" PROVE RolloutInv'
  BY <1>7, WorldsPart, RolloutKeeps, ChannelIsMeant DEF ServicesInv
<1>8. ASSUME world = "skills" PROVE ReleaseInv(Undisturbed)'
  BY <1>8, WorldsPart, ReleaseKeeps, ReleasesAreMeant DEF ServicesInv
<1>9. ASSUME world = "upgrades" PROVE ReleaseInv(Restarted)'
  BY <1>9, WorldsPart, ReleaseKeeps, ReleasesAreMeant DEF ServicesInv
<1>10. ASSUME world = "provisions" PROVE InstallInv(Provisioned)'
  BY <1>10, WorldsPart, InstallKeeps, NodesAreMeant DEF ServicesInv
<1>11. ASSUME world = "runtime" PROVE InstallInv(Served)' /\ DOMAIN process' = {1}
  BY <1>11, WorldsPart, InstallKeeps, ProcessesStay, NodesAreMeant DEF ServicesInv
<1>12. ASSUME world = "sources" PROVE SeenStands'
  BY <1>12, WorldsPart, SeenKeeps DEF ServicesInv
<1>13. ASSUME world = "requests" PROVE TimersStand' /\ CallersStand' /\ ModelsStand' /\ SeatsStand'
  BY <1>13, WorldsPart, TimersKeep, CallersKeep, ModelsKeep, SeatsKeep DEF ServicesInv
<1>14. ASSUME world = "losses" PROVE LossInv(LostOnce)'
  BY <1>14, WorldsPart, LossSteps, ThreadsAreMeant DEF ServicesInv
<1>15. ASSUME world = "outages" PROVE LossInv(LostTwice)'
  BY <1>15, WorldsPart, LossSteps, ThreadsAreMeant DEF ServicesInv
<1>16. ASSUME world = "beats" PROVE GateStands(Beating)' /\ BeatInv(Beating)'
  BY <1>16, WorldsPart, GateMoves, BeatsKeep, ReportsAreMeant DEF ServicesInv
<1>17. ASSUME world = "gate" PROVE GateStands(Gated)'
  BY <1>17, WorldsPart, GateMoves, ReportsAreMeant DEF ServicesInv
<1>18. ASSUME world = "calls" PROVE MeteringInv(Budgeted)'
  BY <1>18, WorldsPart, MeteringKeeps, BudgetsAreMeant DEF ServicesInv
<1>19. ASSUME world = "ledger" PROVE MeteringInv(Billed)'
  BY <1>19, WorldsPart, MeteringKeeps, BudgetsAreMeant DEF ServicesInv
<1>. QED BY <1>1, <1>2, <1>3, <1>4, <1>5, <1>6, <1>7, <1>8, <1>9, <1>10, <1>11, <1>12, <1>13, <1>14, <1>15, <1>16, <1>17,
            <1>18, <1>19 DEF ServicesInv

LEMMA ServicesStand == Spec => []ServicesInv
BY ServicesStart, ServicesKeep, PTL DEF Spec

\* A connected grant is the user's wish and its token is in the vault, no token is forgotten and no secret used twice;
\* calls of sensitive operations rest on one approval each, and the breaker is never stuck.
THEOREM ConnectorsStand == Spec => []ConnectorsHold
<1>1. ServicesInv => ConnectorsHold
  BY GrantsSound, CallsSound DEF ServicesInv, ConnectorsHold
<1>. QED BY <1>1, ServicesStand, PTL

\* What hangs on a project goes with it and superseding decisions point at each other; a steady revocation prevails in
\* every answer, and the answer is that of the highest grants, whatever administrators change while it is being read.
THEOREM RecordsAreSound == Spec => []RecordsHold
<1>1. ServicesInv => RecordsHold
  BY ProjectSound, AccessSound DEF ServicesInv, RecordsHold
<1>. QED BY <1>1, ServicesStand, PTL

\* What a channel selects can be fetched, what is released of a skill was approved as it is, and what the provisioner is about
\* to report as converged is on the disk, whatever crash an earlier round died of.
THEOREM ReleasesStand == Spec => []ReleasesHold
<1>1. ServicesInv => ReleasesHold
  <2>. SUFFICES ASSUME ServicesInv PROVE ReleasesHold
    OBVIOUS
  <2>2. world = "rollouts" => Rollouts!RolloutsHold
    BY RolloutSound, ChannelIsMeant DEF ServicesInv
  <2>3. world = "skills" => Skills(Undisturbed)!SkillReleasesHold
    BY ReleaseSound, ReleasesAreMeant DEF ServicesInv
  <2>4. world = "upgrades" => Skills(Restarted)!PublishedStands
    BY ReleaseSound DEF ServicesInv
  <2>5. world = "provisions" => Installs(Provisioned)!InstallsHold
    BY InstallSound DEF ServicesInv
  <2>6. world = "runtime" => Installs(Served)!InstallsHold
    BY InstallSound DEF ServicesInv
  <2>. QED BY <2>2, <2>3, <2>4, <2>5, <2>6 DEF ReleasesHold
<1>. QED BY <1>1, ServicesStand, PTL

\* An observer reports a node only when it has missed it for the grace, a notice tells of a failure and of one only, and the
\* work of a lost thread has one live successor; and the gate serves management only while its services are, or lately were,
\* ready, three failed reports in a row being borne.
THEOREM NodeLossStands == Spec => []NodeLossHolds
<1>1. ServicesInv => NodeLossHolds
  BY LossSound, ThreadsAreMeant, GateIsClosed, BeatsSound, ReportsAreMeant DEF ServicesInv, NodeLossHolds,
     Ready!ReadinessHolds
<1>. QED BY <1>1, ServicesStand, PTL

\* A request is held for a window at most and has a seat while it waits; what the trees have lost is what was used, none is
\* overrun by more than the calls on their way, and what is charged is in the ledger, on its way to it or given up.
THEOREM UsageStands == Spec => []UsageHolds
<1>1. ServicesInv => UsageHolds
  BY SeatsAreSound, MeteringIsSound, BudgetsAreMeant DEF ServicesInv, UsageHolds
<1>. QED BY <1>1, ServicesStand, PTL

\* Confirmed reports and superseded decisions stand, an edit replaces only what its caller has seen, a release only widens,
\* a process starts from a payload that was verified, and a group of requests leaves when it is due.
THEOREM RecordsStay == Spec => RecordsAreKept
<1>. DEFINE Kept ==
  /\ world = "projects" => Projects!RecordsStand
  /\ world = "sources" => Sources!NoEditIsLost
  /\ world = "rollouts" => Rollouts!ReleasesOnlyWiden
  /\ world = "runtime" => Installs(Served)!StartsAreVerified
  /\ world = "requests" => Batch!BatchesAreDue
<1>1. ServicesInv /\ [Next]_vars => Kept
  <2>. SUFFICES ASSUME ServicesInv, [Next]_vars PROVE Kept
    OBVIOUS
  <2>1. ASSUME world = "projects" PROVE Projects!RecordsStand
    BY <2>1, WorldsPart, ProjectStands DEF ServicesInv
  <2>2. ASSUME world = "sources" PROVE Sources!NoEditIsLost
    BY <2>2, WorldsPart, EditsStand DEF ServicesInv
  <2>3. ASSUME world = "rollouts" PROVE Rollouts!ReleasesOnlyWiden
    BY <2>3, WorldsPart, RolloutWidens, ChannelIsMeant DEF ServicesInv
  <2>4. ASSUME world = "runtime" PROVE Installs(Served)!StartsAreVerified
    BY <2>4, WorldsPart, OnlyVerifiedStart, NodesAreMeant DEF ServicesInv
  <2>5. ASSUME world = "requests" PROVE Batch!BatchesAreDue
    BY <2>5, WorldsPart, BatchesStand DEF ServicesInv
  <2>. QED BY <2>1, <2>2, <2>3, <2>4, <2>5
<1>2. Spec => [][Kept]_vars
  BY <1>1, ServicesStand, PTL DEF Spec
<1>. QED BY <1>2 DEF RecordsAreKept
===============================================================================
