--------------------------- MODULE OAuthGrants ---------------------------
(***************************************************************************)
(* connector-gateway, the grant of one user for one managed OAuth         *)
(* connector: the row of connector_oauth, the tokens in the vault, the     *)
(* schedule of their deletion, and the exchanges in flight between them.   *)
(*                                                                         *)
(* A login or a refresh commits the place its token will be stored in      *)
(* before it speaks to the provider, writes the token to the vault, and    *)
(* takes the row's lock again to mark the grant connected.  Any process    *)
(* may stop in between, and the user, an administrator or the maintenance  *)
(* loop may have moved the row meanwhile.                                  *)
(*                                                                         *)
(* A vault key carries the generation that reserved it, and is modelled    *)
(* by it; a refresh token is named by the key of the token it came with    *)
(* (a provider that rotates them), a code by the login it answers.         *)
(***************************************************************************)
EXTENDS Naturals, FiniteSets

CONSTANTS Worker,         \* requests that exchange a code or a refresh token
          MaxGeneration,  \* bound on the generations of the row
          MaxManifest     \* bound on the versions of the connector

VARIABLES connector,  \* the connector's version and whether it is enabled
          grant,      \* the row of connector_oauth
          tokens,     \* vault key -> the login its token came from, if it can be refreshed
          cleanup,    \* the keys of connector_oauth_cleanup
          sweeping,   \* the key the maintenance loop deletes, 0 for none
          request,    \* the exchange each worker has in flight
          consent,    \* the login the user wants to be in force, 0 for none
          spent       \* the codes and refresh tokens presented to the provider

oauthVars == <<connector, grant, tokens, cleanup, sweeping, request, consent, spent>>

Idle == [step |-> "idle", key |-> 0]
Fresh == [gen |-> 0, version |-> 0, state |-> "disconnected", key |-> 0, login |-> 0, late |-> FALSE]

OAuthInit ==
  /\ connector = [version |-> 1, enabled |-> TRUE]
  /\ grant = Fresh
  /\ tokens = << >> /\ cleanup = {} /\ sweeping = 0
  /\ request = [w \in Worker |-> Idle]
  /\ consent = 0 /\ spent = {}

Usable == connector.enabled
Keyed(g) == IF g.key = 0 THEN {} ELSE {g.key}

(* A new generation without a token; the key it leaves is scheduled for deletion. *)
Cleared(state) ==
  /\ grant' = [gen |-> grant.gen + 1, version |-> connector.version, state |-> state,
               key |-> 0, login |-> 0, late |-> FALSE]
  /\ cleanup' = cleanup \union Keyed(grant)

---------------------------------------------------------------------------
(* The user and the administrator. *)

Begin ==
  /\ Usable /\ grant.gen < MaxGeneration
  /\ cleanup' = cleanup \union Keyed(grant)
  /\ grant' = [gen |-> grant.gen + 1, version |-> connector.version, state |-> "authorizing",
               key |-> 0, login |-> grant.gen + 1, late |-> FALSE]
  /\ consent' = grant.gen + 1
  /\ UNCHANGED <<connector, tokens, sweeping, request, spent>>

Disconnect ==
  /\ grant.gen < MaxGeneration
  /\ Cleared("disconnected")
  /\ consent' = 0
  /\ UNCHANGED <<connector, tokens, sweeping, request, spent>>

Upsert ==
  /\ connector.version < MaxManifest
  /\ connector' = [version |-> connector.version + 1, enabled |-> TRUE]
  /\ UNCHANGED <<grant, tokens, cleanup, sweeping, request, consent, spent>>

Switch ==
  /\ connector' = [connector EXCEPT !.enabled = ~@]
  /\ UNCHANGED <<grant, tokens, cleanup, sweeping, request, consent, spent>>

---------------------------------------------------------------------------
(* An exchange.  The destination is committed, and scheduled for deletion, *)
(* before the code or the refresh token is used.                           *)

Reserve(w, phase, secret, login) ==
  LET key == grant.gen + 1 IN
  /\ grant.gen < MaxGeneration /\ request[w] = Idle
  /\ cleanup' = cleanup \union Keyed(grant) \union {key}
  /\ grant' = [gen |-> key, version |-> connector.version, state |-> phase,
               key |-> key, login |-> 0, late |-> FALSE]
  /\ request' = [request EXCEPT ![w] =
       [step |-> "exchange", phase |-> phase, key |-> key, version |-> connector.version,
        secret |-> secret, login |-> login, refreshable |-> FALSE]]
  /\ UNCHANGED <<connector, tokens, sweeping, consent, spent>>

(* The callback must name the login the row waits for. *)
Expected(login) ==
  /\ Usable /\ grant.version = connector.version
  /\ grant.state = "authorizing" /\ ~grant.late /\ grant.login = login

Complete(w, login) ==
  /\ Expected(login)
  /\ Reserve(w, "exchanging", <<"code", login>>, login)

Deny(login) ==
  /\ Expected(login) /\ grant.gen < MaxGeneration
  /\ Cleared("reauthorization_required")
  /\ UNCHANGED <<connector, tokens, sweeping, request, consent, spent>>

Connected == Usable /\ grant.version = connector.version /\ grant.state = "connected" /\ grant.key # 0

(* A token that is about to expire, or that the user wants renewed, is     *)
(* exchanged; one that is fresh is handed out without a change.            *)
Refresh(w) ==
  /\ Connected /\ grant.key \in DOMAIN tokens /\ tokens[grant.key].refreshable
  /\ Reserve(w, "refreshing", <<"refresh", grant.key>>, tokens[grant.key].login)

Exchange(w) ==
  /\ request[w].step = "exchange"
  /\ spent' = spent \union {request[w].secret}
  /\ \E refreshable \in BOOLEAN :
       request' = [request EXCEPT ![w].step = "write", ![w].refreshable = refreshable]
  /\ UNCHANGED <<connector, grant, tokens, cleanup, sweeping, consent>>

(* The provider may have used the secret up although its answer is lost. *)
ExchangeFails(w) ==
  /\ request[w].step = "exchange"
  /\ \E used \in {{}, {request[w].secret}} : spent' = spent \union used
  /\ request' = [request EXCEPT ![w].step = "fail"]
  /\ UNCHANGED <<connector, grant, tokens, cleanup, sweeping, consent>>

Stored(r) == [k \in DOMAIN tokens \union {r.key} |->
                IF k = r.key THEN [login |-> r.login, refreshable |-> r.refreshable] ELSE tokens[k]]

WriteToken(w) ==
  /\ request[w].step = "write"
  /\ tokens' = Stored(request[w])
  /\ \E next \in {"finish", "fail"} : request' = [request EXCEPT ![w].step = next]  \* "fail": the answer is lost
  /\ UNCHANGED <<connector, grant, cleanup, sweeping, consent, spent>>

(* Mutant: any exchange of this kind takes the row for its own. *)
ClaimedByAny(r) == grant.state = r.phase

Claimed(r) == grant.gen = r.key /\ grant.state = r.phase

(* The grant is this exchange's to connect. *)
MayFinish(r) == Usable /\ connector.version = r.version /\ Claimed(r) /\ ~grant.late

Finish(w) ==
  /\ request[w].step = "finish"
  /\ IF MayFinish(request[w])
     THEN grant' = [grant EXCEPT !.state = "connected"]
     ELSE UNCHANGED grant
  /\ request' = [request EXCEPT ![w] = Idle]
  /\ UNCHANGED <<connector, tokens, cleanup, sweeping, consent, spent>>

Fail(w) ==
  /\ request[w].step = "fail"
  /\ IF Claimed(request[w]) /\ grant.gen < MaxGeneration
     THEN Cleared("reauthorization_required")
     ELSE UNCHANGED <<grant, cleanup>>
  /\ request' = [request EXCEPT ![w] = Idle]
  /\ UNCHANGED <<connector, tokens, sweeping, consent, spent>>

(* The replica stops; nothing of the exchange but its commits survives. *)
Crash(w) ==
  /\ request[w] # Idle
  /\ request' = [request EXCEPT ![w] = Idle]
  /\ UNCHANGED <<connector, grant, tokens, cleanup, sweeping, consent, spent>>

---------------------------------------------------------------------------
(* Maintenance. *)

(* The five minutes of a login, or the ninety seconds of an exchange, pass. *)
DeadlinePasses ==
  /\ grant.state \in {"authorizing", "exchanging", "refreshing"} /\ ~grant.late
  /\ grant' = [grant EXCEPT !.late = TRUE]
  /\ UNCHANGED <<connector, tokens, cleanup, sweeping, request, consent, spent>>

Live == {"authorizing", "exchanging", "refreshing", "connected"}

(* A token that cannot be refreshed may have expired at any time. *)
Retire ==
  /\ grant.gen < MaxGeneration
  /\ \/ grant.version # connector.version /\ grant.state \in Live
     \/ grant.late
     \/ grant.state = "connected" /\ ~tokens[grant.key].refreshable
  /\ Cleared("reauthorization_required")
  /\ UNCHANGED <<connector, tokens, sweeping, request, consent, spent>>

(* A key is due ten minutes after it was scheduled: no exchange that may   *)
(* still write to it is that old (45 seconds and one vault call).          *)
(* Mutant: the key a grant uses is deleted when its schedule says so. *)
Scheduled(k) == k \in cleanup

Orphaned(k) == k # grant.key

SelectKey(k) ==
  /\ sweeping = 0 /\ k \in cleanup
  /\ \A w \in Worker : request[w].key # k
  /\ Orphaned(k)
  /\ sweeping' = k
  /\ UNCHANGED <<connector, grant, tokens, cleanup, request, consent, spent>>

DestroyToken ==
  /\ sweeping # 0 /\ sweeping \in DOMAIN tokens
  /\ tokens' = [k \in DOMAIN tokens \ {sweeping} |-> tokens[k]]
  /\ UNCHANGED <<connector, grant, cleanup, sweeping, request, consent, spent>>

(* The row goes once the vault has answered that the token is gone. *)
ForgetKey ==
  /\ sweeping # 0 /\ sweeping \notin DOMAIN tokens
  /\ cleanup' = cleanup \ {sweeping}
  /\ sweeping' = 0
  /\ UNCHANGED <<connector, grant, tokens, request, consent, spent>>

AbandonSweep ==
  /\ sweeping # 0 /\ sweeping' = 0
  /\ UNCHANGED <<connector, grant, tokens, cleanup, request, consent, spent>>

---------------------------------------------------------------------------
OAuthNext ==
  \/ Begin \/ Disconnect \/ Upsert \/ Switch \/ DeadlinePasses \/ Retire
  \/ \E login \in 1 .. MaxGeneration : Deny(login)
  \/ \E w \in Worker, login \in 1 .. MaxGeneration : Complete(w, login)
  \/ \E w \in Worker :
       Refresh(w) \/ Exchange(w) \/ ExchangeFails(w) \/ WriteToken(w) \/ Finish(w) \/ Fail(w) \/ Crash(w)
  \/ \E k \in 1 .. MaxGeneration : SelectKey(k)
  \/ DestroyToken \/ ForgetKey \/ AbandonSweep

---------------------------------------------------------------------------
(* What the status page says of the grant. *)
Shown ==
  IF grant.late \/ (grant.state # "disconnected" /\ ~(Usable /\ grant.version = connector.version))
  THEN "reauthorization_required" ELSE grant.state

(* A connected grant's token is in the vault, and it came from the login   *)
(* the user started last and has not disconnected since, whatever older    *)
(* exchange completes late; after a disconnect the page never says         *)
(* connected.                                                              *)
GrantIsConsented ==
  /\ grant.state = "connected" =>
       grant.key \in DOMAIN tokens /\ tokens[grant.key].login = consent
  /\ consent = 0 => Shown # "connected"

(* No token stays in the vault that the gateway has lost track of: its key *)
(* is scheduled for deletion from before the token exists until after it   *)
(* is gone.                                                                *)
TokensAreTracked == DOMAIN tokens \subseteq cleanup

(* A code or a rotating refresh token is presented to the provider at most *)
(* once, also after a crash or a lost answer.                              *)
SecretsAreUsedOnce ==
  LET asking == {w \in Worker : request[w].step = "exchange"} IN
  \A w \in asking :
    /\ request[w].secret \notin spent
    /\ \A v \in asking \ {w} : request[v].secret # request[w].secret

(* The promises of a grant together. *)
GrantHolds == GrantIsConsented /\ TokensAreTracked /\ SecretsAreUsedOnce
==========================================================================
