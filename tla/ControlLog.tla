------------------------------ MODULE ControlLog ------------------------------
(***************************************************************************)
(* What session-control promises of a session's control state, whoever     *)
(* asks and however many instances serve: commands take effect one at a    *)
(* time, each on the state the previous one left, each one legal there,    *)
(* each one revision further, and the realm of the first one for ever.     *)
(***************************************************************************)
EXTENDS SessionState, Naturals

CONSTANTS Session, Realm, Pulse, NoRow, NoPulse

VARIABLE row    \* row[s]: the control state row of session s, or NoRow

FreshRow(r) == [realm |-> r, state |-> InitialState, rev |-> 0,
                last |-> NoPulse, cmd |-> NoCommand]

\* Rows a former deployment may have left: no revision yet, any state but the
\* one no program writes.
LegacyRows ==
  [realm : Realm, state : States \ {"awaiting-approval"}, rev : {0},
   last : {NoPulse}, cmd : {NoCommand}]

Init == row \in [Session -> LegacyRows \cup {NoRow}]

\* Command c of realm r, carried by pulse p, takes effect on session s.
Effect(s, r, c, p) ==
  LET cur == IF row[s] = NoRow THEN FreshRow(r) ELSE row[s]
  IN  /\ cur.realm = r
      /\ TakesEffect(cur.state, c)
      /\ row' = [row EXCEPT ![s] =
                   [realm |-> r, state |-> Target(cur.state, c),
                    rev |-> cur.rev + 1, last |-> p, cmd |-> c]]

Next == \E s \in Session, r \in Realm, c \in Commands, p \in Pulse : Effect(s, r, c, p)

Spec == Init /\ [][Next]_row
===============================================================================
