------------------------------- MODULE PulseLock ------------------------------
(***************************************************************************)
(* What the control queue of one session promises to the pulses that use   *)
(* it: a turn that one pulse owns at a time.  The owner keeps it until it  *)
(* hands it back itself or has held it for longer than MaxHold; nobody     *)
(* else can take it away, and a pulse owns it at most once.                *)
(***************************************************************************)
EXTENDS Naturals

CONSTANTS Pulse, NoPulse, MaxHold

VARIABLES
  owner,   \* the pulse whose turn it is, or NoPulse
  since,   \* when the owner's turn began
  status,  \* status[p]: "out", "in" (was granted and acts on it) or "gone"
  clock

vars == <<owner, since, status, clock>>

Init ==
  /\ owner = NoPulse
  /\ since = 0
  /\ status = [p \in Pulse |-> "out"]
  /\ clock = 0

\* The free turn, or the one just given up, goes to q or to nobody.  The
\* instant its holding is counted from may lie a little back.
Successor(left) ==
  \/ owner' = NoPulse /\ status' = left
  \/ \E q \in Pulse :
       /\ left[q] = "out"
       /\ owner' = q
       /\ status' = [left EXCEPT ![q] = "in"]

Take == owner = NoPulse /\ Successor(status) /\ since' \in 0..clock /\ UNCHANGED clock

\* p is done, or gives back what it was granted too late.
GiveBack(p) ==
  /\ status[p] = "in"
  /\ IF owner = p
     THEN Successor([status EXCEPT ![p] = "gone"])
     ELSE status' = [status EXCEPT ![p] = "gone"] /\ UNCHANGED owner
  /\ since' \in 0..clock /\ (owner' = owner => since' = since)
  /\ UNCHANGED clock

\* p goes home without ever having owned the turn.
Leave(p) ==
  /\ status[p] = "out"
  /\ status' = [status EXCEPT ![p] = "gone"]
  /\ UNCHANGED <<owner, since, clock>>

\* The owner has held the turn too long; it goes on and does not own it.
Evict ==
  /\ owner # NoPulse /\ clock - since > MaxHold
  /\ Successor(status)
  /\ since' \in 0..clock
  /\ UNCHANGED clock

Tick == clock' = clock + 1 /\ UNCHANGED <<owner, since, status>>

Next == Take \/ Evict \/ Tick \/ \E p \in Pulse : GiveBack(p) \/ Leave(p)

Spec == Init /\ [][Next]_vars
===============================================================================
