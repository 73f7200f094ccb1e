------------------------------ MODULE Documents ------------------------------
(* The collaborator's hot path for one document: an edit is appended to the    *)
(* Redis log, then noted in the memory of the instance that holds the document *)
(* and acknowledged; a snapshot merges the log into PostgreSQL and trims it; a *)
(* document is opened from the saved state and the tail of the log.  Several   *)
(* instances route the document by a hash ring each of them refreshes from     *)
(* Nacos at its own pace; a connection is routed only when it is made.         *)
(* An update is a number, a CRDT state the set of updates merged into it.      *)
EXTENDS Integers, Sequences, FiniteSets, FiniteSetsExt, SequencesExt

CONSTANTS
    Instance,    \* instances, numbered in the ring order of the document
    Client,      \* connections of distinct users
    MaxUpdate,   \* bound: updates sent
    MaxCrash,    \* bound: crashes of instances, and losses of the counter
    MaxEditors,  \* domain.Limits.MaxEditorsPerDoc
    RepliesLost  \* whether a trim may take effect and still report an error

VARIABLES
    wal,         \* the Redis list: records [seq, u]
    counter,     \* the Redis key the sequence numbers are drawn from
    saved,       \* collab_state: [state, seq]
    doc,         \* per instance: the open document, or Closed
    snapshot,    \* per instance: Snapshot's local values
    conn,        \* per client: the connection's handler
    peers,       \* the healthy instances Nacos reports
    ring,        \* per instance: the ring it uses
    draining,    \* instances that no longer open documents
    acked,       \* updates acknowledged to their senders
    sent, crashes

docVars == <<wal, counter, saved, doc, snapshot, conn, peers, ring, draining,
             acked, sent, crashes>>

Closed == [open |-> FALSE]
Idle   == [at |-> "idle"]
Off    == [at |-> "off"]

\* OwnerOf: with one document, the ring order decides among the members
OwnerOf(i) == IF ring[i] = {} THEN 0 ELSE Max(ring[i])
IsMine(i)  == OwnerOf(i) = i

Updates(log) == {log[k].u : k \in DOMAIN log}
\* Mutant: the record after the saved one is skipped.
ReadWALPast(from) == SelectSeq(wal, LAMBDA r : r.seq > from + 1)

\* ReadWALFrom: the records numbered above from

ReadWALFrom(from) == SelectSeq(wal, LAMBDA r : r.seq > from)
MaxWALSeq(base, tail) == Max({base, base + Len(tail)} \cup {r.seq : r \in ToSet(tail)})
\* Mutant: the whole log goes.
TrimmedAll(upto) == <<>>

Trimmed(upto) == ReadWALFrom(upto)

DocInit ==
    /\ wal = <<>> /\ counter = 0 /\ saved = [state |-> {}, seq |-> 0]
    /\ doc = [i \in Instance |-> Closed]
    /\ snapshot = [i \in Instance |-> Idle]
    /\ conn = [c \in Client |-> Off]
    /\ peers = {} /\ ring = [i \in Instance |-> {}] /\ draining = {}
    /\ acked = {} /\ sent = 0 /\ crashes = 0

-----------------------------------------------------------------------------
Set(c, r) == conn' = [conn EXCEPT ![c] = r]
Subscribers(i) == {c \in Client : conn[c].at \in {"joined", "appended"} /\ conn[c].on = i}
Opening(i) == {c \in Client : conn[c].at \in {"loaded", "tailed"} /\ conn[c].on = i}

\* NacosPeerSync.sync: register, list, replace the ring
Sync(i) ==
    /\ ring[i] # peers \cup {i}
    /\ peers' = peers \cup {i}
    /\ ring' = [ring EXCEPT ![i] = peers']
    /\ UNCHANGED <<wal, counter, saved, doc, snapshot, conn, draining, acked, sent, crashes>>

\* handleWS, Hub.Open: the owner reuses an open document; otherwise it loads
\* the saved state, unless it is draining
Connect(c, i) ==
    /\ conn[c] = Off /\ IsMine(i)
    /\ IF doc[i].open
       THEN /\ Cardinality(Subscribers(i)) < MaxEditors
            /\ Set(c, [at |-> "joined", on |-> i])
       ELSE /\ i \notin draining
            /\ Set(c, [at |-> "loaded", on |-> i, state |-> saved.state, seq |-> saved.seq])
    /\ UNCHANGED <<wal, counter, saved, doc, snapshot, peers, ring, draining, acked, sent, crashes>>

\* Mutant: the counter stays where the loss of its key left it.
KeptLow(n) == counter

\* ... reads the tail of the log and lifts the counter to it
Raised(n) == Max({counter, n})
ReadTail(c) ==
    /\ conn[c].at = "loaded"
    /\ LET top == MaxWALSeq(conn[c].seq, ReadWALFrom(conn[c].seq)) IN
         /\ counter' = Raised(top)
         /\ Set(c, [at |-> "tailed", on |-> conn[c].on, state |-> conn[c].state,
                    seq |-> conn[c].seq, top |-> top])
    /\ UNCHANGED <<wal, saved, doc, snapshot, peers, ring, draining, acked, sent, crashes>>

\* ... and installs it, unless another Open was faster; then Subscribe
Install(c) ==
    /\ conn[c].at = "tailed"
    /\ LET i == conn[c].on IN
         /\ doc' = IF doc[i].open THEN doc
                   ELSE [doc EXCEPT ![i] = [open |-> TRUE, state |-> conn[c].state,
                                            stateSeq |-> conn[c].seq, walSeq |-> conn[c].top,
                                            dirty |-> FALSE]]
         /\ Set(c, IF Cardinality(Subscribers(i)) < MaxEditors
                   THEN [at |-> "joined", on |-> i] ELSE Off)
    /\ UNCHANGED <<wal, counter, saved, snapshot, peers, ring, draining, acked, sent, crashes>>

\* Hub.Apply, first half: the append draws the number and pushes the record
AppendWAL(c) ==
    /\ conn[c].at = "joined" /\ sent < MaxUpdate
    /\ doc[conn[c].on].open
    /\ sent' = sent + 1 /\ counter' = counter + 1
    /\ wal' = Append(wal, [seq |-> counter', u |-> sent'])
    /\ Set(c, [at |-> "appended", on |-> conn[c].on, seq |-> counter', u |-> sent'])
    /\ UNCHANGED <<saved, doc, snapshot, peers, ring, draining, acked, crashes>>

\* Hub.Apply, second half, then the acknowledgement of handleWS
Acknowledge(c) ==
    /\ conn[c].at = "appended"
    /\ LET i == conn[c].on IN
         doc' = [doc EXCEPT ![i] = [@ EXCEPT !.walSeq = conn[c].seq, !.dirty = TRUE]]
    /\ acked' = acked \cup {conn[c].u}
    /\ Set(c, [at |-> "joined", on |-> conn[c].on])
    /\ UNCHANGED <<wal, counter, saved, snapshot, peers, ring, draining, sent, crashes>>

\* the reply to an append is lost: the record stays, its sender sees an error
AppendUnanswered(c) ==
    /\ conn[c].at = "appended"
    /\ Set(c, [at |-> "joined", on |-> conn[c].on])
    /\ UNCHANGED <<wal, counter, saved, doc, snapshot, peers, ring, draining, acked, sent, crashes>>

Leave(c) ==
    /\ conn[c].at \in {"joined", "loaded", "tailed"}
    /\ Set(c, Off)
    /\ UNCHANGED <<wal, counter, saved, doc, snapshot, peers, ring, draining, acked, sent, crashes>>

-----------------------------------------------------------------------------
\* Snapshot: reads the memory of a dirty document ...
Take(i) ==
    /\ snapshot[i] = Idle /\ doc[i].open /\ doc[i].dirty
    /\ snapshot' = [snapshot EXCEPT ![i] = [at |-> "taken", state |-> doc[i].state,
                        from |-> doc[i].stateSeq, seq |-> doc[i].walSeq]]
    /\ UNCHANGED <<wal, counter, saved, doc, conn, peers, ring, draining, acked, sent, crashes>>

\* ... merges the log above the last saved number into it ...
Merged(i) == snapshot[i].state \cup Updates(ReadWALFrom(snapshot[i].from))
Merge(i) ==
    /\ snapshot[i].at = "taken"
    /\ snapshot' = [snapshot EXCEPT ![i] = [@ EXCEPT !.at = "merged", !.state = Merged(i)]]
    /\ UNCHANGED <<wal, counter, saved, doc, conn, peers, ring, draining, acked, sent, crashes>>

\* ... saves the result with the number read at first ...
SaveState(i) ==
    /\ snapshot[i].at = "merged"
    /\ saved' = [state |-> snapshot[i].state, seq |-> snapshot[i].seq]
    /\ snapshot' = [snapshot EXCEPT ![i].at = "saved"]
    /\ UNCHANGED <<wal, counter, doc, conn, peers, ring, draining, acked, sent, crashes>>

\* ... trims the log up to it and notes both in memory, unless the replies of the trim, of the client's retries
\* included, are lost
StillDirty(i) == doc[i].walSeq > snapshot[i].seq
Trim(i) ==
    /\ snapshot[i].at = "saved"
    /\ wal' = Trimmed(snapshot[i].seq)
    /\ \E answered \in {TRUE, ~RepliesLost} :
         doc' = IF answered THEN [doc EXCEPT ![i] = [@ EXCEPT !.state = snapshot[i].state, !.stateSeq = snapshot[i].seq,
                                                              !.dirty = StillDirty(i)]]
                            ELSE doc
    /\ snapshot' = [snapshot EXCEPT ![i] = Idle]
    /\ UNCHANGED <<counter, saved, conn, peers, ring, draining, acked, sent, crashes>>

\* an error of the log, the merge kernel or the database ends the round
Abandon(i) ==
    /\ snapshot[i] # Idle
    /\ snapshot' = [snapshot EXCEPT ![i] = Idle]
    /\ UNCHANGED <<wal, counter, saved, doc, conn, peers, ring, draining, acked, sent, crashes>>

\* EvictIdle; an Open takes less than IdleEvictAfter, so none is under way
Evictable(i) == Subscribers(i) = {} /\ ~doc[i].dirty
EvictIdle(i) ==
    /\ doc[i].open /\ Evictable(i) /\ Opening(i) = {}
    /\ doc' = [doc EXCEPT ![i] = Closed]
    /\ UNCHANGED <<wal, counter, saved, snapshot, conn, peers, ring, draining, acked, sent, crashes>>

Drain(i) ==
    /\ i \notin draining /\ ring[i] # {}
    /\ draining' = draining \cup {i}
    /\ UNCHANGED <<wal, counter, saved, doc, snapshot, conn, peers, ring, acked, sent, crashes>>

\* the process ends, drained or not, and another takes its place
Crash(i) ==
    /\ crashes < MaxCrash /\ ring[i] # {}
    /\ crashes' = crashes + 1
    /\ doc' = [doc EXCEPT ![i] = Closed]
    /\ snapshot' = [snapshot EXCEPT ![i] = Idle]
    /\ conn' = [c \in Client |-> IF conn[c] # Off /\ conn[c].on = i THEN Off ELSE conn[c]]
    /\ ring' = [ring EXCEPT ![i] = {}]
    /\ draining' = draining \ {i}
    /\ UNCHANGED <<wal, counter, saved, peers, acked, sent>>

\* the counter's key is lost while no instance holds the document
LoseCounter ==
    /\ crashes < MaxCrash /\ counter > 0
    /\ \A i \in Instance : ~doc[i].open /\ Opening(i) = {}
    /\ crashes' = crashes + 1 /\ counter' = 0
    /\ UNCHANGED <<wal, saved, doc, snapshot, conn, peers, ring, draining, acked, sent>>

DocNext ==
    \/ \E i \in Instance : \/ Sync(i) \/ Take(i) \/ Merge(i) \/ SaveState(i) \/ Trim(i)
                           \/ Abandon(i) \/ EvictIdle(i) \/ Drain(i) \/ Crash(i)
                           \/ \E c \in Client : Connect(c, i)
    \/ \E c \in Client : \/ ReadTail(c) \/ Install(c) \/ AppendWAL(c) \/ Acknowledge(c)
                         \/ AppendUnanswered(c) \/ Leave(c)
    \/ LoseCounter

DocSpec == DocInit /\ [][DocNext]_docVars
-----------------------------------------------------------------------------
Recoverable == saved.state \cup Updates(ReadWALFrom(saved.seq))

\* what a sender was told is saved can be opened again: it is in the saved state
\* or in the part of the log an Open reads (hub.go Apply, "RPO 0")
AckedSurvives == acked \subseteq Recoverable

\* an update acknowledged by the instance that holds the document is part of the
\* saved state unless the document is marked for the next snapshot (hub.go
\* Snapshot: "keep the document dirty")
CleanIsSaved ==
    \A i \in Instance : doc[i].open /\ ~doc[i].dirty /\ snapshot[i] = Idle
                            => Updates(wal) \cap acked \subseteq saved.state

=============================================================================
