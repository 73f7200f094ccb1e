------------------------------ MODULE Knowledge ------------------------------
(* From a published document to what a search recalls, for one source: the     *)
(* collaborator's publish outbox, the dispatchers that call the knowledge seam *)
(* at least once, the provider's source row with its monotonic version, and    *)
(* the projection of that row to the remote vector index, queued in the same   *)
(* transaction.  Curated sources are edited, removed and rebuilt beside it.    *)
EXTENDS Integers, Sequences, FiniteSets, SequencesExt

CONSTANTS
    Worker,       \* dispatchers, one per collaborator replica
    Projector,    \* drainers of the vector queue, one per host
    Editor,       \* callers of upsertSource, removeSource and rebuild
    MaxVersion,   \* bound: publications and edits
    MaxAttempts,  \* Dispatcher.maxAttempts
    MaxRemoval    \* bound: removals

VARIABLES
    publications, \* collab_publish_outbox by version: [dispatched, attempts]
    cycle,        \* per dispatcher: the rows it still has to handle
    calling,      \* dispatchers that wait for the seam's answer
    orphans,      \* versions of calls whose caller has stopped waiting
    source,       \* knowledge_sources: [version, text], or None
    queued,       \* whether knowledge_vector_outbox has the source's row
    projector,    \* per drainer: the transaction it is in
    vectors,      \* what the remote index holds
    reading,      \* per editor: what it has read
    removals, texts

knowledgeVars == <<publications, cycle, calling, orphans, source, queued, projector,
                   vectors, reading, removals, texts>>

None == [version |-> 0, text |-> 0]
Idle == [at |-> "idle"]

KnowledgeInit ==
    /\ publications = <<>>
    /\ cycle = [w \in Worker |-> <<>>] /\ calling = {} /\ orphans = {}
    /\ source = None /\ queued = FALSE
    /\ projector = [p \in Projector |-> Idle] /\ vectors = None
    /\ reading = [e \in Editor |-> Idle]
    /\ removals = 0 /\ texts = 0

-----------------------------------------------------------------------------
\* Publish: the version, the snapshot and the outbox row in one transaction
Publish ==
    /\ Worker # {} /\ Len(publications) < MaxVersion
    /\ publications' = Append(publications, [dispatched |-> FALSE, attempts |-> 0])
    /\ UNCHANGED <<cycle, calling, orphans, source, queued, projector, vectors,
                   reading, removals, texts>>

\* PendingPublishes: read in order, claimed by nobody
Pending == SelectSeq([v \in DOMAIN publications |-> v],
                     LAMBDA v : ~publications[v].dispatched /\ publications[v].attempts < MaxAttempts)
Scan(w) ==
    /\ cycle[w] = <<>> /\ Pending # <<>>
    /\ cycle' = [cycle EXCEPT ![w] = Pending]
    /\ UNCHANGED <<publications, calling, orphans, source, queued, projector, vectors,
                   reading, removals, texts>>

Call(w) ==
    /\ cycle[w] # <<>> /\ w \notin calling
    /\ calling' = calling \cup {w}
    /\ UNCHANGED <<publications, cycle, orphans, source, queued, projector, vectors,
                   reading, removals, texts>>

\* the row lock of a drainer makes the transactions that queue the source wait
Locked == \E p \in Projector : projector[p] # Idle
\* writeSource: the source and its place in the queue commit together
Write(version, text) ==
    /\ ~Locked
    /\ source' = [version |-> version, text |-> text]
    /\ queued' = TRUE

\* Mutant: an older version overwrites a newer one.
AdmitsAny(version) == TRUE

\* the provider's ingest under the source's lock: an older version is a conflict
Admits(version) == source.version <= version

\* Mutant: only a terminal refusal counts as an attempt.
FailedUncounted(row, terminal) ==
    IF ~row.dispatched /\ terminal THEN [row EXCEPT !.attempts = MaxAttempts] ELSE row

\* RecordDispatchFailure: a row confirmed meanwhile is left alone
Failed(row, terminal) ==
    IF row.dispatched THEN row
    ELSE [row EXCEPT !.attempts = IF terminal THEN MaxAttempts ELSE @ + 1]
Done(w) ==
    /\ cycle' = [cycle EXCEPT ![w] = Tail(@)]
    /\ calling' = calling \ {w}

\* the seam ingests the row and the dispatcher confirms it; the confirmation
\* may fail, and the row is read again
Ingested(w, confirmed) ==
    /\ w \in calling
    /\ LET v == Head(cycle[w]) IN
         /\ Admits(v) /\ Write(v, v)
         /\ publications' = IF confirmed THEN [publications EXCEPT ![v].dispatched = TRUE]
                            ELSE publications
    /\ Done(w)
    /\ UNCHANGED <<orphans, projector, vectors, reading, removals, texts>>

\* the seam refuses the row, or cannot serve it; only a conflict needs a cause
Refused(w, terminal) ==
    /\ w \in calling
    /\ LET v == Head(cycle[w]) IN
         publications' = [publications EXCEPT ![v] = Failed(@, terminal)]
    /\ Done(w)
    /\ UNCHANGED <<orphans, source, queued, projector, vectors, reading, removals, texts>>

\* the caller stops waiting and the seam goes on
TimedOut(w) ==
    /\ w \in calling
    /\ LET v == Head(cycle[w]) IN
         /\ publications' = [publications EXCEPT ![v] = Failed(@, FALSE)]
         /\ orphans' = orphans \cup {v}
    /\ Done(w)
    /\ UNCHANGED <<source, queued, projector, vectors, reading, removals, texts>>
LateIngest(v) ==
    /\ v \in orphans
    /\ orphans' = orphans \ {v}
    /\ IF Admits(v) THEN Write(v, v) ELSE UNCHANGED <<source, queued>>
    /\ UNCHANGED <<publications, cycle, calling, projector, vectors, reading, removals, texts>>

-----------------------------------------------------------------------------
\* remove: the source goes, the index has to follow
Withdraw ==
    /\ removals < MaxRemoval /\ source # None /\ ~Locked
    /\ removals' = removals + 1
    /\ source' = None /\ queued' = TRUE
    /\ UNCHANGED <<publications, cycle, calling, orphans, projector, vectors, reading, texts>>

\* an editor, or rebuild, reads the source; embedding happens outside the lock
Read(e, what) ==
    /\ reading[e] = Idle
    /\ what = "rebuild" => source # None
    /\ reading' = [reading EXCEPT ![e] = [at |-> what, seen |-> source]]
    /\ UNCHANGED <<publications, cycle, calling, orphans, source, queued, projector,
                   vectors, removals, texts>>

\* Mutant: the expected version is not compared.
UnchangedOrNot(e) == TRUE

\* the expected version must still be the current one
Unchanged(e) == reading[e].seen.version = source.version
\* upsertSource
Save(e) ==
    /\ reading[e].at = "edit" /\ texts < MaxVersion
    /\ IF Unchanged(e)
       THEN /\ texts' = texts + 1
            /\ Write(source.version + 1, texts')
       ELSE UNCHANGED <<source, queued, texts>>
    /\ reading' = [reading EXCEPT ![e] = Idle]
    /\ UNCHANGED <<publications, cycle, calling, orphans, projector, vectors, removals>>

\* removeSource
Delete(e) ==
    /\ reading[e].at = "edit" /\ removals < MaxRemoval /\ ~Locked
    /\ IF source # None /\ Unchanged(e)
       THEN source' = None /\ queued' = TRUE /\ removals' = removals + 1
       ELSE UNCHANGED <<source, queued, removals>>
    /\ reading' = [reading EXCEPT ![e] = Idle]
    /\ UNCHANGED <<publications, cycle, calling, orphans, projector, vectors, texts>>

\* rebuild writes back what it has read while the version is the same
Rebuild(e) ==
    /\ reading[e].at = "rebuild"
    /\ IF source # None /\ Unchanged(e)
       THEN Write(reading[e].seen.version, reading[e].seen.text)
       ELSE UNCHANGED <<source, queued>>
    /\ reading' = [reading EXCEPT ![e] = Idle]
    /\ UNCHANGED <<publications, cycle, calling, orphans, projector, vectors, removals, texts>>

-----------------------------------------------------------------------------
\* Mutant: two drainers take the same row.
UnlockedOrNot == TRUE

\* drainVectorProjection: lock the row (others skip it) and read the source ...
Free == ~Locked
LockRow(p) ==
    /\ projector[p] = Idle /\ queued /\ Free
    /\ projector' = [projector EXCEPT ![p] = [at |-> "locked", seen |-> source]]
    /\ UNCHANGED <<publications, cycle, calling, orphans, source, queued, vectors,
                   reading, removals, texts>>

\* ... empty the remote index ...
Clear(p) ==
    /\ projector[p].at = "locked"
    /\ vectors' = None
    /\ projector' = [projector EXCEPT ![p].at = "cleared"]
    /\ UNCHANGED <<publications, cycle, calling, orphans, source, queued, reading,
                   removals, texts>>

\* ... fill it again, take the row off the queue and commit
Fill(p) ==
    /\ projector[p].at = "cleared"
    /\ vectors' = projector[p].seen
    /\ queued' = FALSE
    /\ projector' = [projector EXCEPT ![p] = Idle]
    /\ UNCHANGED <<publications, cycle, calling, orphans, source, reading, removals, texts>>

\* the host dies or the index fails: the transaction is rolled back
RollBack(p) ==
    /\ projector[p] # Idle
    /\ projector' = [projector EXCEPT ![p] = Idle]
    /\ \/ UNCHANGED vectors
       \/ projector[p].at = "cleared" /\ vectors' = projector[p].seen
    /\ UNCHANGED <<publications, cycle, calling, orphans, source, queued, reading,
                   removals, texts>>

\* a dispatcher's cycle; an attempt that is not confirmed leaves no trace in the outbox
Attempt(w) == TimedOut(w) \/ Ingested(w, TRUE) \/ \E b \in BOOLEAN : Refused(w, b)
Dispatch(w) == Scan(w) \/ Call(w) \/ Attempt(w) \/ Ingested(w, FALSE)

KnowledgeNext ==
    \/ Publish \/ Withdraw
    \/ \E w \in Worker : Dispatch(w)
    \/ \E v \in orphans : LateIngest(v)
    \/ \E e \in Editor : Read(e, "edit") \/ Read(e, "rebuild") \/ Save(e) \/ Delete(e) \/ Rebuild(e)
    \/ \E p \in Projector : LockRow(p) \/ Clear(p) \/ Fill(p) \/ RollBack(p)

KnowledgeSpec == KnowledgeInit /\ [][KnowledgeNext]_knowledgeVars

-----------------------------------------------------------------------------
\* a confirmed publication, or a later one, is what the source holds, however
\* calls were repeated, delayed or overtaken
DeliveredIsIndexed ==
    \A v \in DOMAIN publications :
        publications[v].dispatched => removals > 0 \/ source.version >= v

\* with nothing queued the remote index holds exactly the current source
IndexFollowsSource == ~queued => vectors = source

\* a save and a rebuild replace only the text their caller has seen, as long as
\* the source was never removed: versions start over with a new source
NoEditIsLost ==
    \A e \in Editor :
        reading[e] # Idle /\ reading'[e] = Idle /\ source' # source /\ removals = 0
            => source.text = reading[e].seen.text

\* every publication was confirmed or given up, and the index shows the source
Settled ==
    /\ \A v \in DOMAIN publications : publications[v].dispatched \/ publications[v].attempts >= MaxAttempts
    /\ ~queued /\ vectors = source

KnowledgeHolds == DeliveredIsIndexed /\ IndexFollowsSource
=============================================================================
