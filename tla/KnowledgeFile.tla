---------------------------- MODULE KnowledgeFile ----------------------------
(***************************************************************************)
(* One file of a Milvus knowledge base: its row in PostgreSQL, the document *)
(* versions and chunks of it in PostgreSQL and Milvus, and the durable tasks*)
(* that parse and index it.  Every transaction, and every call to Milvus, is*)
(* one step; an advisory lock serialises the tasks on the file, and each of *)
(* their writes to PostgreSQL is fenced by the lease of the task and by the *)
(* owner columns of the file.  The HTTP deletion takes neither.             *)
(*                                                                         *)
(* These task types have one attempt and one worker runs it, so a task is   *)
(* also the processing_owner.  A task indexes the file at most once, so its *)
(* version has its name.  Neo4j and the chunk rows in PostgreSQL go along   *)
(* with the vectors in Milvus: they are deleted by the same calls, before   *)
(* or after them, with the same outcome for the caller.                     *)
(***************************************************************************)
EXTENDS Naturals

CONSTANTS
    Task,       \* durable tasks that work on the file
    Older,      \* a version published before they start
    None,       \* SQL NULL
    MaxAttempts \* max_attempts of knowledge_parent_child_cleanup

ASSUME OlderIsNoTask == Older \notin Task /\ None \notin Task \cup {Older}
ASSUME MaxAttemptsPositive == MaxAttempts \in Nat \ {0}

VARIABLES
    status,     \* KnowledgeFile.status; "deleted" after the row
    owner,      \* KnowledgeFile.processing_task_id and processing_owner
    path,       \* indexing_path in KnowledgeFile.processing_params
    markdown,   \* KnowledgeFile.markdown_file is set
    ver,        \* KnowledgeDocumentVersion.status; "gone" after the row
    vec,        \* child vectors of a version in Milvus
    chunks,     \* chunks of the single_chunk path in Milvus
    task,       \* TaskRecord.status; "expired" is running past its lease
    pc,         \* where the task's handler is
    todo,       \* what the handler still does with the file
    old,        \* the active version that the handler read before staging its own
    lock,       \* holder of the knowledge-file-processing advisory lock
    cleanup,    \* the durable cleanup task of a version
    tries,      \* its attempt_count
    deletion,   \* how far an HTTP deletion of the file has got
    unsettled,  \* history: owners that went on although the write that settles the file raised
    forgotten   \* history: superseded versions for which no cleanup task could be created

file    == <<status, owner, path, markdown>>
index   == <<ver, vec, chunks>>
handler == <<pc, todo, old, lock>>
cleaner == <<cleanup, tries>>
history == <<unsettled, forgotten>>
vars    == <<file, index, handler, cleaner, task, deletion, history>>

Version == Task \cup {Older}
Amount  == {"none", "some", "all"}

\* delete_file_chunks_only: the owner is checked, then the chunks, the child
\* vectors and the rows are deleted one after the other.
Clearing == {"ownChunks", "delChunks", "ownVectors", "delVectors", "ownRows", "delRows", "ownLast"}
Building == Clearing \cup {"parse", "reset", "store", "finish", "stage"}
Staged   == {"insert", "readback", "activate"}
Undoing  == {"rollVec", "rollRow", "fail"}
Settling == {"cleanVec", "cleanRow", "enqueue", "leave"}
Working  == Building \cup Staged \cup Undoing \cup Settling

TypeOK ==
    /\ status \in {"uploaded", "parsing", "error_parsing", "parsed", "indexing",
                   "error_indexing", "indexed", "deleted"}
    /\ owner    \in Task \cup {None}
    /\ path     \in {"single_chunk", "parent_child"}
    /\ markdown \in BOOLEAN
    /\ ver      \in [Version -> {"none", "staging", "active", "superseded", "gone"}]
    /\ vec      \in [Version -> Amount]
    /\ chunks   \in Amount
    /\ task     \in [Task -> {"pending", "running", "expired", "ended"}]
    /\ pc       \in [Task -> {"off", "next", "stop", "dead"} \cup Working]
    /\ todo     \in [Task -> SUBSET {"parse", "index"}]
    /\ old      \in [Task -> Version \cup {None}]
    /\ lock     \in Task \cup {None}
    /\ cleanup  \in [Version -> {"none", "queued", "swept", "failed", "done"}]
    /\ tries    \in [Version -> 0..MaxAttempts]
    /\ deletion \in {"no", "chunks", "vectors", "rows", "stopped", "done"}
    /\ unsettled \in SUBSET Task
    /\ forgotten \in SUBSET (Version \cup {None})

\* A new file, one indexed by the single_chunk path (perhaps by a release that
\* kept no Markdown), or one with a published parent_child version.
Init ==
    /\ ver \in [Version -> {"none", "active"}]
    /\ \A t \in Task : ver[t] = "none"
    /\ \/ status = "uploaded" /\ chunks = "none" /\ markdown = FALSE
          /\ path \in {"single_chunk", "parent_child"} /\ ver[Older] = "none"
       \/ status = "indexed" /\ chunks = "all" /\ markdown \in BOOLEAN
          /\ path = "single_chunk" /\ ver[Older] = "none"
       \/ status = "indexed" /\ chunks = "none" /\ markdown = TRUE
          /\ path = "parent_child" /\ ver[Older] = "active"
    /\ vec      = [v \in Version |-> IF ver[v] = "active" THEN "all" ELSE "none"]
    /\ owner    = None
    /\ task     = [t \in Task |-> "pending"]
    /\ pc       = [t \in Task |-> "off"]
    /\ todo     = [t \in Task |-> {}]
    /\ old      = [t \in Task |-> None]
    /\ lock     = None
    /\ cleanup  = [v \in Version |-> "none"]
    /\ tries    = [v \in Version |-> 0]
    /\ deletion = "no"
    /\ unsettled = {} /\ forgotten = {}

-----------------------------------------------------------------------------
(* Fences and failure hook.                                                *)

Live(t) == task[t] = "running"

\* update_fields_if_status with the owner filter: the task row is locked and its
\* lease checked, then the file has to be in the state the attempt left it in.
Fence(t, st) == Live(t) /\ status = st /\ owner = t

\* Mutant: only an interrupted indexing is converged.
FailIndexing(t) ==
    IF owner = t /\ status = "indexing"
    THEN status' = "error_indexing" /\ owner' = None
    ELSE UNCHANGED <<status, owner>>

\* fail_task_processing_in_session, the failure hook of the task types.
FailProcessing(t) ==
    IF owner = t /\ status \in {"parsing", "indexing"}
    THEN /\ status' = IF status = "parsing" THEN "error_parsing" ELSE "error_indexing"
         /\ owner' = None
    ELSE UNCHANGED <<status, owner>>

\* The file row gets a settled status and no owner.
Release(st) == status' = st /\ owner' = None

Goto(t, label) == pc' = [pc EXCEPT ![t] = label]

-----------------------------------------------------------------------------
(* The task around the handler.                                            *)

\* knowledge_ingest parses and may index; knowledge_parse, knowledge_index and
\* knowledge_reslice do one of the two.
Start(t, work) ==
    /\ task[t] = "pending"
    /\ work # {}
    /\ task' = [task EXCEPT ![t] = "running"]
    /\ todo' = [todo EXCEPT ![t] = work]
    /\ Goto(t, "next")
    /\ UNCHANGED <<file, index, old, lock, cleaner, history, deletion>>

\* The handler returns, or raises because a file failed: with a live lease the
\* task ends, in the second case with the hook.
EndTask(t) ==
    /\ pc[t] = "next"
    /\ todo[t] = {}
    /\ Goto(t, "off")
    /\ IF Live(t)
       THEN /\ task' = [task EXCEPT ![t] = "ended"]
            /\ \/ FailProcessing(t)
               \/ UNCHANGED <<status, owner>>
       ELSE UNCHANGED <<task, status, owner>>
    /\ UNCHANGED <<path, markdown, index, todo, old, lock, cleaner, history, deletion>>

\* raise_if_cancelled between two files: cancelled, shut down, or lease lost.
Interrupt(t) ==
    /\ pc[t] = "next"
    /\ Goto(t, "stop")
    /\ todo' = [todo EXCEPT ![t] = {}]
    /\ UNCHANGED <<file, index, old, lock, cleaner, history, task, deletion>>

\* A CancelledError reaches process_task: it settles the task with the hook, or
\* nothing if the lease is gone.
EndCancelled(t) ==
    /\ pc[t] = "stop"
    /\ Goto(t, "off")
    /\ IF Live(t)
       THEN task' = [task EXCEPT ![t] = "ended"] /\ FailProcessing(t)
       ELSE UNCHANGED <<task, status, owner>>
    /\ UNCHANGED <<path, markdown, index, todo, old, lock, cleaner, history, deletion>>

\* No heartbeat came in time; the handler may still be at work.
Expire(t) ==
    /\ Live(t)
    /\ task' = [task EXCEPT ![t] = "expired"]
    /\ UNCHANGED <<file, index, handler, cleaner, history, deletion>>

\* reconcile_expired_leases fails the task with its hook, in one transaction.
ReconcileLease(t) ==
    /\ task[t] = "expired"
    /\ task' = [task EXCEPT ![t] = "ended"]
    /\ FailProcessing(t)
    /\ UNCHANGED <<path, markdown, index, handler, cleaner, history, deletion>>

\* The worker dies; PostgreSQL drops the lock with the connection.
Crash(t) ==
    /\ pc[t] \notin {"off", "dead"}
    /\ Goto(t, "dead")
    /\ lock' = IF lock = t THEN None ELSE lock
    /\ todo' = [todo EXCEPT ![t] = {}]
    /\ UNCHANGED <<file, index, old, cleaner, history, task, deletion>>

-----------------------------------------------------------------------------
(* Claims, under the lock.                                                 *)

\* Mutant: the lock keeps nobody out.
IgnoreLock(t) == pc[t] = "next"

\* lock_file_processing polls until it has the lock.
MayLock(t) == pc[t] = "next" /\ lock = None

\* A file that cannot be claimed raises ValueError, which the handler swallows.
Skip(t) == todo' = [todo EXCEPT ![t] = {}] /\ UNCHANGED <<file, pc, old, lock>>

\* _parse_file_locked up to the claim; request parameters may set the path.
ClaimParse(t) ==
    /\ MayLock(t)
    /\ "parse" \in todo[t]
    /\ IF Live(t) /\ status \in {"uploaded", "error_parsing"}
       THEN /\ status' = "parsing" /\ owner' = t
            /\ path' \in {"single_chunk", "parent_child"}
            /\ lock' = t
            /\ Goto(t, "parse")
            /\ UNCHANGED <<markdown, todo, old>>
       ELSE Skip(t)
    /\ UNCHANGED <<index, cleaner, history, task, deletion>>

\* What follows a claim to index along path p, when the file was indexed by the
\* single_chunk path before (has_legacy_index).
FirstStep(p, legacy) ==
    IF ~markdown THEN "reset"
    ELSE IF p = "single_chunk" \/ legacy THEN "ownChunks" ELSE "stage"

\* _index_file_locked up to the claim.  The row it loads before the claim differs
\* from the claimed one only by the hook of an earlier task, and neither an
\* intermediate nor a failed status makes has_legacy_index true.
ClaimIndex(t, p) ==
    /\ MayLock(t)
    /\ todo[t] = {"index"}
    /\ IF Live(t) /\ status \in {"parsed", "error_indexing", "indexed"}
       THEN /\ status' = "indexing" /\ owner' = t
            /\ path' = p
            /\ lock' = t
            /\ Goto(t, FirstStep(p, path # "parent_child" /\ status = "indexed"))
            /\ UNCHANGED <<markdown, todo, old>>
       ELSE Skip(t)
    /\ UNCHANGED <<index, cleaner, history, task, deletion>>

\* The lock is given back; the handler goes on, or a CancelledError ends it.  An
\* ingest that failed to parse does not index.
LeaveFile(t, label, rest) ==
    /\ Goto(t, label)
    /\ lock' = IF lock = t THEN None ELSE lock
    /\ todo' = [todo EXCEPT ![t] = rest]
    /\ old' = [old EXCEPT ![t] = None]

Parse(t) ==
    /\ pc[t] = "parse"
    /\ IF Fence(t, "parsing")
       THEN /\ Release("parsed") /\ markdown' = TRUE
            /\ LeaveFile(t, "next", todo[t] \ {"parse"})
       ELSE Goto(t, "fail") /\ UNCHANGED <<status, owner, markdown, todo, old, lock>>
    /\ UNCHANGED <<path, index, cleaner, history, task, deletion>>

\* The write that settles the file raises an ordinary exception: the loop over the files
\* records it as a failed item, as it does for a file that failed, and goes on.
SettleRaises(t) ==
    /\ LeaveFile(t, "next", {})
    /\ unsettled' = IF owner = t THEN unsettled \cup {t} ELSE unsettled
    /\ UNCHANGED <<status, owner>>

\* A claimed file without Markdown goes back to be parsed; or the fence or a cancellation
\* stops the attempt; or the write raises.
ResetUploaded(t) ==
    /\ pc[t] = "reset"
    /\ \/ /\ \/ Fence(t, "indexing") /\ Release("uploaded") /\ LeaveFile(t, "next", {})
             \/ UNCHANGED <<status, owner>> /\ LeaveFile(t, "stop", {})
          /\ UNCHANGED unsettled
       \/ SettleRaises(t)
    /\ UNCHANGED <<path, markdown, index, cleaner, forgotten, task, deletion>>

-----------------------------------------------------------------------------
(* delete_file_chunks_only and the single_chunk path.                      *)

\* What is deleted after which check of the owner.
Clear == [ownChunks |-> "delChunks", ownVectors |-> "delVectors",
          ownRows |-> "delRows", ownLast |-> "done"]

\* _assert_file_processing_owner; the last check also sets the counts to zero.
AssertOwner(t) ==
    /\ pc[t] \in DOMAIN Clear
    /\ Goto(t, IF ~Fence(t, "indexing") THEN "fail"
               ELSE IF pc[t] # "ownLast" THEN Clear[pc[t]]
               ELSE IF path = "single_chunk" THEN "store" ELSE "stage")
    /\ UNCHANGED <<file, index, todo, old, lock, cleaner, history, task, deletion>>

DeleteChunks == chunks' = "none" /\ UNCHANGED <<ver, vec>>

\* _delete_file_child_chunks_from_all_collections: of whatever version.
DeleteVectors == vec' = [v \in Version |-> "none"] /\ UNCHANGED <<ver, chunks>>

\* delete_by_file_id and delete_active_by_file_id.
DeleteRows ==
    /\ ver' = [v \in Version |-> IF ver[v] = "active" THEN "gone" ELSE ver[v]]
    /\ UNCHANGED <<vec, chunks>>

ClearStep(t) ==
    /\ \/ pc[t] = "delChunks"  /\ DeleteChunks  /\ Goto(t, "ownVectors")
       \/ pc[t] = "delVectors" /\ DeleteVectors /\ Goto(t, "ownRows")
       \/ pc[t] = "delRows"    /\ DeleteRows    /\ Goto(t, "ownLast")
    /\ UNCHANGED <<file, todo, old, lock, cleaner, history, task, deletion>>

\* _embed_and_store_chunks, batch by batch.
Store(t) ==
    /\ pc[t] = "store"
    /\ chunks' \in {"some", "all"}
    /\ Goto(t, IF chunks' = "all" THEN "finish" ELSE "store")
    /\ UNCHANGED <<file, ver, vec, todo, old, lock, cleaner, history, task, deletion>>

FinishSingle(t) ==
    /\ pc[t] = "finish"
    /\ IF Fence(t, "indexing")
       THEN Release("indexed") /\ LeaveFile(t, "next", {})
       ELSE Goto(t, "fail") /\ UNCHANGED <<status, owner, todo, old, lock>>
    /\ UNCHANGED <<path, markdown, index, cleaner, history, task, deletion>>

-----------------------------------------------------------------------------
(* _index_parent_child_file.                                               *)

ActiveOrNone ==
    IF \E v \in Version : ver[v] = "active"
    THEN CHOOSE v \in Version : ver[v] = "active"
    ELSE None

\* get_active_version, then create_staging_version.
Stage(t) ==
    /\ pc[t] = "stage"
    /\ IF status # "deleted"
       THEN /\ old' = [old EXCEPT ![t] = ActiveOrNone]
            /\ ver' = [ver EXCEPT ![t] = "staging"]
            /\ Goto(t, "insert")
       ELSE Goto(t, "fail") /\ UNCHANGED <<old, ver>>
    /\ UNCHANGED <<file, vec, chunks, todo, lock, cleaner, history, task, deletion>>

\* The rows of the staging version, then its vectors, perhaps not all of them.
Insert(t) ==
    /\ pc[t] = "insert"
    /\ IF ver[t] = "staging"
       THEN /\ \E some \in {"some", "all"} : vec' = [vec EXCEPT ![t] = some]
            /\ Goto(t, "readback")
       ELSE Goto(t, "rollVec") /\ UNCHANGED vec
    /\ UNCHANGED <<file, ver, chunks, todo, old, lock, cleaner, history, task, deletion>>

\* flush, then every vector has to be found.
ReadBack(t) ==
    /\ pc[t] = "readback"
    /\ Goto(t, IF vec[t] = "all" THEN "activate" ELSE "rollVec")
    /\ UNCHANGED <<file, index, todo, old, lock, cleaner, history, task, deletion>>

\* activate_version: the versions and the file change in the transaction that
\* checks the lease; from its commit on nothing is rolled back.
Activate(t) ==
    /\ pc[t] = "activate"
    /\ IF Fence(t, "indexing") /\ ver[t] = "staging"
       THEN /\ ver' = [v \in Version |-> IF v = t THEN "active"
                                         ELSE IF ver[v] = "active" THEN "superseded"
                                         ELSE ver[v]]
            /\ Release("indexed")
            /\ Goto(t, IF old[t] = None THEN "leave" ELSE "cleanVec")
       ELSE Goto(t, "rollVec") /\ UNCHANGED <<ver, status, owner>>
    /\ UNCHANGED <<path, markdown, vec, chunks, todo, old, lock, cleaner, history, task,
                   deletion>>

\* Mutant: a failure after the activation undoes the new version.
CleanupFailedUndoes(t) == Goto(t, "rollVec")

\* Mutant: a failed cleanup is only logged.
CleanupFailedLeaves(t) == Goto(t, "leave")

\* A failed cleanup is left to a durable task.
CleanupFailed(t) == Goto(t, "enqueue")

\* Mutant: the version row goes although its vectors could not be deleted.
CleanVectorsUnchecked(t) ==
    LET v == old[t] IN
    /\ pc[t] = "cleanVec"
    /\ \/ ver[v] = "gone" /\ Goto(t, "leave") /\ UNCHANGED vec
       \/ ver[v] # "gone" /\ CleanupFailed(t) /\ UNCHANGED vec
       \/ /\ ver[v] = "superseded" /\ Live(t)
          /\ vec' = [vec EXCEPT ![v] = "none"]
          /\ Goto(t, "cleanRow")
       \/ ver[v] = "superseded" /\ Live(t) /\ UNCHANGED vec /\ Goto(t, "cleanRow")
    /\ UNCHANGED <<file, ver, chunks, todo, old, lock, cleaner, history, task, deletion>>

\* cleanup_superseded_parent_child_version, which checks the lease before each
\* side effect: first the vectors.
CleanVectors(t) ==
    LET v == old[t] IN
    /\ pc[t] = "cleanVec"
    /\ \/ ver[v] = "gone" /\ Goto(t, "leave") /\ UNCHANGED vec
       \/ ver[v] # "gone" /\ CleanupFailed(t) /\ UNCHANGED vec
       \/ /\ ver[v] = "superseded" /\ Live(t)
          /\ vec' = [vec EXCEPT ![v] = "none"]
          /\ Goto(t, "cleanRow")
    /\ UNCHANGED <<file, ver, chunks, todo, old, lock, cleaner, history, task, deletion>>

\* Then, only if that worked, delete_version.
CleanRow(t) ==
    /\ pc[t] = "cleanRow"
    /\ \/ CleanupFailed(t) /\ UNCHANGED ver
       \/ /\ Live(t)
          /\ ver' = [ver EXCEPT ![old[t]] = "gone"]
          /\ Goto(t, "leave")
    /\ UNCHANGED <<file, vec, chunks, todo, old, lock, cleaner, history, task, deletion>>

\* _enqueue_superseded_parent_child_cleanup; if it raises, the exception is deferred
\* and becomes a failed item: nobody cleans that version any more.
EnqueueCleanup(t) ==
    LET v == old[t] IN
    /\ pc[t] = "enqueue"
    /\ \/ /\ cleanup' = [cleanup EXCEPT ![v] = IF @ = "none" THEN "queued" ELSE @]
          /\ UNCHANGED forgotten
       \/ forgotten' = forgotten \cup {v} /\ UNCHANGED cleanup
    /\ Goto(t, "leave")
    /\ UNCHANGED <<file, index, todo, old, lock, tries, task, deletion, unsettled>>

\* The result is returned, or a cancellation that came meanwhile raised.
Leave(t) ==
    /\ pc[t] = "leave"
    /\ \E label \in {"next", "stop"} : LeaveFile(t, label, {})
    /\ UNCHANGED <<file, index, cleaner, history, task, deletion>>

-----------------------------------------------------------------------------
(* Failures inside the handler.                                            *)

\* Conversion, embedding, MinIO or Milvus fails, or a cancellation arrives.  A
\* failed batch deletes the stored chunks, if it can.
Fail(t) ==
    /\ \/ pc[t] \in Building \ {"reset"} /\ Goto(t, "fail")
       \/ pc[t] \in Staged /\ Goto(t, "rollVec")
    /\ IF pc[t] = "store" THEN chunks' \in {"none", chunks} ELSE UNCHANGED chunks
    /\ UNCHANGED <<file, ver, vec, todo, old, lock, cleaner, history, task, deletion>>

\* The rollback of a version that was not activated.  Its failures are logged
\* and a second cancellation skips the rest.
RollBackVectors(t) ==
    /\ pc[t] = "rollVec"
    /\ \E left \in {"none", vec[t]} : vec' = [vec EXCEPT ![t] = left]
    /\ \E label \in {"rollRow", "fail"} : Goto(t, label)
    /\ UNCHANGED <<file, ver, chunks, todo, old, lock, cleaner, history, task, deletion>>

RollBackRow(t) ==
    /\ pc[t] = "rollRow"
    /\ \/ ver[t] = "staging" /\ ver' = [ver EXCEPT ![t] = "gone"]
       \/ UNCHANGED ver
    /\ Goto(t, "fail")
    /\ UNCHANGED <<file, vec, chunks, todo, old, lock, cleaner, history, task, deletion>>

\* The file gets its error status, if the fence lets the attempt write it; the
\* exception goes on to the handler (which swallows all but CancelledError).
\* A second cancellation skips the write and leaves it to the hook; a write that
\* raises leaves the file in parsing or indexing.
FailFile(t) ==
    /\ pc[t] = "fail"
    /\ \/ /\ \/ /\ Fence(t, status)
                /\ FailProcessing(t)
                /\ \E label \in {"next", "stop"} : LeaveFile(t, label, {})
             \/ UNCHANGED <<status, owner>> /\ LeaveFile(t, "stop", {})
          /\ UNCHANGED unsettled
       \/ SettleRaises(t)
    /\ UNCHANGED <<path, markdown, index, cleaner, forgotten, task, deletion>>

-----------------------------------------------------------------------------
(* run_knowledge_parent_child_cleanup, which RuntimeError sends back.      *)

\* Mutant: max_attempts is compared as if it did not include this attempt.
ExhaustedLate(v) == tries[v] > MaxAttempts

Exhausted(v) == tries[v] + 1 >= MaxAttempts

\* requeue_owned, or failed for good.
RetryCleanup(v) ==
    IF Exhausted(v)
    THEN cleanup' = [cleanup EXCEPT ![v] = "failed"] /\ UNCHANGED tries
    ELSE /\ cleanup' = [cleanup EXCEPT ![v] = "queued"]
         /\ tries' = [tries EXCEPT ![v] = @ + 1]

SweepVectors(v) ==
    /\ cleanup[v] = "queued"
    /\ \/ ver[v] = "gone" /\ cleanup' = [cleanup EXCEPT ![v] = "done"] /\ UNCHANGED <<vec, tries>>
       \/ /\ ver[v] # "gone"
          /\ vec' = [vec EXCEPT ![v] = "none"]
          /\ cleanup' = [cleanup EXCEPT ![v] = "swept"]
          /\ UNCHANGED tries
       \/ ver[v] # "gone" /\ RetryCleanup(v) /\ UNCHANGED vec
    /\ UNCHANGED <<file, ver, chunks, handler, task, deletion, history>>

SweepRow(v) ==
    /\ cleanup[v] = "swept"
    /\ ver' = [ver EXCEPT ![v] = "gone"]
    /\ cleanup' = [cleanup EXCEPT ![v] = "done"]
    /\ UNCHANGED <<file, vec, chunks, handler, tries, task, deletion, history>>

\* Cancelled, or its worker was lost: the task fails and nobody retries it.
LoseCleanup(v) ==
    /\ cleanup[v] \in {"queued", "swept"}
    /\ cleanup' = [cleanup EXCEPT ![v] = "failed"]
    /\ UNCHANGED <<file, index, handler, tries, task, deletion, history>>

-----------------------------------------------------------------------------
(* delete_file, from the HTTP API: no lock, no owner.                      *)

DeleteStep ==
    /\ \/ deletion = "no"      /\ DeleteChunks  /\ UNCHANGED file /\ deletion' = "chunks"
       \/ deletion = "chunks"  /\ DeleteVectors /\ UNCHANGED file /\ deletion' = "vectors"
       \/ deletion = "vectors" /\ DeleteRows    /\ UNCHANGED file /\ deletion' = "rows"
       \/ /\ deletion = "rows"
          /\ Release("deleted")
          /\ ver' = [v \in Version |-> IF ver[v] = "none" THEN "none" ELSE "gone"]
          /\ UNCHANGED <<path, markdown, vec, chunks>>
          /\ deletion' = "done"
    /\ UNCHANGED <<handler, cleaner, history, task>>

\* A store fails, the request ends, and what was deleted stays deleted.
DeleteStops ==
    /\ deletion \in {"chunks", "vectors", "rows"}
    /\ deletion' = "stopped"
    /\ UNCHANGED <<file, index, handler, cleaner, history, task>>

-----------------------------------------------------------------------------
Claims(t) == ClaimParse(t) \/ \E p \in {"single_chunk", "parent_child"} : ClaimIndex(t, p)

SingleSteps(t) == AssertOwner(t) \/ ClearStep(t) \/ Store(t) \/ FinishSingle(t)

VersionSteps(t) ==
    \/ Stage(t)
    \/ Insert(t)
    \/ ReadBack(t)
    \/ Activate(t)
    \/ CleanVectors(t)
    \/ CleanRow(t)
    \/ EnqueueCleanup(t)
    \/ Leave(t)

FailureSteps(t) == Fail(t) \/ RollBackVectors(t) \/ RollBackRow(t) \/ FailFile(t)

Handler(t) ==
    \/ Claims(t)
    \/ Parse(t)
    \/ ResetUploaded(t)
    \/ SingleSteps(t)
    \/ VersionSteps(t)
    \/ FailureSteps(t)
    \/ Interrupt(t)
    \/ EndTask(t)
    \/ EndCancelled(t)

Cleanup(v) == SweepVectors(v) \/ SweepRow(v) \/ LoseCleanup(v)

Next ==
    \/ \E t \in Task, work \in SUBSET {"parse", "index"} : Start(t, work)
    \/ \E t \in Task : Handler(t)
    \/ \E t \in Task : Expire(t)
    \/ \E t \in Task : ReconcileLease(t)
    \/ \E t \in Task : Crash(t)
    \/ \E v \in Version : Cleanup(v)
    \/ DeleteStep
    \/ DeleteStops

Spec == Init /\ [][Next]_vars

-----------------------------------------------------------------------------
(* Properties.                                                             *)

\* A file that is shown as indexed can be found: all chunks, or all vectors of
\* its active version, are in Milvus, whatever earlier tasks are still doing to
\* them.  (A deletion takes no lock, so this holds until one begins.)
IndexedIsSearchable ==
    status = "indexed" /\ deletion = "no" =>
        \/ chunks = "all"
        \/ \E v \in Version : ver[v] = "active" /\ vec[v] = "all"

\* parsing and indexing are never left behind by a failure, a cancellation, a crash or a
\* lost lease: the owner of the file has a task that has not ended, and a handler that
\* still works on the file unless it died, was interrupted or lost its lease.  The one
\* exception: the write that was to settle the file raised, and the handler went on.
IntermediateIsHandled ==
    /\ status \in {"parsing", "indexing"} <=> owner # None
    /\ owner # None /\ owner \notin unsettled =>
        /\ task[owner] \in {"running", "expired"}
        /\ Live(owner) => pc[owner] \in Working \cup {"dead", "stop"}

\* A reslice that fails, is cancelled, dies or lost its lease never takes away
\* what is published: the active version keeps its row and its vectors until the
\* same transaction publishes another one and shows the file as indexed.  (The
\* single_chunk path deletes first, and so does a deletion.)
PublishedIsKept ==
    [][\A v \in Version : ver[v] = "active" /\ vec[v] = "all" =>
          \/ ver'[v] = "active" /\ vec'[v] = "all"
          \/ status' = "indexed" /\ \E w \in Version \ {v} : ver'[w] = "active"
          \/ path = "single_chunk"
          \/ deletion # "no"]_vars

\* The row of a superseded version is deleted only after its vectors, so that a
\* failed cleanup can be repeated.
RowOutlivesVectors ==
    [][\A v \in Version : ver[v] = "superseded" /\ ver'[v] = "gone" =>
          vec[v] = "none" \/ status' = "deleted"]_vars

\* Somebody knows of a superseded version: the worker that published its successor is
\* still at it or died there, or a durable task will clean it up, or that task failed for
\* a user to see.  The one exception: that durable task could not be created.
SupersededIsTracked ==
    \A v \in Version \ forgotten : ver[v] = "superseded" =>
        \/ \E t \in Task : old[t] = v /\ pc[t] \in Settling \cup {"dead"}
        \/ cleanup[v] \in {"queued", "swept", "failed"}
=============================================================================
