------------------------------ MODULE Findings ------------------------------
(***************************************************************************)
(* The findings table of one synchronous assessment (delegated admins or   *)
(* trusted access) under scans and deletions of jobs.  A finding is stored *)
(* under a key made of its content, service principal and account, so that *)
(* the next job that finds the same thing takes the item over.  The        *)
(* deletion of a job finds its items through the index on JobId and then   *)
(* deletes them by key, one after the other.  DynamoDB maintains the index *)
(* behind the table, so that a deletion may miss the newest items of its   *)
(* job and find items that another job has taken over since.               *)
(*                                                                         *)
(* AssessmentJobs models the calls on the jobs table and has the findings  *)
(* of a job as one number; here the items themselves are the state.  Scans *)
(* of a type mostly follow one another, but nothing here relies on it: two *)
(* starts that both find the marker free scan together, and a scan that    *)
(* was killed never finishes (AssessmentJobs).                             *)
(***************************************************************************)
EXTENDS Naturals, FiniteSets

CONSTANTS
  Keys,      \* sort keys of findings
  Jobs,      \* job ids: numbers, in the order in which the jobs are started
  Deleters,  \* deletion requests
  NoJob,     \* no item under the key, no job to delete
  BatchSize, \* MAX_BATCH_SIZE (25 in the code)
  PageSize   \* items in one page of a DynamoDB query (1 MB in the service)

ASSUME FindingsAssumption ==
  /\ IsFiniteSet(Keys)
  /\ Jobs \subseteq Nat /\ IsFiniteSet(Jobs)
  /\ NoJob \notin Jobs
  /\ BatchSize \in Nat \ {0}
  /\ PageSize \in Nat \ {0}

VARIABLES
  table,  \* JobId of the item stored under each key
  index,  \* JobIds the index may give for each key: the present one, and
          \* earlier ones as long as the index has not caught up
  job,    \* status of each job
  found,  \* keys that the scan of each job returned
  todo,   \* keys that the job has not written yet
  del,    \* each deletion request: its job, its step, keys left to delete
  \* What the properties refer to and no action reads:
  overlap, \* pairs <<d, i>>: deletion d and the scan of i ran together
  beside, \* pairs <<i, j>>: the scan of j was under way when that of i began
  stolen, \* <<d, i, k>>: deletion d of another job removed item k of job i
  lagged, \* deletions to which the index did not give the items of their job
  expired \* <<i, k>>: item k of job i has reached its ExpiresAt

history == <<overlap, beside, stolen, lagged, expired>>
vars == <<table, index, job, found, todo, del, history>>

Idle == [job |-> NoJob, step |-> "idle", keys |-> {}]

Init ==
  /\ table = [k \in Keys |-> NoJob]
  /\ index = [k \in Keys |-> {NoJob}]
  /\ job = [i \in Jobs |-> "new"]
  /\ found = [i \in Jobs |-> {}]
  /\ todo = [i \in Jobs |-> {}]
  /\ del = [d \in Deleters |-> Idle]
  /\ overlap = {} /\ beside = {}
  /\ stolen = {} /\ lagged = {} /\ expired = {}

Deleting == {d \in Deleters : del[d].step \in {"checked", "found"}}
Scanning == {i \in Jobs : job[i] = "ACTIVE"}

-----------------------------------------------------------------------------
(* A scan. *)

\* The next job of the type starts and its scan returns a set of findings.
Scan(i, keys) ==
  /\ job[i] = "new"
  /\ \A j \in Jobs : j < i => job[j] # "new"
  /\ job' = [job EXCEPT ![i] = "ACTIVE"]
  /\ found' = [found EXCEPT ![i] = keys]
  /\ todo' = [todo EXCEPT ![i] = keys]
  /\ overlap' = overlap \cup (Deleting \X {i})
  /\ beside' = beside \cup ({i} \X Scanning)
  /\ UNCHANGED <<table, index, del, stolen, lagged, expired>>

\* Full batches, but for the last one.
NextBatches(i) ==
  {b \in SUBSET todo[i] : /\ b # {}
                          /\ Cardinality(b) <= BatchSize
                          /\ Cardinality(b) = BatchSize \/ b = todo[i]}

KeepsOld(keys, owner) ==
  LET free == {k \in keys : table[k] = NoJob} IN
  /\ table' = [k \in Keys |-> IF k \in free THEN owner ELSE table[k]]
  /\ index' = [k \in Keys |-> IF k \in free THEN index[k] \cup {owner} ELSE index[k]]

\* Items change owner; the index follows later.
Store(keys, owner) ==
  /\ table' = [k \in Keys |-> IF k \in keys THEN owner ELSE table[k]]
  /\ index' = [k \in Keys |-> IF k \in keys THEN index[k] \cup {owner} ELSE index[k]]

\* put_items stores the next batch, over items of earlier jobs if need be.
WriteBatch(i, batch) ==
  /\ job[i] = "ACTIVE"
  /\ batch \in NextBatches(i)
  /\ Store(batch, i)
  /\ todo' = [todo EXCEPT ![i] = @ \ batch]
  /\ UNCHANGED <<job, found, del, history>>

\* All findings are stored and the job is finished.
Succeed(i) ==
  /\ job[i] = "ACTIVE"
  /\ todo[i] = {}
  /\ job' = [job EXCEPT ![i] = "SUCCEEDED"]
  /\ UNCHANGED <<table, index, found, todo, del, history>>

\* Some of the next batch was stored when put_batch_items raised; what was
\* stored stays, and the job fails.
WriteFails(i, stored) ==
  /\ job[i] = "ACTIVE"
  /\ stored \in SUBSET todo[i]
  /\ Cardinality(stored) <= BatchSize
  /\ todo[i] # {}
  /\ Store(stored, i)
  /\ todo' = [todo EXCEPT ![i] = @ \ stored]
  /\ job' = [job EXCEPT ![i] = "FAILED"]
  /\ UNCHANGED <<found, del, history>>

-----------------------------------------------------------------------------
(* A deletion: JobsService.delete_job. *)

DeleteChecks(d, i) ==
  /\ del[d].step = "idle"
  /\ job[i] \in {"SUCCEEDED", "FAILED"}
  /\ del' = [del EXCEPT ![d] = [job |-> i, step |-> "checked", keys |-> {}]]
  /\ overlap' = overlap \cup ({d} \X Scanning)
  /\ UNCHANGED <<table, index, job, found, todo, beside, stolen, lagged, expired>>

\* The items stored for a job, and what a query of the index may answer.
ItemsOf(i) == {k \in Keys : table[k] = i}
IndexAnswers(i) ==
  {keys \in SUBSET {k \in Keys : i \in index[k]} :
     \A k \in Keys : index[k] = {i} => k \in keys}

Finds(d, items, result) ==
  /\ del[d].step = "checked"
  /\ items \in IndexAnswers(del[d].job)
  /\ del' = [del EXCEPT ![d] = result]
  /\ lagged' = IF items = ItemsOf(del[d].job) THEN lagged ELSE lagged \cup {d}
  /\ UNCHANGED <<table, index, job, found, todo, overlap, beside, stolen, expired>>

FindsOnePage(d, items) ==
  \E page \in SUBSET items :
    /\ Cardinality(page) <= PageSize
    /\ Cardinality(page) = PageSize \/ page = items
    /\ Finds(d, items, [job |-> del[d].job, step |-> "found", keys |-> page])

FindsAllOfType(d, items) ==
  Finds(d, items, [job |-> del[d].job, step |-> "found",
                   keys |-> {k \in Keys : table[k] # NoJob}])

\* find_items_by_secondary_index.  One page holds the items of the answer; a
\* further page is asked of the table with the start key of the index, which
\* DynamoDB refuses: the request ends in an error.
DeleteFinds(d, items) ==
  Finds(d, items,
        IF Cardinality(items) <= PageSize
          THEN [job |-> del[d].job, step |-> "found", keys |-> items]
          ELSE [job |-> del[d].job, step |-> "refused", keys |-> {}])

\* One of the items found is deleted by its key, whosever it is by now.
DeleteFinding(d, k) ==
  /\ del[d].step = "found"
  /\ k \in del[d].keys
  /\ Store({k}, NoJob)
  /\ stolen' = IF table[k] \in {NoJob, del[d].job} THEN stolen
               ELSE stolen \cup {<<d, table[k], k>>}
  /\ del' = [del EXCEPT ![d].keys = @ \ {k}]
  /\ UNCHANGED <<job, found, todo, overlap, beside, lagged, expired>>

\* All items are deleted; now the job itself is.
DeleteJob(d) ==
  /\ del[d].step = "found"
  /\ del[d].keys = {}
  /\ job' = [job EXCEPT ![del[d].job] = "deleted"]
  /\ del' = [del EXCEPT ![d].step = "done"]
  /\ UNCHANGED <<table, index, found, todo, history>>

DeleteCrashes(d) ==
  /\ d \in Deleting
  /\ del' = [del EXCEPT ![d].step = "crashed"]
  /\ UNCHANGED <<table, index, job, found, todo, history>>

\* DynamoDB deletes an item that has reached its ExpiresAt.
Expire(k) ==
  /\ table[k] # NoJob
  /\ Store({k}, NoJob)
  /\ expired' = expired \cup {<<table[k], k>>}
  /\ UNCHANGED <<job, found, todo, del, overlap, beside, stolen, lagged>>

\* DynamoDB brings the index up to date for a key.
IndexCatchesUp(k) ==
  /\ index[k] # {table[k]}
  /\ index' = [index EXCEPT ![k] = {table[k]}]
  /\ UNCHANGED <<table, job, found, todo, del, history>>

-----------------------------------------------------------------------------
Next ==
  \/ \E i \in Jobs, keys \in SUBSET Keys :
       Scan(i, keys) \/ WriteBatch(i, keys) \/ WriteFails(i, keys)
  \/ \E i \in Jobs : Succeed(i)
  \/ \E d \in Deleters, i \in Jobs : DeleteChecks(d, i)
  \/ \E d \in Deleters, keys \in SUBSET Keys : DeleteFinds(d, keys)
  \/ \E d \in Deleters : DeleteJob(d) \/ DeleteCrashes(d)
  \/ \E d \in Deleters, k \in Keys : DeleteFinding(d, k)
  \/ \E k \in Keys : IndexCatchesUp(k) \/ Expire(k)

Spec == Init /\ [][Next]_vars

-----------------------------------------------------------------------------
(* Properties. *)

\* Types of the variables; only keys that were found are ever written, and the
\* index never loses sight of the present owner of an item.
TypeOK ==
  /\ table \in [Keys -> Jobs \cup {NoJob}]
  /\ index \in [Keys -> SUBSET (Jobs \cup {NoJob})]
  /\ job \in [Jobs -> {"new", "ACTIVE", "SUCCEEDED", "FAILED", "deleted"}]
  /\ found \in [Jobs -> SUBSET Keys]
  /\ todo \in [Jobs -> SUBSET Keys]
  /\ del \in [Deleters -> [job: Jobs \cup {NoJob}, keys: SUBSET Keys,
               step: {"idle", "checked", "found", "done", "refused", "crashed"}]]
  /\ overlap \subseteq Deleters \X Jobs
  /\ beside \subseteq Jobs \X Jobs
  /\ stolen \subseteq Deleters \X Jobs \X Keys
  /\ expired \subseteq Jobs \X Keys
  /\ lagged \subseteq Deleters
  /\ \A i \in Jobs : todo[i] \subseteq found[i]
  /\ \A k \in Keys : table[k] \in index[k]

\* A deletion that goes through leaves no finding of its job behind, though
\* other jobs take over some of its keys and other deletions remove them
\* meanwhile, unless the index lagged when it was asked for them.
DeletedWithFindings ==
  \A d \in Deleters : del[d].step = "done" /\ d \notin lagged =>
    \A k \in Keys : table[k] # del[d].job

\* A deletion takes findings of another job away only when it was under way
\* together with the scan of that job, or the index gave it items that were
\* no longer its job's; overlapping deletions, and scans that ran before or
\* after the deletion, otherwise lose nothing to it.
StolenInOverlap ==
  \A x \in stolen : <<x[1], x[2]>> \in overlap \/ x[1] \in lagged

(***************************************************************************)
(* What the proofs add to the properties: jobs begin in their order, and   *)
(* an earlier one that is still scanning when a later one has begun ran    *)
(* beside it; only finished jobs are being deleted; a deletion that has    *)
(* found its items, and was not misled by the index, still has all of the  *)
(* job's items on its list, and whatever other item is under a key of that *)
(* list was written by a scan beside it; and a written finding is where it *)
(* was put or its loss is explained, from then on.                         *)
(***************************************************************************)
StartsInOrder ==
  \A i, j \in Jobs : job[i] # "new" /\ j < i =>
    /\ job[j] # "new"
    /\ job[j] = "ACTIVE" => <<i, j>> \in beside

OnlyStartedOwn ==
  \A i \in Jobs : job[i] = "new" => found[i] = {} /\ \A k \in Keys : table[k] # i

OnlyFinishedDeleted ==
  \A d \in Deleters :
    IF del[d].step = "idle"
      THEN del[d].job = NoJob
      ELSE /\ del[d].job \in Jobs
           /\ job[del[d].job] \in {"SUCCEEDED", "FAILED", "deleted"}

AllListed ==
  \A d \in Deleters : del[d].step = "found" /\ d \notin lagged =>
    \A k \in Keys : table[k] = del[d].job => k \in del[d].keys

OverlapKnown ==
  \A d \in Deleting, i \in Scanning : <<d, i>> \in overlap

TakenOverInOverlap ==
  \A d \in Deleters : del[d].step = "found" /\ d \notin lagged =>
    \A k \in del[d].keys :
      table[k] \in {NoJob, del[d].job} \/ <<d, table[k]>> \in overlap

Lost(i, k) == \E d \in Deleters : <<d, i, k>> \in stolen

Explained(i, k) ==
  \/ table[k] = i
  \/ \E j \in Jobs : k \in found[j] /\ (j > i \/ <<i, j>> \in beside)
  \/ \E d \in Deleters : del[d].job = i
  \/ Lost(i, k)
  \/ <<i, k>> \in expired

WrittenExplained ==
  \A i \in Jobs :
    /\ job[i] \in {"ACTIVE", "SUCCEEDED"} =>
         \A k \in found[i] \ todo[i] : Explained(i, k)
    /\ job[i] = "SUCCEEDED" => todo[i] = {}

FindingsInv ==
  /\ TypeOK
  /\ StartsInOrder
  /\ OnlyStartedOwn
  /\ OnlyFinishedDeleted
  /\ AllListed
  /\ OverlapKnown
  /\ TakenOverInOverlap
  /\ StolenInOverlap
  /\ DeletedWithFindings
  /\ WrittenExplained

\* A finding of a job that succeeded stays in the table under its job, unless
\* it was found again by a later job, or by an earlier one whose scan was still
\* under way, the job itself is being deleted, the deletion of another job has
\* taken the finding away, or its time to live is over.
LossesExplained ==
  \A i \in Jobs : job[i] = "SUCCEEDED" =>
    \A k \in found[i] : Explained(i, k)
=============================================================================
