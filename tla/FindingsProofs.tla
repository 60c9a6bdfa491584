--------------------------- MODULE FindingsProofs ---------------------------
(***************************************************************************)
(* Theorems about Findings for every number of keys, jobs and deletion     *)
(* requests, whatever the sizes of batches and pages, with scans and       *)
(* deletions interleaved.                                                  *)
(***************************************************************************)
EXTENDS Findings, TLAPS

\* The inductive invariant holds of the empty table.
LEMMA FindingsInvInit == Init => FindingsInv
BY FindingsAssumption DEF Init, Idle, FindingsInv, TypeOK, StartsInOrder, OnlyStartedOwn,
   OnlyFinishedDeleted, AllListed, DeletedWithFindings, WrittenExplained, Explained, Lost,
   OverlapKnown, TakenOverInOverlap, StolenInOverlap, Deleting, Scanning

\* Every step of a scan preserves the inductive invariant: only active jobs
\* write, and what they overwrite belongs to earlier jobs or to jobs beside them.
LEMMA ScanSteps ==
  ASSUME FindingsInv, NEW i \in Jobs, NEW keys \in SUBSET Keys,
         Scan(i, keys) \/ WriteBatch(i, keys) \/ WriteFails(i, keys) \/ Succeed(i)
  PROVE  FindingsInv'
<1> USE FindingsAssumption DEF FindingsInv, TypeOK, history
<1>1. CASE Scan(i, keys)
  <2>1. TypeOK'
    <3>1. /\ overlap' \subseteq Deleters \X Jobs
          /\ beside' \subseteq Jobs \X Jobs
      BY <1>1 DEF Scan, Deleting, Scanning
    <3>2. \A j \in Jobs : todo'[j] \subseteq found'[j]
      BY <1>1 DEF Scan
    <3> QED BY <1>1, <3>1, <3>2 DEF Scan
  <2>2. StartsInOrder'
    <3> SUFFICES ASSUME NEW a \in Jobs, NEW b \in Jobs, job'[a] # "new", b < a
                 PROVE  /\ job'[b] # "new"
                        /\ job'[b] = "ACTIVE" => <<a, b>> \in beside'
      BY DEF StartsInOrder
    <3>1. CASE a = i
      <4>1. job[b] # "new" /\ job'[b] = job[b]
        BY <1>1, <3>1 DEF Scan
      <4>2. job[b] = "ACTIVE" => <<a, b>> \in {i} \X Scanning
        BY <3>1 DEF Scanning
      <4> QED BY <1>1, <4>1, <4>2 DEF Scan
    <3>2. CASE a # i
      <4>1. job[a] # "new" /\ job'[a] = job[a]
        BY <1>1, <3>2 DEF Scan
      <4>2. b # i
        BY <1>1, <4>1 DEF Scan, StartsInOrder
      <4> QED BY <1>1, <4>1, <4>2 DEF Scan, StartsInOrder
    <3> QED BY <3>1, <3>2
  <2>3. OnlyStartedOwn' /\ OnlyFinishedDeleted' /\ AllListed' /\ DeletedWithFindings'
    BY <1>1 DEF Scan, OnlyStartedOwn, OnlyFinishedDeleted, AllListed, DeletedWithFindings
  <2>4. WrittenExplained'
    <3> SUFFICES ASSUME NEW j \in Jobs
                 PROVE  /\ job'[j] \in {"ACTIVE", "SUCCEEDED"} =>
                             \A k \in found'[j] \ todo'[j] : Explained(j, k)'
                        /\ job'[j] = "SUCCEEDED" => todo'[j] = {}
      BY DEF WrittenExplained
    <3>1. CASE j = i
      BY <1>1, <3>1 DEF Scan
    <3>2. CASE j # i
      <4>1. job'[j] = job[j] /\ found'[j] = found[j] /\ todo'[j] = todo[j]
        BY <1>1, <3>2 DEF Scan
      <4>2. \A n \in Jobs : found[n] \subseteq found'[n]
        BY <1>1 DEF Scan, OnlyStartedOwn
      <4>3. ASSUME NEW k \in Keys, Explained(j, k) PROVE Explained(j, k)'
        BY <1>1, <4>2, <4>3 DEF Scan, Explained, Lost
      <4> QED BY <4>1, <4>3 DEF WrittenExplained
    <3> QED BY <3>1, <3>2
  <2>9. OverlapKnown' /\ TakenOverInOverlap' /\ StolenInOverlap'
    BY <1>1 DEF Scan, OverlapKnown, TakenOverInOverlap, StolenInOverlap, Deleting, Scanning
  <2> QED BY <2>1, <2>2, <2>3, <2>4, <2>9
<1>2. CASE WriteBatch(i, keys)
  <2> keys \subseteq todo[i]
    BY <1>2 DEF WriteBatch, NextBatches
  <2>1. TypeOK'
    BY <1>2 DEF WriteBatch, Store
  <2>2. StartsInOrder' /\ OnlyStartedOwn' /\ OnlyFinishedDeleted'
    BY <1>2 DEF WriteBatch, Store, StartsInOrder, OnlyStartedOwn, OnlyFinishedDeleted
  <2>3. AllListed' /\ DeletedWithFindings'
    BY <1>2 DEF WriteBatch, Store, AllListed, DeletedWithFindings, OnlyFinishedDeleted
  <2>4. WrittenExplained'
    <3>1. \A j \in Jobs, k \in Keys : Lost(j, k) => Lost(j, k)'
      BY <1>2 DEF WriteBatch, Store, Lost
    <3>2. \A j \in Jobs, k \in Keys : k \in keys /\ job[j] # "new" => Explained(j, k)'
      <4> SUFFICES ASSUME NEW j \in Jobs, NEW k \in keys, job[j] # "new"
                   PROVE  Explained(j, k)'
        OBVIOUS
      <4>1. job[i] = "ACTIVE" /\ k \in found[i] /\ found' = found /\ beside' = beside
        BY <1>2 DEF WriteBatch
      <4>2. CASE j = i
        BY <1>2, <4>2 DEF WriteBatch, Store, Explained
      <4>3. CASE j < i
        BY <4>1, <4>3 DEF Explained
      <4>4. CASE i < j
        BY <4>1, <4>4 DEF StartsInOrder, Explained
      <4> QED BY <4>2, <4>3, <4>4
    <3>3. \A j \in Jobs, k \in Keys \ keys : Explained(j, k) => Explained(j, k)'
      BY <1>2, <3>1 DEF WriteBatch, Store, Explained
    <3>4. \A j \in Jobs : found'[j] \ todo'[j] \subseteq (found[j] \ todo[j]) \cup keys
      BY <1>2 DEF WriteBatch
    <3> QED BY <1>2, <3>2, <3>3, <3>4 DEF WriteBatch, WrittenExplained
  <2>9. OverlapKnown' /\ TakenOverInOverlap' /\ StolenInOverlap'
    BY <1>2 DEF WriteBatch, Store, OverlapKnown, TakenOverInOverlap, StolenInOverlap, Deleting, Scanning
  <2> QED BY <2>1, <2>2, <2>3, <2>4, <2>9
<1>3. CASE WriteFails(i, keys)
  <2>1. TypeOK'
    BY <1>3 DEF WriteFails, Store
  <2>2. StartsInOrder' /\ OnlyStartedOwn' /\ OnlyFinishedDeleted'
    BY <1>3 DEF WriteFails, Store, StartsInOrder, OnlyStartedOwn, OnlyFinishedDeleted
  <2>3. AllListed' /\ DeletedWithFindings'
    BY <1>3 DEF WriteFails, Store, AllListed, DeletedWithFindings, OnlyFinishedDeleted
  <2>4. WrittenExplained'
    <3>1. \A j \in Jobs, k \in Keys : Lost(j, k) => Lost(j, k)'
      BY <1>3 DEF WriteFails, Store, Lost
    <3> QED BY <1>3, <3>1 DEF WriteFails, Store, WrittenExplained, Explained, StartsInOrder
  <2>9. OverlapKnown' /\ TakenOverInOverlap' /\ StolenInOverlap'
    BY <1>3 DEF WriteFails, Store, OverlapKnown, TakenOverInOverlap, StolenInOverlap, Deleting, Scanning
  <2> QED BY <2>1, <2>2, <2>3, <2>4, <2>9
<1>4. CASE Succeed(i)
  <2>1. TypeOK' /\ StartsInOrder' /\ OnlyStartedOwn' /\ OnlyFinishedDeleted'
    BY <1>4 DEF Succeed, StartsInOrder, OnlyStartedOwn, OnlyFinishedDeleted
  <2>2. AllListed' /\ DeletedWithFindings' /\ WrittenExplained'
    BY <1>4 DEF Succeed, AllListed, DeletedWithFindings, WrittenExplained, Explained, Lost
  <2>9. OverlapKnown' /\ TakenOverInOverlap' /\ StolenInOverlap'
    BY <1>4 DEF Succeed, OverlapKnown, TakenOverInOverlap, StolenInOverlap, Deleting, Scanning
  <2> QED BY <2>1, <2>2, <2>9
<1> QED BY <1>1, <1>2, <1>3, <1>4

\* Every step of a deletion preserves the inductive invariant: it started from
\* all items of a job that gets no more, and ends when they are gone.
LEMMA DeletionSteps ==
  ASSUME FindingsInv, NEW d \in Deleters, NEW i \in Jobs \cup {NoJob}, NEW k \in Keys \cup {NoJob},
         \/ i \in Jobs /\ DeleteChecks(d, i)
         \/ DeleteJob(d) \/ DeleteCrashes(d)
         \/ k \in Keys /\ DeleteFinding(d, k)
  PROVE  FindingsInv'
<1> USE FindingsAssumption DEF FindingsInv, TypeOK, history
<1>1. CASE i \in Jobs /\ DeleteChecks(d, i)
  <2>1. TypeOK'
    BY <1>1 DEF DeleteChecks, Scanning
  <2>4. StartsInOrder' /\ OnlyStartedOwn' /\ OnlyFinishedDeleted'
    BY <1>1 DEF DeleteChecks, StartsInOrder, OnlyStartedOwn, OnlyFinishedDeleted
  <2>2. AllListed' /\ DeletedWithFindings'
    BY <1>1 DEF DeleteChecks, AllListed, DeletedWithFindings
  <2>3. WrittenExplained'
    <3>1. \A e \in Deleters : del[e].job \in Jobs => del'[e].job = del[e].job
      BY <1>1 DEF DeleteChecks, OnlyFinishedDeleted
    <3> QED BY <1>1, <3>1 DEF DeleteChecks, WrittenExplained, Explained, Lost
  <2>9. OverlapKnown' /\ TakenOverInOverlap' /\ StolenInOverlap'
    BY <1>1 DEF DeleteChecks, OverlapKnown, TakenOverInOverlap, StolenInOverlap, Deleting, Scanning
  <2> QED BY <2>1, <2>2, <2>3, <2>4, <2>9
<1>2. CASE DeleteJob(d)
  <2>1. TypeOK' /\ StartsInOrder' /\ OnlyStartedOwn' /\ OnlyFinishedDeleted'
    BY <1>2 DEF DeleteJob, StartsInOrder, OnlyStartedOwn, OnlyFinishedDeleted
  <2>2. AllListed' /\ DeletedWithFindings'
    <3>1. d \notin lagged => \A k0 \in Keys : table[k0] # del[d].job
      BY <1>2 DEF DeleteJob, AllListed
    <3>2. AllListed'
      BY <1>2 DEF DeleteJob, AllListed
    <3>3. DeletedWithFindings'
      BY <1>2, <3>1 DEF DeleteJob, DeletedWithFindings
    <3> QED BY <3>2, <3>3
  <2>3. WrittenExplained'
    BY <1>2 DEF DeleteJob, WrittenExplained, Explained, Lost
  <2>9. OverlapKnown' /\ TakenOverInOverlap' /\ StolenInOverlap'
    BY <1>2 DEF DeleteJob, OverlapKnown, TakenOverInOverlap, StolenInOverlap, Deleting, Scanning
  <2> QED BY <2>1, <2>2, <2>3, <2>9
<1>3. CASE DeleteCrashes(d)
  <2>1. TypeOK' /\ StartsInOrder' /\ OnlyStartedOwn' /\ OnlyFinishedDeleted'
    BY <1>3 DEF DeleteCrashes, Deleting, StartsInOrder, OnlyStartedOwn, OnlyFinishedDeleted
  <2>2. AllListed' /\ DeletedWithFindings'
    BY <1>3 DEF DeleteCrashes, AllListed, DeletedWithFindings
  <2>3. WrittenExplained'
    <3>1. \A j \in Jobs, k0 \in Keys : Lost(j, k0) => Lost(j, k0)'
      BY <1>3 DEF DeleteCrashes, Lost
    <3>2. \A e \in Deleters : del'[e].job = del[e].job
      BY <1>3 DEF DeleteCrashes
    <3> QED BY <1>3, <3>1, <3>2 DEF DeleteCrashes, WrittenExplained, Explained
  <2>9. OverlapKnown' /\ TakenOverInOverlap' /\ StolenInOverlap'
    BY <1>3 DEF DeleteCrashes, OverlapKnown, TakenOverInOverlap, StolenInOverlap, Deleting, Scanning
  <2> QED BY <2>1, <2>2, <2>3, <2>9
<1>4. CASE k \in Keys /\ DeleteFinding(d, k)
  <2>1. TypeOK' /\ StartsInOrder' /\ OnlyStartedOwn' /\ OnlyFinishedDeleted'
    BY <1>4 DEF DeleteFinding, Store, StartsInOrder, OnlyStartedOwn, OnlyFinishedDeleted
  <2>2. AllListed'
    <3> SUFFICES ASSUME NEW e \in Deleters, del'[e].step = "found", e \notin lagged',
                        NEW k0 \in Keys, table'[k0] = del'[e].job
                 PROVE  k0 \in del'[e].keys
      BY DEF AllListed
    <3>1. del[e].step = "found" /\ del'[e].job = del[e].job
      BY <1>4 DEF DeleteFinding, Store
    <3>2. k0 # k /\ table[k0] = del[e].job
      BY <1>4, <3>1 DEF DeleteFinding, Store, OnlyFinishedDeleted
    <3>3. del[e].keys \ {k} \subseteq del'[e].keys
      BY <1>4 DEF DeleteFinding, Store
    <3>4. lagged' = lagged
      BY <1>4 DEF DeleteFinding
    <3> QED BY <3>1, <3>2, <3>3, <3>4 DEF AllListed
  <2>4. DeletedWithFindings'
    <3>1. \A e \in Deleters : /\ del'[e].step = del[e].step
                              /\ del'[e].job = del[e].job
      BY <1>4 DEF DeleteFinding
    <3>2. \A k0 \in Keys : table'[k0] \in {table[k0], NoJob}
      BY <1>4 DEF DeleteFinding, Store
    <3>3. \A e \in Deleters : del[e].step = "done" => del[e].job # NoJob
      BY DEF OnlyFinishedDeleted
    <3>4. lagged' = lagged
      BY <1>4 DEF DeleteFinding
    <3> QED BY <3>1, <3>2, <3>3, <3>4 DEF DeletedWithFindings
  <2>3. WrittenExplained'
    <3>1. \A j \in Jobs, k0 \in Keys : Lost(j, k0) => Lost(j, k0)'
      BY <1>4 DEF DeleteFinding, Store, Lost
    <3>2. \A e \in Deleters : del'[e].job = del[e].job
      BY <1>4 DEF DeleteFinding, Store
    <3>3. \A j \in Jobs : table[k] = j => Explained(j, k)'
      <4> SUFFICES ASSUME NEW j \in Jobs, table[k] = j PROVE Explained(j, k)'
        OBVIOUS
      <4>1. CASE del[d].job = j
        BY <3>2, <4>1 DEF Explained
      <4>2. CASE del[d].job # j
        <5>1. <<d, j, k>> \in stolen'
          BY <1>4, <4>2 DEF DeleteFinding, Store
        <5> QED BY <5>1 DEF Explained, Lost
      <4> QED BY <4>1, <4>2
    <3> QED BY <1>4, <3>1, <3>2, <3>3 DEF DeleteFinding, Store, WrittenExplained, Explained
  <2>9. OverlapKnown' /\ TakenOverInOverlap' /\ StolenInOverlap'
    BY <1>4 DEF DeleteFinding, Store, OverlapKnown, TakenOverInOverlap, StolenInOverlap, Deleting, Scanning
  <2> QED BY <2>1, <2>2, <2>3, <2>4, <2>9
<1> QED BY <1>1, <1>2, <1>3, <1>4

\* The answer of the index preserves the inductive invariant: without a lag it
\* is the list of all items of the job, and with one nothing is claimed.
LEMMA FindingSteps ==
  ASSUME FindingsInv, NEW d \in Deleters, NEW items \in SUBSET Keys, DeleteFinds(d, items)
  PROVE  FindingsInv'
<1> USE FindingsAssumption DEF FindingsInv, TypeOK, history
<1> DEFINE i == del[d].job
           answer == IF Cardinality(items) <= PageSize
                       THEN [job |-> i, step |-> "found", keys |-> items]
                       ELSE [job |-> i, step |-> "refused", keys |-> {}]
<1>1. /\ del[d].step = "checked"
      /\ del' = [del EXCEPT ![d] = answer]
      /\ lagged' = IF items = ItemsOf(i) THEN lagged ELSE lagged \cup {d}
      /\ UNCHANGED <<table, index, job, found, todo, overlap, beside, stolen, expired>>
  BY DEF DeleteFinds, Finds
<1>2. /\ answer \in [job: Jobs \cup {NoJob}, keys: SUBSET Keys, step: {"found", "refused"}]
      /\ answer.job = i
      /\ answer.step = "found" => answer.keys = items
  <2>1. i \in Jobs \cup {NoJob}
    OBVIOUS
  <2>2. CASE Cardinality(items) <= PageSize
    BY <2>1, <2>2
  <2>3. CASE ~(Cardinality(items) <= PageSize)
    BY <2>1, <2>3
  <2> QED BY <2>2, <2>3
<1> HIDE DEF answer, i
<1>3. i = del[d].job
  BY DEF i
<1>4. del'[d] = answer /\ \A e \in Deleters \ {d} : del'[e] = del[e]
  BY <1>1
<1>5. \A e \in Deleters : del'[e].job = del[e].job
  BY <1>2, <1>3, <1>4
<1>6. TypeOK'
  BY <1>1, <1>2
<1>7. StartsInOrder' /\ OnlyStartedOwn'
  BY <1>1 DEF StartsInOrder, OnlyStartedOwn
<1>8. OnlyFinishedDeleted'
  BY <1>1, <1>2, <1>3, <1>4 DEF OnlyFinishedDeleted
<1>9. ASSUME d \notin lagged' PROVE lagged' = lagged /\ items = ItemsOf(i)
  BY <1>1, <1>9
<1>10. AllListed'
  <2> SUFFICES ASSUME NEW e \in Deleters, del'[e].step = "found", e \notin lagged',
                      NEW k \in Keys, table[k] = del[e].job
               PROVE  k \in del'[e].keys
    BY <1>1, <1>5 DEF AllListed
  <2>1. CASE e = d
    BY <2>1, <1>2, <1>3, <1>4, <1>9 DEF ItemsOf
  <2>2. CASE e # d
    BY <2>2, <1>1, <1>4 DEF AllListed
  <2> QED BY <2>1, <2>2
<1>11. TakenOverInOverlap'
  <2> SUFFICES ASSUME NEW e \in Deleters, del'[e].step = "found", e \notin lagged',
                      NEW k \in del'[e].keys
               PROVE  table[k] \in {NoJob, del[e].job} \/ <<e, table[k]>> \in overlap
    BY <1>1, <1>5 DEF TakenOverInOverlap
  <2>1. CASE e = d
    BY <2>1, <1>2, <1>3, <1>4, <1>9 DEF ItemsOf
  <2>2. CASE e # d
    BY <2>2, <1>1, <1>4 DEF TakenOverInOverlap
  <2> QED BY <2>1, <2>2
<1>12. DeletedWithFindings'
  BY <1>1, <1>2, <1>4 DEF DeletedWithFindings
<1>13. OverlapKnown'
  BY <1>1, <1>4 DEF OverlapKnown, Deleting, Scanning
<1>14. StolenInOverlap'
  BY <1>1 DEF StolenInOverlap
<1>15. WrittenExplained'
  BY <1>1, <1>5 DEF WrittenExplained, Explained, Lost
<1> QED BY <1>6, <1>7, <1>8, <1>10, <1>11, <1>12, <1>13, <1>14, <1>15

\* The index catching up changes nothing that the invariant speaks about.
LEMMA IndexSteps ==
  ASSUME FindingsInv, NEW k \in Keys, IndexCatchesUp(k)
  PROVE  FindingsInv'
<1> USE DEF history
<1>1. UNCHANGED <<table, job, found, todo, del, history>>
  BY DEF IndexCatchesUp
<1>2. TypeOK'
  BY FindingsAssumption DEF FindingsInv, TypeOK, IndexCatchesUp
<1>3. StartsInOrder' /\ OnlyStartedOwn' /\ OnlyFinishedDeleted' /\ AllListed'
  BY <1>1 DEF FindingsInv, StartsInOrder, OnlyStartedOwn, OnlyFinishedDeleted, AllListed
<1>4. OverlapKnown' /\ TakenOverInOverlap' /\ StolenInOverlap' /\ DeletedWithFindings'
  BY <1>1 DEF FindingsInv, OverlapKnown, TakenOverInOverlap, StolenInOverlap,
     DeletedWithFindings, Deleting, Scanning
<1>5. WrittenExplained'
  BY <1>1 DEF FindingsInv, WrittenExplained, Explained, Lost
<1> QED BY <1>2, <1>3, <1>4, <1>5 DEF FindingsInv

\* Neither does an expiry but for the item that it removes, and that is noted.
LEMMA ExpirySteps ==
  ASSUME FindingsInv, NEW k \in Keys, Expire(k)
  PROVE  FindingsInv'
<1> USE FindingsAssumption DEF FindingsInv, TypeOK
<1>1. /\ UNCHANGED <<job, found, todo, del, overlap, beside, stolen, lagged>>
      /\ expired' = expired \cup {<<table[k], k>>}
      /\ table' = [table EXCEPT ![k] = NoJob]
  BY DEF Expire, Store
<1>2. TypeOK'
  BY DEF Expire, Store
<1>3. StartsInOrder' /\ OnlyStartedOwn' /\ OnlyFinishedDeleted' /\ AllListed'
  BY <1>1 DEF StartsInOrder, OnlyStartedOwn, OnlyFinishedDeleted, AllListed
<1>4. OverlapKnown' /\ TakenOverInOverlap' /\ StolenInOverlap' /\ DeletedWithFindings'
  BY <1>1 DEF OverlapKnown, TakenOverInOverlap, StolenInOverlap, OnlyFinishedDeleted,
     DeletedWithFindings, Deleting, Scanning
<1>5. WrittenExplained'
  BY <1>1 DEF WrittenExplained, Explained, Lost
<1> QED BY <1>2, <1>3, <1>4, <1>5

\* FindingsInv is an inductive invariant of scans and deletions.
THEOREM FindingsInvariant == Spec => []FindingsInv
<1>1. FindingsInv /\ [Next]_vars => FindingsInv'
  <2> SUFFICES ASSUME FindingsInv, [Next]_vars PROVE FindingsInv'
    OBVIOUS
  <2>1. CASE Next
    BY <2>1, ScanSteps, DeletionSteps, FindingSteps, IndexSteps, ExpirySteps DEF Next
  <2>2. CASE UNCHANGED vars
    BY <2>2 DEF vars, history, FindingsInv, TypeOK, StartsInOrder, OnlyStartedOwn,
       OnlyFinishedDeleted, AllListed, DeletedWithFindings, WrittenExplained, Explained, Lost,
       OverlapKnown, TakenOverInOverlap, StolenInOverlap, Deleting, Scanning
  <2> QED BY <2>1, <2>2
<1> QED BY FindingsInvInit, <1>1, PTL DEF Spec

\* A deletion leaves no finding of its job behind, unless the index misled it.
THEOREM DeletionIsComplete == Spec => []DeletedWithFindings
<1>1. FindingsInv => DeletedWithFindings
  BY DEF FindingsInv
<1> QED BY FindingsInvariant, <1>1, PTL

\* Findings of a succeeded job are only lost to jobs that found them too, later or
\* beside it, to deletions and to their time to live.
THEOREM LossesAreExplained == Spec => []LossesExplained
<1>1. FindingsInv => LossesExplained
  BY DEF FindingsInv, WrittenExplained, LossesExplained
<1> QED BY FindingsInvariant, <1>1, PTL

\* A deletion takes findings away from no job but its own and those whose scan
\* it ran beside, unless the index misled it.
THEOREM TheftNeedsOverlap == Spec => []StolenInOverlap
<1>1. FindingsInv => StolenInOverlap
  BY DEF FindingsInv
<1> QED BY FindingsInvariant, <1>1, PTL
=============================================================================
