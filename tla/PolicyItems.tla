---------------------------- MODULE PolicyItems ----------------------------
(***************************************************************************)
(* The policies table of the policy explorer: service control policies     *)
(* that change in the organization, the scans that describe them one by    *)
(* one and store an item for each of their statements, items that expire,  *)
(* and what a search finds at any time in between.  (Nothing else reaches  *)
(* the table: PolicyScan!TaggingRaises.)                                   *)
(*                                                                         *)
(* The key of an item ends in the number of its statement, and no scan     *)
(* deletes an item: what a policy no longer has stays until it expires.    *)
(* A scan is part of the Lambda function that starts a policy explorer     *)
(* job.  Nothing keeps two of them apart: the job of one may have ended    *)
(* while it is still scanning (AssessmentJobs).  A scan ends within the    *)
(* quarter of an hour of a Lambda invocation; time is counted in days.     *)
(***************************************************************************)
EXTENDS Naturals, FiniteSets

CONSTANTS
  Scans,     \* the scans that may be started in a day
  Policies,  \* resource identifiers: numbers, in the order of the sort keys
  Documents, \* contents that a policy may have
  MaxSize,   \* bound on the number of statements of a document
  Size,      \* number of statements of each document
  Single,    \* documents whose Statement is an object and not a list
  Absent,    \* no such policy, no such item, not described
  Lifetime,  \* TIME_TO_LIVE_IN_DAYS
  Filters,   \* each the statements <<document, number>> that match a search
  Pages,     \* numbers of items that may fit in a page of DynamoDB (1 MB)
  Limit      \* items that a search asks for (5000 in the code)

ASSUME ItemsAssumption ==
  /\ Policies \subseteq Nat /\ IsFiniteSet(Policies)
  /\ MaxSize \in Nat
  /\ Size \in [Documents -> 0 .. MaxSize]
  /\ Single \subseteq Documents
  /\ Absent \notin Documents
  /\ Absent \notin [doc: Documents, age: Nat]
  /\ Lifetime \in Nat \ {0}
  /\ Filters \subseteq SUBSET (Documents \X (1 .. MaxSize))
  /\ Pages \subseteq Nat
  /\ Limit \in Nat

Keys == Policies \X (1 .. MaxSize)

VARIABLES
  org,     \* present content of each policy in AWS Organizations
  table,   \* item under each key: its document and its age in days
  step,    \* of each scan: "idle", "describe", "write" or "ended"
  listed,  \* policies that the scan has yet to describe
  read,    \* documents that the scan has described
  todo,    \* keys that the scan has yet to write
  \* What the properties refer to and no action reads:
  lost,    \* policies of which others wrote over what the scan had stored
  since,   \* days since the last scan that stored all it had read
  settled  \* policies which that scan read as they still are, and stored

scanVars == <<step, listed, read, todo, lost>>
vars == <<org, table, scanVars, since, settled>>

Unread == [p \in Policies |-> Absent]

Init ==
  /\ org \in [Policies -> Documents \cup {Absent}]
  /\ table = [k \in Keys |-> Absent]
  /\ step = [s \in Scans |-> "idle"]
  /\ listed = [s \in Scans |-> {}]
  /\ read = [s \in Scans |-> Unread]
  /\ todo = [s \in Scans |-> {}]
  /\ lost = [s \in Scans |-> {}]
  /\ since = Lifetime
  /\ settled = {}

OlderInMilliseconds(days) == days

\* Ages count up to the lifetime, when ExpiresAt is reached.
Older(days) == IF days < Lifetime THEN days + 1 ELSE days

-----------------------------------------------------------------------------
(* A scan: ServiceControlPolicy.scan and PoliciesRepository.create_all. *)

\* list_policies.
ListPolicies(s) ==
  /\ step[s] = "idle"
  /\ step' = [step EXCEPT ![s] = "describe"]
  /\ listed' = [listed EXCEPT ![s] = {p \in Policies : org[p] # Absent}]
  /\ UNCHANGED <<org, table, read, todo, lost, since, settled>>

\* describe_policy: the content at this moment, or an answer without Content.
DescribePolicy(s, p) ==
  /\ step[s] = "describe"
  /\ p \in listed[s]
  /\ org[p] # Absent
  /\ listed' = [listed EXCEPT ![s] = @ \ {p}]
  /\ \/ read' = [read EXCEPT ![s][p] = org[p]]
     \/ UNCHANGED read
  /\ UNCHANGED <<org, table, step, todo, lost, since, settled>>

\* The keys of the statements of a document, counted from one (create_items).
Statements(p, c) ==
  IF c = Absent THEN {} ELSE {k \in Keys : k[1] = p /\ k[2] <= Size[c]}

Described(s) ==
  /\ step[s] = "describe"
  /\ listed[s] = {}
  /\ \A p \in Policies : read[s][p] \notin Single

CreateItemsUnnumbered(s) ==
  /\ Described(s)
  /\ step' = [step EXCEPT ![s] = "write"]
  /\ todo' = [todo EXCEPT ![s] = {k \in Keys : k[2] = 1 /\ k \in Statements(k[1], read[s][k[1]])}]
  /\ UNCHANGED <<org, table, listed, read, lost, since, settled>>

\* All policies are described, and their statements become items.
CreateItems(s) ==
  /\ Described(s)
  /\ step' = [step EXCEPT ![s] = "write"]
  /\ todo' = [todo EXCEPT ![s] = {k \in Keys : k \in Statements(k[1], read[s][k[1]])}]
  /\ UNCHANGED <<org, table, listed, read, lost, since, settled>>

\* Scan s has stored another content than c under a key.
StoredOtherwise(s, k, c) ==
  /\ step[s] = "write"
  /\ k \in Statements(k[1], read[s][k[1]]) \ todo[s]
  /\ read[s][k[1]] # c

\* put_items stores one more item, over the one of another scan if need be.
\* DynamoDB stores those of a batch in any order.
PutItem(s, k) ==
  /\ step[s] = "write"
  /\ k \in todo[s]
  /\ table' = [table EXCEPT ![k] = [doc |-> read[s][k[1]], age |-> 0]]
  /\ todo' = [todo EXCEPT ![s] = @ \ {k}]
  /\ lost' = [t \in Scans |-> lost[t] \cup
                IF StoredOtherwise(t, k, read[s][k[1]]) THEN {k[1]} ELSE {}]
  /\ UNCHANGED <<org, step, listed, read, since, settled>>

\* The invocation is over.
Leave(s) ==
  /\ step' = [step EXCEPT ![s] = "ended"]
  /\ listed' = [listed EXCEPT ![s] = {}]
  /\ read' = [read EXCEPT ![s] = Unread]
  /\ todo' = [todo EXCEPT ![s] = {}]
  /\ lost' = [lost EXCEPT ![s] = {}]
  /\ UNCHANGED <<org, table>>

\* No scan is about to store, or has stored beside s, another content of p.
Undisturbed(s, p) ==
  /\ p \notin lost[s]
  /\ \A t \in Scans : read[t][p] \in {Absent, org[p]}

\* Everything is stored.
EndScan(s) ==
  /\ step[s] = "write"
  /\ todo[s] = {}
  /\ since' = 0
  /\ settled' = {p \in Policies :
                   org[p] # Absent /\ read[s][p] = org[p] /\ Undisturbed(s, p)}
  /\ Leave(s)

\* A ClientError of any call, which is recorded as a task failure; another
\* exception, as for a policy with a single statement or one that was deleted
\* after it was listed; or the end of the invocation.  What is stored remains.
FailScan(s) ==
  /\ step[s] \in {"describe", "write"}
  /\ Leave(s)
  /\ UNCHANGED <<since, settled>>

-----------------------------------------------------------------------------
(* The organization, time and DynamoDB. *)

\* An administrator creates, changes or deletes a policy.
EditPolicy(p, c) ==
  /\ c # org[p]
  /\ org' = [org EXCEPT ![p] = c]
  /\ settled' = settled \ {p}
  /\ UNCHANGED <<table, scanVars, since>>

\* A day goes by.
Day ==
  /\ \A s \in Scans : step[s] \in {"idle", "ended"}
  /\ step' = [s \in Scans |-> "idle"]
  /\ table' = [k \in Keys |-> IF table[k] = Absent THEN Absent
                              ELSE [table[k] EXCEPT !.age = Older(@)]]
  /\ since' = Older(since)
  /\ UNCHANGED <<org, listed, read, todo, lost, settled>>

\* DynamoDB removes an item some time after its ExpiresAt.
Expire(k) ==
  /\ table[k] # Absent
  /\ table[k].age = Lifetime
  /\ table' = [table EXCEPT ![k] = Absent]
  /\ UNCHANGED <<org, scanVars, since, settled>>

-----------------------------------------------------------------------------
Scanning(s) ==
  \/ \E p \in Policies : DescribePolicy(s, p)
  \/ CreateItems(s)
  \/ \E k \in Keys : PutItem(s, k)
  \/ EndScan(s)
  \/ FailScan(s)

Next ==
  \/ \E s \in Scans : ListPolicies(s) \/ Scanning(s)
  \/ \E p \in Policies, c \in Documents \cup {Absent} : EditPolicy(p, c)
  \/ Day
  \/ \E k \in Keys : Expire(k)

Spec == Init /\ [][Next]_vars

\* A scan ends, at the latest with its invocation; time goes by; and DynamoDB
\* removes what has expired.  Nobody has to scan.
Fairness ==
  /\ \A s \in Scans : WF_vars(Scanning(s))
  /\ WF_vars(Day)
  /\ \A k \in Keys : WF_vars(Expire(k))

FairSpec == Spec /\ Fairness

-----------------------------------------------------------------------------
(* A search: read_policies, find_all_by_policy_type, DynamoDB.query. *)

Stored == {k \in Keys : table[k] # Absent}
Matching(filter) == {k \in Stored : <<table[k].doc, k[2]>> \in filter}

Before(j, k) == j[1] < k[1] \/ (j[1] = k[1] /\ j[2] < k[2])

FirstItemsButLast(keys, n) ==
  {k \in keys : Cardinality({j \in keys : j = k \/ Before(j, k)}) < n}

\* The first items in the order of the table.
FirstItems(keys, n) ==
  {k \in keys : Cardinality({j \in keys : Before(j, k)}) < n}

\* DynamoDB reads the first items, up to the limit or a full page, and applies
\* the filter to these.  The key to continue from is not passed on.
Examined(page) == FirstItems(Stored, IF page < Limit THEN page ELSE Limit)
Results(filter, page) == Examined(page) \cap Matching(filter)

TooManyAboveLimit(results) == Cardinality(results) > Limit

\* The UI then says that there are more results than it shows.
TooManyResults(results) == Cardinality(results) >= Limit

-----------------------------------------------------------------------------
(* Properties. *)

\* Types of the variables.
TypeOK ==
  /\ org \in [Policies -> Documents \cup {Absent}]
  /\ table \in [Keys -> [doc: Documents, age: 0 .. Lifetime] \cup {Absent}]
  /\ step \in [Scans -> {"idle", "describe", "write", "ended"}]
  /\ listed \in [Scans -> SUBSET Policies]
  /\ read \in [Scans -> [Policies -> Documents \cup {Absent}]]
  /\ todo \in [Scans -> SUBSET Keys]
  /\ lost \in [Scans -> SUBSET Policies]
  /\ since \in 0 .. Lifetime
  /\ settled \subseteq Policies

\* A policy that a complete scan has read as it still is can be found in full,
\* whatever scans have failed half way since and whatever is left of earlier
\* contents: each of its statements is stored, until its lifetime is over with
\* no other complete scan.  The one exception is a scan beside the complete one
\* that had read an older content and stores it after it: the policy is then
\* not settled.  (create_items, put_items, ExpiresAt)
SettledStored ==
  \A p \in settled : \A k \in Statements(p, org[p]) :
    \/ table[k] = Absent /\ since = Lifetime
    \/ table[k] # Absent /\ table[k].doc = org[p] /\ table[k].age <= since

\* Of such a policy a search finds what matches and nothing outdated but
\* statements numbered above its present ones, as long as no more items are
\* stored than one query reads; beyond that the search may miss it, whatever
\* its filter.  (DynamoDB.query, where the limit comes before the filter)
SettledFound ==
  \A p \in settled, filter \in Filters, page \in Pages :
    LET results == Results(filter, page)
        own == {k \in Statements(p, org[p]) : <<org[p], k[2]>> \in filter} IN
    /\ since < Lifetime /\ Cardinality(Stored) <= page /\ Cardinality(Stored) <= Limit
         => own \subseteq results
    /\ \A k \in results : k[1] = p => k \in own \/ k[2] > Size[org[p]]

\* When the UI does not say that results are missing although some are, it is
\* because a page of DynamoDB was full before the limit was reached, or because
\* the filter was applied to what had been read.  (policy-model-thunks.ts)
SilentGapsExplained ==
  \A filter \in Filters, page \in Pages :
    LET results == Results(filter, page) IN
    ~(Matching(filter) \subseteq results) /\ ~TooManyResults(results)
      => page < Limit \/ ~(Examined(page) \subseteq Matching(filter))

\* What the proof adds: a scan that is writing has stored whatever it no longer
\* has to, unless others stored something else over it, and every scan reads a
\* settled policy as that is.
ScanStores ==
  \A s \in Scans : step[s] = "write" =>
    \A p \in Policies : \A k \in Statements(p, read[s][p]) :
      \/ p \in lost[s]
      \/ k \in todo[s]
      \/ table[k] = [doc |-> read[s][p], age |-> 0]

TodoIsRead ==
  \A s \in Scans : \A k \in todo[s] :
    step[s] = "write" /\ k \in Statements(k[1], read[s][k[1]])

SettledRead ==
  \A p \in settled :
    org[p] # Absent /\ \A s \in Scans : read[s][p] \in {Absent, org[p]}

ItemsInv ==
  /\ TypeOK
  /\ SettledStored
  /\ ScanStores
  /\ TodoIsRead
  /\ SettledRead

\* Once a policy stays as it is, or stays deleted, no search shows any former
\* content of it for ever: what no scan overwrites expires.  (The sort key
\* counts the statements; ExpiresAt is set anew by each scan that writes.)
FormerContentVanishes ==
  \A p \in Policies, c \in Documents \cup {Absent} :
    <>[](org[p] = c) =>
      <>[](\A k \in Keys : k[1] = p => table[k] = Absent \/ table[k].doc = c)
=============================================================================
