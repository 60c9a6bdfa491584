------------------------- MODULE PolicyItemsProofs -------------------------
(***************************************************************************)
(* Theorems about PolicyItems for any policies, documents, lifetimes,      *)
(* limits and pages, with scans that fail at any point and policies that   *)
(* change at any time.                                                     *)
(***************************************************************************)
EXTENDS PolicyItems, FiniteSetTheorems, WellFoundedInduction, TLAPS

\* The keys of a document are keys of its policy, and there are none for Absent.
LEMMA StatementsOfPolicy ==
  ASSUME NEW p, NEW c
  PROVE  /\ Statements(p, c) \subseteq Keys
         /\ \A k \in Statements(p, c) : k[1] = p
         /\ c = Absent => Statements(p, c) = {}
BY DEF Statements

\* A key names a policy.
LEMMA PolicyOfKey == \A k \in Keys : k[1] \in Policies
BY DEF Keys

\* An item is not mistaken for none.
LEMMA ItemIsPresent ==
  ASSUME NEW c \in Documents, NEW n \in Nat
  PROVE  [doc |-> c, age |-> n] # Absent
<1>1. [doc |-> c, age |-> n] \in [doc: Documents, age: Nat]
  OBVIOUS
<1> QED BY <1>1, ItemsAssumption

\* The inductive invariant holds of the empty table.
LEMMA ItemsInvInit == Init => ItemsInv
<1> SUFFICES ASSUME Init PROVE ItemsInv
  OBVIOUS
<1>1. TypeOK
  BY ItemsAssumption DEF Init, TypeOK, Unread
<1>2. SettledStored /\ SettledRead /\ ScanStores /\ TodoIsRead
  BY DEF Init, SettledStored, SettledRead, ScanStores, TodoIsRead
<1> QED BY <1>1, <1>2 DEF ItemsInv

\* The beginning of a scan and the making of its items touch neither the
\* organization nor the table.
LEMMA ScanSteps ==
  ASSUME ItemsInv, NEW s \in Scans, ListPolicies(s) \/ CreateItems(s)
  PROVE  ItemsInv'
<1> USE ItemsAssumption DEF ItemsInv
<1>1. CASE ListPolicies(s)
  <2>1. TypeOK'
    BY <1>1 DEF ListPolicies, TypeOK
  <2>2. SettledStored'
    BY <1>1 DEF ListPolicies, SettledStored
  <2>3. /\ \A t \in Scans : step'[t] = "write" <=> step[t] = "write"
        /\ UNCHANGED <<org, table, read, todo, lost, since, settled>>
    BY <1>1 DEF ListPolicies, TypeOK
  <2>4. ScanStores' /\ TodoIsRead'
    BY <2>3 DEF ScanStores, TodoIsRead
  <2>5. SettledRead'
    BY <2>3 DEF SettledRead
  <2> QED BY <2>1, <2>2, <2>4, <2>5
<1>2. CASE CreateItems(s)
  <2> DEFINE new == {k \in Keys : k \in Statements(k[1], read[s][k[1]])}
  <2>1. /\ step' = [step EXCEPT ![s] = "write"]
        /\ todo' = [todo EXCEPT ![s] = new]
        /\ UNCHANGED <<org, table, listed, read, lost, since, settled>>
    BY <1>2 DEF CreateItems
  <2>2. new \subseteq Keys
    OBVIOUS
  <2>3. /\ step'[s] = "write" /\ todo'[s] = new
        /\ \A t \in Scans : t # s => step'[t] = step[t] /\ todo'[t] = todo[t]
    BY <2>1 DEF TypeOK
  <2>4. TypeOK'
    BY <2>1, <2>2 DEF TypeOK
  <2>5. SettledStored' /\ SettledRead'
    BY <2>1 DEF SettledStored, SettledRead
  <2>6. ScanStores'
    <3> SUFFICES ASSUME NEW t \in Scans, step'[t] = "write", NEW p \in Policies,
                        NEW k \in Statements(p, read[t][p])
                 PROVE  p \in lost[t] \/ k \in todo'[t]
                        \/ table[k] = [doc |-> read[t][p], age |-> 0]
      BY <2>1 DEF ScanStores
    <3>1. k \in Keys /\ k[1] = p
      BY StatementsOfPolicy
    <3>2. CASE t = s
      BY <2>3, <3>1, <3>2
    <3>3. CASE t # s
      BY <2>3, <3>3 DEF ScanStores
    <3> QED BY <3>2, <3>3
  <2>7. TodoIsRead'
    BY <2>1, <2>3 DEF TodoIsRead
  <2> QED BY <2>4, <2>5, <2>6, <2>7
<1> QED BY <1>1, <1>2

\* A scan that leaves takes nothing with it that another one refers to.
LEMMA LeaveStep ==
  ASSUME TypeOK, ScanStores, TodoIsRead, NEW s \in Scans, Leave(s)
  PROVE  /\ step' \in [Scans -> {"idle", "describe", "write", "ended"}]
         /\ listed' \in [Scans -> SUBSET Policies]
         /\ read' \in [Scans -> [Policies -> Documents \cup {Absent}]]
         /\ todo' \in [Scans -> SUBSET Keys]
         /\ lost' \in [Scans -> SUBSET Policies]
         /\ \A t \in Scans, p \in Policies : read'[t][p] \in {Absent, read[t][p]}
         /\ ScanStores' /\ TodoIsRead'
<1> USE DEF TypeOK
<1>1. /\ step' = [step EXCEPT ![s] = "ended"]
      /\ listed' = [listed EXCEPT ![s] = {}]
      /\ read' = [read EXCEPT ![s] = Unread]
      /\ todo' = [todo EXCEPT ![s] = {}]
      /\ lost' = [lost EXCEPT ![s] = {}]
      /\ UNCHANGED <<org, table>>
  BY DEF Leave
<1>2. /\ step'[s] = "ended" /\ todo'[s] = {} /\ read'[s] = Unread
      /\ \A t \in Scans : t # s =>
           /\ step'[t] = step[t] /\ read'[t] = read[t]
           /\ todo'[t] = todo[t] /\ lost'[t] = lost[t]
  BY <1>1
<1>3. Unread \in [Policies -> Documents \cup {Absent}] /\ \A p \in Policies : Unread[p] = Absent
  BY DEF Unread
<1>4. ScanStores'
  <2> SUFFICES ASSUME NEW t \in Scans, step'[t] = "write", NEW p \in Policies,
                      NEW k \in Statements(p, read'[t][p])
               PROVE  p \in lost'[t] \/ k \in todo'[t]
                      \/ table[k] = [doc |-> read'[t][p], age |-> 0]
    BY <1>1 DEF ScanStores
  <2>1. t # s
    BY <1>2
  <2> QED BY <1>2, <2>1 DEF ScanStores
<1>5. TodoIsRead'
  <2> SUFFICES ASSUME NEW t \in Scans, NEW k \in todo'[t]
               PROVE  step'[t] = "write" /\ k \in Statements(k[1], read'[t][k[1]])
    BY DEF TodoIsRead
  <2>1. t # s
    BY <1>2
  <2> QED BY <1>2, <2>1 DEF TodoIsRead
<1>6. \A t \in Scans, p \in Policies : read'[t][p] \in {Absent, read[t][p]}
  BY <1>2, <1>3
<1> QED BY <1>1, <1>3, <1>4, <1>5, <1>6

\* A scan that fails leaves what it has stored, and settles nothing.
LEMMA FailScanStep ==
  ASSUME ItemsInv, NEW s \in Scans, FailScan(s)
  PROVE  ItemsInv'
<1>1. Leave(s) /\ UNCHANGED <<org, table, since, settled>>
  BY DEF FailScan, Leave
<1>2. TypeOK' /\ ScanStores' /\ TodoIsRead'
  BY <1>1, LeaveStep DEF ItemsInv, TypeOK
<1>3. SettledStored'
  BY <1>1 DEF ItemsInv, SettledStored
<1>4. SettledRead'
  <2>1. \A t \in Scans, p \in Policies : read'[t][p] \in {Absent, read[t][p]}
    BY <1>1, LeaveStep DEF ItemsInv
  <2> QED BY <1>1, <2>1 DEF ItemsInv, SettledRead, TypeOK
<1> QED BY <1>2, <1>3, <1>4 DEF ItemsInv

\* A description of a settled policy is what the policy is.
LEMMA DescribeStep ==
  ASSUME ItemsInv, NEW s \in Scans, NEW p \in Policies, DescribePolicy(s, p)
  PROVE  ItemsInv'
<1> USE ItemsAssumption DEF ItemsInv
<1>1. /\ step[s] = "describe"
      /\ read' = read \/ read' = [read EXCEPT ![s] = [@ EXCEPT ![p] = org[p]]]
      /\ UNCHANGED <<org, table, step, todo, lost, since, settled>>
  BY DEF DescribePolicy
<1>2. TypeOK'
  <2>1. org[p] \in Documents \cup {Absent} /\ read[s] \in [Policies -> Documents \cup {Absent}]
    BY DEF TypeOK
  <2>2. read' \in [Scans -> [Policies -> Documents \cup {Absent}]]
    <3> DEFINE C == Documents \cup {Absent}
               now == [read[s] EXCEPT ![p] = org[p]]
    <3>1. read \in [Scans -> [Policies -> C]] /\ org[p] \in C
      BY <2>1 DEF TypeOK
    <3> HIDE DEF C
    <3>2. now \in [Policies -> C]
      BY <3>1
    <3>3. read' = read \/ read' = [read EXCEPT ![s] = now]
      BY <1>1
    <3> HIDE DEF now
    <3>4. read' \in [Scans -> [Policies -> C]]
      BY <3>1, <3>2, <3>3
    <3> QED BY <3>4 DEF C
  <2>3. listed' \in [Scans -> SUBSET Policies]
    BY DEF DescribePolicy, TypeOK
  <2> QED BY <1>1, <2>2, <2>3 DEF TypeOK
<1>3. /\ \A t \in Scans : t # s => read'[t] = read[t]
      /\ \A q \in Policies : read'[s][q] \in {read[s][q], org[q]}
  BY <1>1 DEF TypeOK
<1>4. SettledStored'
  BY <1>1 DEF SettledStored
<1>5. ScanStores'
  <2> SUFFICES ASSUME NEW t \in Scans, step[t] = "write", NEW q \in Policies,
                      NEW k \in Statements(q, read'[t][q])
               PROVE  q \in lost[t] \/ k \in todo[t]
                      \/ table[k] = [doc |-> read'[t][q], age |-> 0]
    BY <1>1 DEF ScanStores
  <2>1. t # s
    BY <1>1
  <2> QED BY <1>3, <2>1 DEF ScanStores
<1>6. TodoIsRead'
  <2> SUFFICES ASSUME NEW t \in Scans, NEW k \in todo[t]
               PROVE  step[t] = "write" /\ k \in Statements(k[1], read'[t][k[1]])
    BY <1>1 DEF TodoIsRead
  <2>1. t # s
    BY <1>1 DEF TodoIsRead
  <2> QED BY <1>3, <2>1 DEF TodoIsRead
<1>7. SettledRead'
  <2> SUFFICES ASSUME NEW q \in settled, NEW t \in Scans
               PROVE  org[q] # Absent /\ read'[t][q] \in {Absent, org[q]}
    BY <1>1 DEF SettledRead, TypeOK
  <2>1. q \in Policies
    BY DEF TypeOK
  <2> QED BY <1>3, <2>1 DEF SettledRead
<1> QED BY <1>2, <1>4, <1>5, <1>6, <1>7

\* An item that is written for a settled policy is what that policy is, and a
\* scan whose item it replaces by something else has lost that policy.
LEMMA PutItemStep ==
  ASSUME ItemsInv, NEW s \in Scans, NEW k \in Keys, PutItem(s, k)
  PROVE  ItemsInv'
<1> USE ItemsAssumption DEF ItemsInv
<1> DEFINE q == k[1]
           c == read[s][q]
<1>1. q \in Policies /\ k \in Statements(q, c) /\ step[s] = "write"
  BY PolicyOfKey DEF PutItem, TodoIsRead
<1>2. c # Absent /\ c \in Documents
  <2>1. c # Absent
    BY <1>1, StatementsOfPolicy
  <2>2. read[s] \in [Policies -> Documents \cup {Absent}]
    BY DEF TypeOK
  <2> HIDE DEF q, ItemsInv
  <2> QED BY <1>1, <2>1, <2>2
<1>3. /\ table' = [table EXCEPT ![k] = [doc |-> c, age |-> 0]]
      /\ todo' = [todo EXCEPT ![s] = @ \ {k}]
      /\ lost' = [t \in Scans |-> lost[t] \cup
                    IF StoredOtherwise(t, k, c) THEN {q} ELSE {}]
      /\ UNCHANGED <<org, step, listed, read, since, settled>>
  BY DEF PutItem
<1> HIDE DEF q, c
<1>4. TypeOK'
  <2>2. [doc |-> c, age |-> 0] \in [doc: Documents, age: 0 .. Lifetime]
    BY <1>2
  <2>3. lost' \in [Scans -> SUBSET Policies]
    BY <1>1, <1>3 DEF TypeOK
  <2> QED BY <1>3, <2>2, <2>3 DEF TypeOK
<1>5. /\ table'[k] = [doc |-> c, age |-> 0]
      /\ \A j \in Keys : j # k => table'[j] = table[j]
      /\ \A t \in Scans : /\ todo[t] \ {k} \subseteq todo'[t] /\ todo'[t] \subseteq todo[t]
                          /\ t # s => todo'[t] = todo[t]
                          /\ lost[t] \subseteq lost'[t]
                          /\ StoredOtherwise(t, k, c) => q \in lost'[t]
  BY <1>3 DEF TypeOK
<1>6. [doc |-> c, age |-> 0] # Absent
  BY <1>2, ItemIsPresent
<1>7. SettledStored'
  <2> SUFFICES ASSUME NEW r \in settled, NEW j \in Statements(r, org[r])
               PROVE  \/ table'[j] = Absent /\ since = Lifetime
                      \/ table'[j] # Absent /\ table'[j].doc = org[r] /\ table'[j].age <= since
    BY <1>3 DEF SettledStored
  <2>1. j \in Keys /\ j[1] = r
    BY StatementsOfPolicy
  <2>2. CASE j = k
    <3>1. c = org[r]
      BY <1>2, <2>1, <2>2 DEF SettledRead, q, c
    <3> QED BY <1>5, <1>6, <2>2, <3>1 DEF TypeOK
  <2>3. CASE j # k
    BY <1>5, <2>1, <2>3 DEF SettledStored
  <2> QED BY <2>2, <2>3
<1>8. ScanStores'
  <2> SUFFICES ASSUME NEW t \in Scans, step[t] = "write",
                      NEW r \in Policies, NEW j \in Statements(r, read[t][r])
               PROVE  r \in lost'[t] \/ j \in todo'[t]
                      \/ table'[j] = [doc |-> read[t][r], age |-> 0]
    BY <1>3 DEF ScanStores
  <2>1. j \in Keys /\ j[1] = r
    BY StatementsOfPolicy
  <2>2. r \in lost[t] \/ j \in todo[t] \/ table[j] = [doc |-> read[t][r], age |-> 0]
    BY DEF ScanStores
  <2>3. CASE j # k
    BY <1>5, <2>1, <2>2, <2>3
  <2>4. CASE j = k /\ read[t][r] = c
    BY <1>5, <2>4
  <2>5. CASE j = k /\ read[t][r] # c
    <3>1. r = q /\ t # s
      BY <2>1, <2>5 DEF q, c
    <3>2. CASE j \in todo[t]
      BY <1>5, <3>1, <3>2
    <3>3. CASE j \notin todo[t]
      <4>1. StoredOtherwise(t, k, c)
        BY <2>1, <2>5, <3>3 DEF StoredOtherwise
      <4> QED BY <1>5, <3>1, <4>1
    <3> QED BY <3>2, <3>3
  <2> QED BY <2>3, <2>4, <2>5
<1>9. TodoIsRead' /\ SettledRead'
  BY <1>3, <1>5 DEF TodoIsRead, SettledRead
<1> QED BY <1>4, <1>7, <1>8, <1>9

\* The end of a scan makes the policies it read settled, if no other scan is in
\* the way: all of their statements are in the table, fresh.
LEMMA EndScanStep ==
  ASSUME ItemsInv, NEW s \in Scans, EndScan(s)
  PROVE  ItemsInv'
<1> USE ItemsAssumption DEF ItemsInv
<1>1. /\ step[s] = "write" /\ todo[s] = {} /\ since' = 0
      /\ settled' = {p \in Policies :
                       org[p] # Absent /\ read[s][p] = org[p] /\ Undisturbed(s, p)}
      /\ Leave(s) /\ UNCHANGED <<org, table>>
  BY DEF EndScan, Leave
<1>2. TypeOK' /\ ScanStores' /\ TodoIsRead'
  BY <1>1, LeaveStep DEF TypeOK
<1>3. SettledStored'
  <2> SUFFICES ASSUME NEW p \in settled', NEW k \in Statements(p, org[p])
               PROVE  table[k] # Absent /\ table[k].doc = org[p] /\ table[k].age <= 0
    BY <1>1 DEF SettledStored
  <2>1. p \in Policies /\ read[s][p] = org[p] /\ org[p] # Absent /\ p \notin lost[s]
    BY <1>1 DEF Undisturbed
  <2>2. table[k] = [doc |-> org[p], age |-> 0]
    BY <1>1, <2>1 DEF ScanStores
  <2>4. [doc |-> org[p], age |-> 0] # Absent
    <3>1. org[p] \in Documents
      BY <2>1 DEF TypeOK
    <3> QED BY <3>1, ItemIsPresent
  <2> QED BY <2>2, <2>4
<1>4. SettledRead'
  <2> SUFFICES ASSUME NEW p \in settled', NEW t \in Scans
               PROVE  org[p] # Absent /\ read'[t][p] \in {Absent, org[p]}
    BY <1>1 DEF SettledRead
  <2>1. p \in Policies /\ org[p] # Absent /\ read[t][p] \in {Absent, org[p]}
    BY <1>1 DEF Undisturbed
  <2>2. read'[t][p] \in {Absent, read[t][p]}
    BY <1>1, <2>1, LeaveStep
  <2> QED BY <2>1, <2>2
<1> QED BY <1>2, <1>3, <1>4

\* An edit takes its policy out of the settled ones.
LEMMA EditStep ==
  ASSUME ItemsInv, NEW p \in Policies, NEW c \in Documents \cup {Absent}, EditPolicy(p, c)
  PROVE  ItemsInv'
<1> USE ItemsAssumption DEF ItemsInv
<1>1. /\ org' = [org EXCEPT ![p] = c] /\ settled' = settled \ {p}
      /\ UNCHANGED <<table, step, listed, read, todo, lost, since>>
  BY DEF EditPolicy, scanVars
<1>2. TypeOK'
  BY <1>1 DEF TypeOK
<1>3. \A q \in settled' : q \in settled /\ org'[q] = org[q]
  BY <1>1 DEF TypeOK
<1>4. SettledStored'
  BY <1>1, <1>3 DEF SettledStored
<1>5. ScanStores' /\ TodoIsRead'
  BY <1>1 DEF ScanStores, TodoIsRead
<1>6. SettledRead'
  BY <1>1, <1>3 DEF SettledRead
<1> QED BY <1>2, <1>4, <1>5, <1>6

\* A day ages the items and the last complete scan alike.
LEMMA DayStep ==
  ASSUME ItemsInv, Day
  PROVE  ItemsInv'
<1> USE ItemsAssumption DEF ItemsInv
<1>1. /\ \A s \in Scans : step[s] # "write"
      /\ step' = [s \in Scans |-> "idle"]
      /\ table' = [j \in Keys |-> IF table[j] = Absent THEN Absent
                                 ELSE [table[j] EXCEPT !.age = Older(@)]]
      /\ since' = Older(since)
      /\ UNCHANGED <<org, listed, read, todo, lost, settled>>
  BY DEF Day
<1>2. \A n \in 0 .. Lifetime : Older(n) \in 0 .. Lifetime
  BY DEF Older
<1>3. \A m, n \in 0 .. Lifetime : m <= n => Older(m) <= Older(n)
  BY DEF Older
<1>4. Older(Lifetime) = Lifetime
  BY DEF Older
<1>5. ASSUME NEW j \in Keys, table[j] # Absent
      PROVE  /\ table'[j] = [doc |-> table[j].doc, age |-> Older(table[j].age)]
             /\ table[j].doc \in Documents /\ table[j].age \in 0 .. Lifetime
             /\ table'[j] # Absent
  <2>1. table[j] \in [doc: Documents, age: 0 .. Lifetime]
    BY <1>5 DEF TypeOK
  <2>2. table'[j] = [doc |-> table[j].doc, age |-> Older(table[j].age)]
    BY <1>1, <1>5, <2>1
  <2>3. table[j].doc \in Documents /\ Older(table[j].age) \in Nat
    BY <1>2, <2>1
  <2> QED BY <2>1, <2>2, <2>3, ItemIsPresent
<1>6. TypeOK'
  <2>1. \A j \in Keys : table'[j] \in [doc: Documents, age: 0 .. Lifetime] \cup {Absent}
    <3> SUFFICES ASSUME NEW j \in Keys
                 PROVE  table'[j] \in [doc: Documents, age: 0 .. Lifetime] \cup {Absent}
      OBVIOUS
    <3>1. CASE table[j] = Absent
      BY <1>1, <3>1
    <3>2. CASE table[j] # Absent
      <4>1. /\ table'[j] = [doc |-> table[j].doc, age |-> Older(table[j].age)]
            /\ table[j].doc \in Documents /\ Older(table[j].age) \in 0 .. Lifetime
        BY <1>2, <1>5, <3>2
      <4> QED BY <4>1
    <3> QED BY <3>1, <3>2
  <2>2. table' \in [Keys -> [doc: Documents, age: 0 .. Lifetime] \cup {Absent}]
    BY <1>1, <2>1
  <2>3. since' \in 0 .. Lifetime
    BY <1>1, <1>2 DEF TypeOK
  <2> QED BY <1>1, <2>2, <2>3 DEF TypeOK
<1>7. SettledStored'
  <2> SUFFICES ASSUME NEW q \in settled, NEW j \in Statements(q, org[q])
               PROVE  \/ table'[j] = Absent /\ since' = Lifetime
                      \/ table'[j] # Absent /\ table'[j].doc = org[q] /\ table'[j].age <= since'
    BY <1>1 DEF SettledStored
  <2>1. j \in Keys
    BY StatementsOfPolicy
  <2>2. CASE table[j] = Absent
    BY <1>1, <1>4, <2>1, <2>2 DEF SettledStored
  <2>3. CASE table[j] # Absent
    <3>1. table[j].doc = org[q] /\ table[j].age <= since
      BY <2>3 DEF SettledStored
    <3>2. Older(table[j].age) <= Older(since)
      BY <1>3, <1>5, <2>1, <2>3, <3>1 DEF TypeOK
    <3>3. table'[j] = [doc |-> table[j].doc, age |-> Older(table[j].age)] /\ table'[j] # Absent
      BY <1>5, <2>1, <2>3
    <3> HIDE DEF ItemsInv
    <3>4. table'[j].doc = org[q] /\ table'[j].age <= since'
      BY <1>1, <3>1, <3>2, <3>3
    <3> QED BY <3>3, <3>4
  <2> QED BY <2>2, <2>3
<1>8. ScanStores' /\ SettledRead'
  BY <1>1 DEF ScanStores, SettledRead
<1>9. TodoIsRead'
  <2>1. \A s \in Scans : todo'[s] = {}
    BY <1>1 DEF TodoIsRead
  <2> QED BY <2>1 DEF TodoIsRead
<1> QED BY <1>6, <1>7, <1>8, <1>9

\* An item that expires is no younger than the last complete scan.
LEMMA ExpireStep ==
  ASSUME ItemsInv, NEW k \in Keys, Expire(k)
  PROVE  ItemsInv'
<1> USE ItemsAssumption DEF ItemsInv
<1>1. /\ table[k] # Absent /\ table[k].age = Lifetime
      /\ table' = [table EXCEPT ![k] = Absent]
      /\ UNCHANGED <<org, step, listed, read, todo, lost, since, settled>>
  BY DEF Expire, scanVars
<1>2. TypeOK'
  BY <1>1 DEF TypeOK
<1>3. /\ table'[k] = Absent
      /\ \A j \in Keys : j # k => table'[j] = table[j]
  BY <1>1 DEF TypeOK
<1>4. SettledStored'
  <2> SUFFICES ASSUME NEW q \in settled, NEW j \in Statements(q, org[q])
               PROVE  \/ table'[j] = Absent /\ since = Lifetime
                      \/ table'[j] # Absent /\ table'[j].doc = org[q] /\ table'[j].age <= since
    BY <1>1 DEF SettledStored
  <2>1. j \in Keys
    BY StatementsOfPolicy
  <2>2. CASE j = k
    <3>1. table[k] # Absent => table[k].age <= since
      BY <2>2 DEF SettledStored
    <3>2. since \in 0 .. Lifetime
      BY DEF TypeOK
    <3> HIDE DEF ItemsInv
    <3>3. since = Lifetime
      BY <1>1, <3>1, <3>2
    <3> QED BY <1>3, <2>2, <3>3
  <2>3. CASE j # k
    BY <1>3, <2>1, <2>3 DEF SettledStored
  <2> QED BY <2>2, <2>3
<1>5. ScanStores'
  <2>1. ASSUME NEW s \in Scans, step[s] = "write",
               NEW q \in Policies, NEW j \in Statements(q, read[s][q])
        PROVE  \/ q \in lost[s] \/ j \in todo[s]
               \/ table'[j] = [doc |-> read[s][q], age |-> 0]
    <3>1. j \in Keys
      BY StatementsOfPolicy
    <3>2. q \in lost[s] \/ j \in todo[s] \/ table[j] = [doc |-> read[s][q], age |-> 0]
      BY <2>1 DEF ScanStores
    <3>3. table[j] = [doc |-> read[s][q], age |-> 0] => j # k
      BY <1>1
    <3> QED BY <1>3, <3>1, <3>2, <3>3
  <2> QED BY <1>1, <2>1 DEF ScanStores
<1>6. TodoIsRead' /\ SettledRead'
  BY <1>1 DEF TodoIsRead, SettledRead
<1> QED BY <1>2, <1>4, <1>5, <1>6

\* ItemsInv is an inductive invariant: however scans fail and overlap and policies
\* change, what a complete scan has stored of a policy stays as long as the policy
\* does, unless another scan had read an older content beside it.
THEOREM ItemsInvariant == Spec => []ItemsInv
<1>1. ItemsInv /\ [Next]_vars => ItemsInv'
  <2> SUFFICES ASSUME ItemsInv, [Next]_vars PROVE ItemsInv'
    OBVIOUS
  <2>1. CASE \E s \in Scans : ListPolicies(s)
    BY <2>1, ScanSteps
  <2>2. CASE \E s \in Scans : Scanning(s)
    BY <2>2, ScanSteps, FailScanStep, DescribeStep, PutItemStep, EndScanStep DEF Scanning
  <2>3. CASE \E p \in Policies, c \in Documents \cup {Absent} : EditPolicy(p, c)
    BY <2>3, EditStep
  <2>4. CASE Day
    BY <2>4, DayStep
  <2>5. CASE \E k \in Keys : Expire(k)
    BY <2>5, ExpireStep
  <2>6. CASE UNCHANGED vars
    BY <2>6 DEF vars, scanVars, ItemsInv, TypeOK, SettledStored, ScanStores, TodoIsRead,
       SettledRead
  <2> QED BY <2>1, <2>2, <2>3, <2>4, <2>5, <2>6 DEF Next
<1> QED BY ItemsInvInit, <1>1, PTL DEF Spec

\* The table has finitely many keys, and their order is that of pairs of numbers.
LEMMA StoredIsFinite == IsFiniteSet(Stored) /\ Stored \subseteq Keys
<1>1. IsFiniteSet(1 .. MaxSize)
  BY FS_Interval, ItemsAssumption
<1>2. IsFiniteSet(Keys)
  BY <1>1, FS_Product, ItemsAssumption DEF Keys
<1>3. Stored \subseteq Keys
  BY DEF Stored
<1> QED BY <1>2, <1>3, FS_Subset

LEMMA KeysAreOrdered ==
  ASSUME NEW i \in Keys, NEW j \in Keys, NEW k \in Keys
  PROVE  /\ ~Before(k, k)
         /\ Before(i, j) /\ Before(j, k) => Before(i, k)
<1>1. \A x \in Keys : x[1] \in Nat /\ x[2] \in Nat
  <2>1. Policies \subseteq Nat /\ 1 .. MaxSize \subseteq Nat
    BY ItemsAssumption
  <2> QED BY <2>1 DEF Keys
<1> QED BY <1>1 DEF Before

\* A page that has room for all items examines all of them.
LEMMA RoomForAll ==
  ASSUME NEW n \in Nat, Cardinality(Stored) <= n
  PROVE  FirstItems(Stored, n) = Stored
<1> SUFFICES ASSUME NEW k \in Stored
             PROVE  Cardinality({j \in Stored : Before(j, k)}) < n
  BY DEF FirstItems
<1> DEFINE earlier == {j \in Stored : Before(j, k)}
<1>1. earlier \subseteq Stored \ {k}
  BY StoredIsFinite, KeysAreOrdered
<1>2. /\ IsFiniteSet(Stored \ {k})
      /\ Cardinality(Stored \ {k}) = Cardinality(Stored) - 1
  BY StoredIsFinite, FS_RemoveElement
<1>3. Cardinality(earlier) <= Cardinality(Stored \ {k}) /\ IsFiniteSet(earlier)
  BY <1>1, <1>2, FS_Subset
<1>4. Cardinality(Stored) \in Nat /\ Cardinality(earlier) \in Nat
  BY <1>3, StoredIsFinite, FS_CardinalityType
<1> QED BY <1>2, <1>3, <1>4

\* A page that is not full has examined all items.
LEMMA NoneBeyond ==
  ASSUME NEW n \in Nat, Cardinality(FirstItems(Stored, n)) < n
  PROVE  FirstItems(Stored, n) = Stored
<1> DEFINE Earlier(k) == {j \in Stored : Before(j, k)}
           Rank(k) == Cardinality(Earlier(k))
           Beyond == Stored \ FirstItems(Stored, n)
<1>1. FirstItems(Stored, n) \subseteq Stored
  BY DEF FirstItems
<1>2. SUFFICES ASSUME Beyond # {} PROVE FALSE
  BY <1>1
<1>3. \A k \in Stored : IsFiniteSet(Earlier(k)) /\ Rank(k) \in Nat
  BY StoredIsFinite, FS_Subset, FS_CardinalityType
<1>4. PICK k \in Beyond : \A j \in Beyond : ~(Rank(j) < Rank(k))
  <2> DEFINE Ranks == {Rank(j) : j \in Beyond}
  <2>1. Ranks \subseteq Nat /\ Ranks # {}
    BY <1>2, <1>3
  <2> HIDE DEF Ranks
  <2>2. PICK x \in Ranks : \A y \in Ranks : ~(<<y, x>> \in OpToRel(<, Nat))
    BY <2>1, NatLessThanWellFounded, WFMin
  <2>3. \A y \in Ranks : ~(y < x)
    BY <2>1, <2>2 DEF OpToRel
  <2> QED BY <2>3 DEF Ranks
<1>5. Earlier(k) \subseteq FirstItems(Stored, n)
  <2> SUFFICES ASSUME NEW j \in Earlier(k), j \in Beyond PROVE FALSE
    BY <1>1
  <2>1. k \in Keys /\ j \in Keys /\ Before(j, k)
    BY StoredIsFinite
  <2>2. Earlier(j) \subseteq Earlier(k) \ {j}
    BY <2>1, StoredIsFinite, KeysAreOrdered
  <2>3. /\ IsFiniteSet(Earlier(k) \ {j})
        /\ Cardinality(Earlier(k) \ {j}) = Rank(k) - 1
    BY <1>3, FS_RemoveElement
  <2>4. Rank(j) <= Rank(k) - 1
    BY <2>2, <2>3, FS_Subset
  <2> HIDE DEF Rank
  <2>5. Rank(j) \in Nat /\ Rank(k) \in Nat
    BY <1>3
  <2>6. Rank(j) < Rank(k)
    BY <2>4, <2>5
  <2> QED BY <1>4, <2>6
<1>6. IsFiniteSet(FirstItems(Stored, n))
  BY <1>1, StoredIsFinite, FS_Subset
<1>7. Rank(k) <= Cardinality(FirstItems(Stored, n))
  BY <1>5, <1>6, FS_Subset
<1>8. Cardinality(FirstItems(Stored, n)) \in Nat
  BY <1>6, FS_CardinalityType
<1>9. ~(Rank(k) < n)
  BY DEF FirstItems
<1> HIDE DEF Rank
<1>10. Rank(k) \in Nat
  BY <1>3
<1> QED BY <1>7, <1>8, <1>9, <1>10

\* A policy that a complete scan has read as it still is is found in full, with
\* nothing outdated but statements above its present ones, whatever the limit of
\* a search, the size of a page and the filter.
THEOREM SettledIsFound == Spec => []SettledFound
<1>1. ItemsInv => SettledFound
  <2> SUFFICES ASSUME ItemsInv, NEW p \in settled, NEW filter \in Filters, NEW page \in Pages
               PROVE  LET results == Results(filter, page)
                          own == {k \in Statements(p, org[p]) : <<org[p], k[2]>> \in filter}
                      IN
                      /\ since < Lifetime /\ Cardinality(Stored) <= page
                         /\ Cardinality(Stored) <= Limit => own \subseteq results
                      /\ \A k \in results : k[1] = p => k \in own \/ k[2] > Size[org[p]]
    BY DEF SettledFound
  <2> DEFINE results == Results(filter, page)
             own == {k \in Statements(p, org[p]) : <<org[p], k[2]>> \in filter}
  <2>1. \A k \in Statements(p, org[p]) :
          /\ k \in Keys
          /\ table[k] # Absent => table[k].doc = org[p]
          /\ since # Lifetime => table[k] # Absent
    BY StatementsOfPolicy DEF ItemsInv, SettledStored
  <2>2. ASSUME since < Lifetime, Cardinality(Stored) <= page, Cardinality(Stored) <= Limit
        PROVE  own \subseteq results
    <3>1. since # Lifetime
      BY <2>2, ItemsAssumption DEF ItemsInv, TypeOK
    <3>2. own \subseteq Matching(filter)
      BY <2>1, <3>1 DEF Matching, Stored
    <3>3. Examined(page) = Stored
      BY <2>2, RoomForAll, ItemsAssumption DEF Examined
    <3> QED BY <3>2, <3>3 DEF Results, Matching
  <2>3. ASSUME NEW k \in results, k[1] = p, ~(k[2] > Size[org[p]])
        PROVE  k \in own
    <3>1. k \in Keys /\ table[k] # Absent /\ <<table[k].doc, k[2]>> \in filter
      BY DEF Results, Matching, Stored
    <3>2. org[p] \in Documents
      BY DEF ItemsInv, TypeOK, SettledRead
    <3>3. Size[org[p]] \in Nat /\ k[2] \in Nat
      BY <3>1, <3>2, ItemsAssumption DEF Keys
    <3>4. k[2] <= Size[org[p]]
      BY <2>3, <3>3
    <3>5. k \in Statements(p, org[p])
      BY <2>3, <3>1, <3>2, <3>4, ItemsAssumption DEF Statements
    <3>6. table[k].doc = org[p]
      BY <2>1, <3>1, <3>5
    <3> QED BY <3>1, <3>5, <3>6
  <2> QED BY <2>2, <2>3
<1> QED BY ItemsInvariant, <1>1, PTL

\* A search whose page was not cut and whose filter lost nothing of what was read
\* either finds all that matches or is reported as incomplete.
THEOREM GapsAreExplained == Spec => []SilentGapsExplained
<1>1. SilentGapsExplained
  <2> SUFFICES ASSUME NEW filter \in Filters, NEW page \in Pages,
                      ~(page < Limit), Examined(page) \subseteq Matching(filter),
                      ~(Cardinality(Results(filter, page)) >= Limit)
               PROVE  Matching(filter) \subseteq Results(filter, page)
    BY DEF SilentGapsExplained, TooManyResults
  <2>1. Examined(page) = FirstItems(Stored, Limit)
    BY DEF Examined
  <2>2. Results(filter, page) = Examined(page)
    BY DEF Results
  <2>3. IsFiniteSet(FirstItems(Stored, Limit))
    BY StoredIsFinite, FS_Subset DEF FirstItems
  <2>4. Cardinality(FirstItems(Stored, Limit)) < Limit
    BY <2>1, <2>2, <2>3, FS_CardinalityType, ItemsAssumption
  <2>5. Examined(page) = Stored
    BY <2>1, <2>4, NoneBeyond, ItemsAssumption
  <2> QED BY <2>2, <2>5 DEF Matching
<1> QED BY <1>1, PTL
=============================================================================
