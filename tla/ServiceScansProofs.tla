------------------------- MODULE ServiceScansProofs -------------------------
(***************************************************************************)
(* Theorems about ServiceScans for every set of regions, of resources and  *)
(* of the services that are scanned.                                       *)
(***************************************************************************)
EXTENDS ScannersProofs

ScanInvariant == TypeOK /\ WalkInv

\* The scanner at work is one of the table.
LEMMA ScanSound == service \in Services => Sound(service, scan)
BY ScannersSound, ServiceScansAssumption DEF scan

\* A region is not begun, and no call made, before the scan starts.
LEMMA ScanInvariantInit == Init => ScanInvariant
<1> SUFFICES ASSUME Init PROVE ScanInvariant
  OBVIOUS
<1> USE ServiceScansAssumption DEF Init
<1>1. scan.regional \in BOOLEAN
  BY ScanSound DEF Sound
<1>2. TypeOK
  BY <1>1 DEF TypeOK
<1>3. RegionAtWork /\ CallsOfScanner /\ PoliciesAccounted /\ VisitedOnce
  BY DEF RegionAtWork, CallsOfScanner, PoliciesAccounted, VisitedOnce
<1>4. RegionErrorsStayLocal /\ CrashNeedsReason
  BY DEF RegionErrorsStayLocal, CrashNeedsReason
<1> QED BY <1>2, <1>3, <1>4 DEF ScanInvariant, WalkInv

\* A step never changes the scanner.
LEMMA SameScanner == [Next]_vars => service' = service /\ scan' = scan
BY DEF Next, vars, scan, StartRegion, Answered, Connect, List, Raise, ReadPolicy,
   ReadNothing, ReadSingleStatement, ReadNoJson, TripOverArn, Fail, EndRegion, Return

\* A call under way is one the scanner can make, and its errors are Sound.
LEMMA PendingSound ==
  ASSUME ScanInvariant, NEW c \in pending, c.op # "assume_role_by_name"
  PROVE  /\ CallOf(scan, c.op) /\ SoundCall(service, scan, c.op)
         /\ c.op \in Sources
         /\ c.of \in Things \cup {None}
         /\ Called(c) = scan.client[c.op]
         /\ c.op \notin DOMAIN scan.next => c.of \in Things
<1>1. Sound(service, scan)
  BY ScanSound DEF ScanInvariant, TypeOK
<1>2. CallOf(scan, c.op) /\ (c.of = None => c.op \in scan.first)
  BY DEF ScanInvariant, WalkInv, CallsOfScanner
<1>3. SoundCall(service, scan, c.op)
  BY <1>1, <1>2 DEF Sound
<1>4. c.op \in Sources
  BY <1>3 DEF SoundCall, Sources
<1>5. c.of \in Things \cup {None}
  BY DEF ScanInvariant, TypeOK
<1>6. Called(c) = scan.client[c.op]
  BY DEF Called
<1>7. c.op \notin DOMAIN scan.next => c.of # None
  BY <1>1, <1>2 DEF Sound
<1> QED BY <1>2, <1>3, <1>4, <1>5, <1>6, <1>7

\* What the code must have met for an exception to leave a call: the two kinds
\* of trouble that the properties tell apart.
Excused(c, exception, reason) ==
  /\ exception = "RegionError" => scan.regional
  /\ exception # "RegionError" /\ scan.regional =>
       ~(c.op \in Listings /\ reason \in RegionTrouble)
  /\ exception # "RegionError" /\ exception \notin Handled[scan.caller] =>
       \/ <<c.op, reason>> \in FatalTrouble
       \/ reason \in {"json", "interrupted"}
       \/ reason = "unreachable" /\ c.op \notin Listings

\* An exception with an excuse keeps the invariant: it costs a region or the scan.
LEMMA RaiseKeepsInvariant ==
  ASSUME ScanInvariant, service' = service, scan' = scan,
         NEW c \in pending, NEW exception, NEW reason,
         Raise(c, exception, reason), Excused(c, exception, reason),
         exception = "RegionError" => due' = due,
         due' \subseteq (Regions \cup {"GLOBAL"}) \X Sources \X (Things \cup {None})
  PROVE  ScanInvariant'
<1> USE DEF Raise
<1>1. /\ region # None /\ outcome = "running"
      /\ region' = None /\ pending' = {} /\ here' = {} /\ left' = left
      /\ trouble' = trouble \cup {<<c.op, reason>>}
  BY DEF ScanInvariant, WalkInv, RegionAtWork
<1>2. Sources' = Sources /\ Listings' = Listings
  BY DEF Sources, Listings
<1>3. scan.regional => left \subseteq Regions /\ region \in Regions
  BY <1>1 DEF ScanInvariant, WalkInv, RegionAtWork
<1>4. TypeOK'
  <2>1. recorded' \subseteq Regions
    BY <1>3 DEF ScanInvariant, TypeOK
  <2>2. outcome' \in {"running", "returned", "recorded", "crashed"}
    BY <1>1
  <2> QED BY <1>1, <2>1, <2>2 DEF ScanInvariant, TypeOK
<1>5. RegionAtWork' /\ CallsOfScanner'
  <2>1. None \notin left
    BY ServiceScansAssumption DEF ScanInvariant, TypeOK
  <2> QED BY <1>1, <1>3, <2>1 DEF RegionAtWork, CallsOfScanner
<1>6. None \notin left \cup recorded /\ None \notin Regions \cup {"GLOBAL"}
  BY ServiceScansAssumption DEF ScanInvariant, TypeOK
<1>7. CASE exception = "RegionError"
  <2>1. /\ recorded' = recorded \cup {region} /\ items' = items
        /\ outcome' = "running" /\ due' = due
    BY <1>1, <1>7 DEF Excused
  <2>2. PoliciesAccounted'
    BY <1>1, <2>1 DEF ScanInvariant, WalkInv, PoliciesAccounted, SilentGaps
  <2>3. RegionErrorsStayLocal' /\ CrashNeedsReason'
    BY <2>1 DEF RegionErrorsStayLocal, CrashNeedsReason
  <2>4. region \notin left
    BY DEF ScanInvariant, WalkInv, RegionAtWork
  <2>5. VisitedOnce'
    BY <1>1, <1>6, <2>1, <2>4 DEF ScanInvariant, WalkInv, VisitedOnce
  <2> QED BY <1>2, <1>4, <1>5, <2>2, <2>3, <2>5 DEF ScanInvariant, WalkInv
<1>8. CASE exception # "RegionError"
  <2>1. /\ outcome' \in {"recorded", "crashed"}
        /\ outcome' = "crashed" => exception \notin Handled[scan.caller]
    BY <1>8
  <2>2. PoliciesAccounted'
    BY <2>1 DEF PoliciesAccounted
  <2>3. <<c.op, reason>> \in trouble'
    BY <1>1
  <2>4. RegionErrorsStayLocal'
    BY <1>2, <1>8, <2>3 DEF RegionErrorsStayLocal, Excused
  <2>5. CrashNeedsReason'
    BY <1>2, <1>8, <2>1, <2>3 DEF CrashNeedsReason, Excused, FatalTrouble
  <2>6. items' = {} /\ recorded' = recorded
    BY <1>8
  <2>7. VisitedOnce'
    BY <1>1, <1>6, <2>6 DEF ScanInvariant, WalkInv, VisitedOnce
  <2> QED BY <1>2, <1>4, <1>5, <2>2, <2>4, <2>5, <2>7 DEF ScanInvariant, WalkInv
<1> QED BY <1>7, <1>8

\* Both callers of scan() turn a ClientError into a failed task, and the router
\* an AttributeError.
LEMMA CallersHandle ==
  ASSUME NEW s, NEW sc, Sound(s, sc)
  PROVE  /\ sc.caller \in {"router", "start"}
         /\ "ClientError" \in Handled[sc.caller]
         /\ sc.caller = "router" => "AttributeError" \in Handled[sc.caller]
<1>1. sc.caller \in {"router", "start"}
  BY DEF Sound
<1>2. /\ Handled["router"] = {"ClientError", "AttributeError"}
      /\ Handled["start"] = {"ClientError"}
  BY DEF Handled
<1> QED BY <1>1, <1>2

\* Every way a call can fail has an excuse.
LEMMA FailureExcused ==
  ASSUME ScanInvariant, NEW c \in pending, NEW e \in Errors, c.op # "none_needed"
  PROVE  LET seen == Called(c).on[e] IN
         IF seen # "answer" THEN Excused(c, seen, e)
           ELSE /\ e = "missing" /\ c.op # "assume_role_by_name"
                /\ c.op \in DOMAIN scan.trips => Excused(c, scan.trips[c.op], e)
<1>1. Sound(service, scan)
  BY ScanSound DEF ScanInvariant, TypeOK
<1>2. /\ "ClientError" \in Handled[scan.caller]
      /\ scan.caller = "router" => "AttributeError" \in Handled[scan.caller]
      /\ scan.caller \in {"router", "start"}
  BY <1>1, CallersHandle
<1>3. CASE c.op = "assume_role_by_name"
  <2>1. Called(c).on[e] \in {"ClientError", "BotoCoreError"}
    BY <1>3, Handlers DEF Called, assume_role_by_name
  <2>2. Called(c).on[e] = "BotoCoreError" => e \in {"unreachable", "interrupted"}
    BY <1>3, Handlers DEF Called, assume_role_by_name
  <2>3. c.op \notin Listings
    BY <1>1, <1>3 DEF Sound, Listings
  <2> QED BY <1>2, <2>1, <2>2, <2>3 DEF Excused
<1>4. CASE c.op # "assume_role_by_name"
  <2>1. /\ Called(c) = scan.client[c.op]
        /\ SoundErrors(scan, c.op) /\ SoundTrips(scan, c.op)
    BY <1>4, PendingSound DEF SoundCall
  <2> DEFINE seen == scan.client[c.op].on[e]
  <2>2. c.op \in Listings /\ e \in RegionTrouble => seen = "RegionError"
    BY <2>1 DEF SoundErrors, Listings
  <2>3. CASE seen # "answer"
    <3>1. seen \in Exceptions
      BY <2>1, <2>3 DEF SoundErrors
    <3>2. seen = "RegionError" => scan.regional
      BY <2>1 DEF SoundErrors
    <3>3. seen = "BotoCoreError" =>
            e = "interrupted" \/ (e = "unreachable" /\ c.op \notin Listings)
      <4>1. "unreachable" \in RegionTrouble
        BY DEF RegionTrouble
      <4>2. seen = "BotoCoreError" => e \in {"unreachable", "interrupted"}
        BY <2>1 DEF SoundErrors
      <4> QED BY <2>2, <4>1, <4>2
    <3>4. seen = "AttributeError" => scan.caller = "router"
      BY <2>1 DEF SoundErrors
    <3>5. Excused(c, seen, e)
      BY <1>2, <2>2, <3>1, <3>2, <3>3, <3>4 DEF Excused, Exceptions
    <3> QED BY <2>1, <2>3, <3>5
  <2>4. CASE seen = "answer"
    <3>1. e = "missing"
      BY <2>1, <2>4 DEF SoundErrors
    <3>2. ASSUME c.op \in DOMAIN scan.trips PROVE Excused(c, scan.trips[c.op], e)
      <4>1. /\ scan.trips[c.op] \in {"AttributeError", "TypeError"}
            /\ scan.trips[c.op] = "AttributeError" => scan.caller = "router"
            /\ scan.trips[c.op] = "TypeError" =>
                 c.op \in {"batch_get_projects", "get_resource_policies"}
        BY <2>1, <3>2 DEF SoundTrips
      <4> QED BY <1>2, <3>1, <4>1 DEF Excused, RegionTrouble, FatalTrouble
    <3> QED BY <1>4, <2>1, <2>4, <3>1, <3>2
  <2> QED BY <2>3, <2>4
<1> QED BY <1>3, <1>4

\* The exceptions raised over a page, a statement, an ARN or a policy that is not
\* JSON have an excuse.
LEMMA TripExcused ==
  ASSUME ScanInvariant, NEW c \in pending, c.op # "assume_role_by_name"
  PROVE  /\ c.op # "none_needed" /\ Called(c).pages \in {"AttributeError", "TypeError"}
              => Excused(c, Called(c).pages, "page")
         /\ c.op \notin DOMAIN scan.next => Excused(c, "AttributeError", "statement")
         /\ scan.versions => Excused(c, "AttributeError", "arn")
         /\ Excused(c, "JSONDecodeError", "json")
<1>1. Sound(service, scan)
  BY ScanSound DEF ScanInvariant, TypeOK
<1>2. /\ "ClientError" \in Handled[scan.caller]
      /\ scan.caller = "router" => "AttributeError" \in Handled[scan.caller]
      /\ scan.caller \in {"router", "start"}
  BY <1>1, CallersHandle
<1>3. SoundCall(service, scan, c.op) /\ Called(c) = scan.client[c.op]
  BY PendingSound
<1>4. ASSUME c.op # "none_needed", Called(c).pages \in {"AttributeError", "TypeError"}
      PROVE  Excused(c, Called(c).pages, "page")
  <2>1. /\ Called(c).pages = "AttributeError" => scan.caller = "router"
        /\ Called(c).pages = "TypeError" => c.op = "list_snapshots"
    BY <1>3, <1>4 DEF SoundCall, SoundPages
  <2> QED BY <1>2, <1>4, <2>1 DEF Excused, RegionTrouble, FatalTrouble
<1>5. ASSUME c.op \notin DOMAIN scan.next
      PROVE  Excused(c, "AttributeError", "statement")
  <2>1. scan.caller = "start" => c.op = "describe_policy"
    BY <1>3, <1>5 DEF SoundCall
  <2> QED BY <1>2, <2>1 DEF Excused, RegionTrouble, FatalTrouble
<1>6. ASSUME scan.versions PROVE Excused(c, "AttributeError", "arn")
  BY <1>1, <1>2, <1>6 DEF Sound, Excused, RegionTrouble
<1>7. Excused(c, "JSONDecodeError", "json")
  BY DEF Excused, RegionTrouble
<1> QED BY <1>4, <1>5, <1>6, <1>7

\* Every step of the scan keeps the invariant.
LEMMA ScanInvariantStep == ScanInvariant /\ [Next]_vars => ScanInvariant'
<1> SUFFICES ASSUME ScanInvariant, [Next]_vars PROVE ScanInvariant'
  OBVIOUS
<1> USE ServiceScansAssumption
<1>1. service' = service /\ scan' = scan
  BY SameScanner
<1>2. Sources' = Sources /\ Listings' = Listings
  BY <1>1 DEF Sources, Listings
<1>3. Sound(service, scan)
  BY ScanSound DEF ScanInvariant, TypeOK
<1>4. TypeOK /\ WalkInv
  BY DEF ScanInvariant
<1>5. \A c \in pending : region # None /\ outcome = "running"
  BY <1>4 DEF WalkInv, RegionAtWork
<1>6. region # None => region \in Regions \cup {"GLOBAL"}
  BY <1>4 DEF TypeOK
<1>7. due \subseteq (Regions \cup {"GLOBAL"}) \X Sources \X (Things \cup {None})
  BY <1>4 DEF WalkInv
<1>8. ASSUME NEW r \in left, StartRegion(r) PROVE ScanInvariant'
  <2> USE <1>8 DEF StartRegion
  <2>1. r \in Regions \cup {"GLOBAL"} /\ r # None /\ here = {}
    BY <1>4 DEF TypeOK, WalkInv, RegionAtWork
  <2>2. pending' = {[op |-> "assume_role_by_name", of |-> None, page |-> 1]}
    BY DEF Call
  <2>3. TypeOK'
    BY <1>1, <1>2, <1>4, <2>1, <2>2 DEF TypeOK
  <2>4. RegionAtWork'
    BY <1>1, <1>4, <2>1 DEF WalkInv, RegionAtWork
  <2>5. CallsOfScanner'
    BY <2>2 DEF CallsOfScanner
  <2>6. PoliciesAccounted'
    BY <1>1, <1>4, <2>1 DEF WalkInv, PoliciesAccounted, SilentGaps
  <2>7. VisitedOnce' /\ RegionErrorsStayLocal' /\ CrashNeedsReason'
    BY <1>4 DEF WalkInv, VisitedOnce,
         RegionErrorsStayLocal, CrashNeedsReason
  <2> QED BY <1>2, <1>7, <2>3, <2>4, <2>5, <2>6, <2>7 DEF ScanInvariant, WalkInv
<1>9. ASSUME NEW c \in pending, Connect(c) PROVE ScanInvariant'
  <2> USE <1>9 DEF Connect
  <2>1. pending' = {[op |-> op, of |-> None, page |-> 1] : op \in scan.first}
    BY DEF Call
  <2>2. \A op \in scan.first : CallOf(scan, op) /\ op \in Sources
    BY <1>3 DEF CallOf, Sound, SoundCall, Sources
  <2>3. TypeOK'
    BY <1>1, <1>2, <1>4, <2>1 DEF TypeOK
  <2>4. RegionAtWork'
    BY <1>1, <1>4, <1>5 DEF WalkInv, RegionAtWork
  <2>5. CallsOfScanner'
    BY <1>1, <1>2, <2>1, <2>2 DEF CallsOfScanner
  <2>6. PoliciesAccounted'
    BY <1>1, <1>4 DEF WalkInv, PoliciesAccounted, SilentGaps
  <2>7. VisitedOnce' /\ RegionErrorsStayLocal' /\ CrashNeedsReason'
    BY <1>4, <1>5 DEF WalkInv, VisitedOnce,
         RegionErrorsStayLocal, CrashNeedsReason
  <2> QED BY <1>2, <1>7, <2>3, <2>4, <2>5, <2>6, <2>7 DEF ScanInvariant, WalkInv
<1>10. ASSUME NEW c \in pending, c.op \in DOMAIN scan.next,
              NEW results \in Results(c), NEW more \in BOOLEAN, List(c, results, more)
       PROVE  ScanInvariant'
  <2> DEFINE pages == Called(c).pages
  <2>1. c.op \notin {"assume_role_by_name", "none_needed"}
    BY <1>3, <1>10 DEF Sound
  <2>2. /\ SoundPages(service, scan, c.op) /\ Called(c) = scan.client[c.op]
        /\ c.op \in Sources /\ c.of \in Things \cup {None}
    BY <2>1, PendingSound DEF SoundCall
  <2>3. CASE c.page = 2 /\ pages \in {"AttributeError", "TypeError"}
    <3>1. Raise(c, pages, "page") /\ due' = due
      BY <1>10, <2>3 DEF List
    <3>2. Excused(c, pages, "page")
      BY <2>1, <2>3, TripExcused
    <3> QED BY <1>1, <1>7, <3>1, <3>2, RaiseKeepsInvariant
  <2>4. CASE ~(c.page = 2 /\ pages \in {"AttributeError", "TypeError"})
    <3> DEFINE following == {Call(op, t) : op \in scan.next[c.op], t \in results}
               rest == IF more /\ pages # "first" THEN {[c EXCEPT !.page = 2]} ELSE {}
               gap == IF more /\ pages = "first" THEN {Beyond(c)} ELSE {}
    <3>1. /\ pending' = (pending \ {c}) \cup following \cup rest
          /\ due' = due \cup gap
          /\ UNCHANGED <<service, left, region, here, items, recorded, outcome, trouble>>
      BY <1>10, <2>4 DEF List
    <3>2. results \subseteq Things
      BY <2>2, <1>10 DEF Results
    <3>3. ASSUME NEW d \in following
          PROVE  /\ d \in [op : Sources \cup {"assume_role_by_name"},
                           of : Things \cup {None}, page : {1, 2}]
                 /\ CallOf(scan, d.op) /\ d.of # None
      <4>1. PICK op \in scan.next[c.op], t \in results : d = Call(op, t)
        OBVIOUS
      <4>2. CallOf(scan, op)
        BY <1>10 DEF CallOf
      <4>3. op \in Sources
        BY <1>3, <4>2 DEF Sound, SoundCall, Sources
      <4>4. d = [op |-> op, of |-> t, page |-> 1] /\ t \in Things /\ t # None
        BY <3>2, <4>1 DEF Call
      <4> QED BY <4>2, <4>3, <4>4
    <3>4. ASSUME NEW d \in rest
          PROVE  /\ d \in [op : Sources \cup {"assume_role_by_name"},
                           of : Things \cup {None}, page : {1, 2}]
                 /\ CallOf(scan, d.op) /\ (d.of = None => d.op \in scan.first)
      <4>1. /\ c \in [op : Sources \cup {"assume_role_by_name"},
                      of : Things \cup {None}, page : {1, 2}]
            /\ CallOf(scan, c.op) /\ (c.of = None => c.op \in scan.first)
        BY <1>4, <2>1 DEF WalkInv, CallsOfScanner
      <4>2. d = [c EXCEPT !.page = 2]
        OBVIOUS
      <4> QED BY <4>1, <4>2
    <3>5. ASSUME NEW d \in gap
          PROVE  /\ d \in (Regions \cup {"GLOBAL"}) \X Sources \X (Things \cup {None})
                 /\ <<service, d[2]>> \in SilentGaps
      <4>1. d = <<region, c.op, None>> /\ pages = "first"
        BY DEF Beyond
      <4>2. <<service, c.op>> \in SilentGaps
        BY <2>2, <4>1 DEF SoundPages
      <4> QED BY <1>5, <1>6, <2>2, <4>1, <4>2
    <3> HIDE DEF following, rest, gap
    <3>6. CallsOfScanner'
      BY <1>1, <1>2, <1>4, <3>1, <3>3, <3>4 DEF WalkInv, CallsOfScanner
    <3>7. TypeOK'
      <4>1. \A d \in pending' : d.of \in Things \cup {None} /\ d.page \in {1, 2}
        BY <1>2, <3>6 DEF CallsOfScanner
      <4> QED BY <1>1, <1>2, <1>4, <3>1, <4>1 DEF TypeOK
    <3>8. RegionAtWork'
      BY <1>1, <1>4, <1>5, <3>1 DEF WalkInv, RegionAtWork
    <3>9. PoliciesAccounted'
      BY <1>1, <1>4, <3>1, <3>5 DEF WalkInv, PoliciesAccounted, SilentGaps
    <3>10. VisitedOnce' /\ RegionErrorsStayLocal' /\ CrashNeedsReason'
      BY <1>4, <1>5, <3>1 DEF WalkInv, VisitedOnce,
         RegionErrorsStayLocal, CrashNeedsReason
    <3>11. due' \subseteq ((Regions \cup {"GLOBAL"}) \X Sources \X (Things \cup {None}))'
      BY <1>2, <1>7, <3>1, <3>5
    <3> QED BY <3>6, <3>7, <3>8, <3>9, <3>10, <3>11 DEF ScanInvariant, WalkInv
  <2> QED BY <2>3, <2>4
<1>11. ASSUME NEW c \in pending, Reading(c)
       PROVE  /\ c.op # "assume_role_by_name" /\ c.op \notin DOMAIN scan.next
              /\ <<c.op, c.of>> \in Sources \X Things
              /\ <<region, c.op, c.of>> \in
                   (Regions \cup {"GLOBAL"}) \X Sources \X (Things \cup {None})
  BY <1>5, <1>6, <1>11, PendingSound DEF Reading
<1>12. ASSUME NEW c \in pending, NEW more \in BOOLEAN, ReadPolicy(c, more)
       PROVE ScanInvariant'
  <2> USE <1>12 DEF ReadPolicy
  <2> DEFINE gap == IF more THEN {Beyond(c)} ELSE {}
  <2>1. ASSUME NEW d \in gap
        PROVE  /\ d \in (Regions \cup {"GLOBAL"}) \X Sources \X (Things \cup {None})
               /\ <<service, d[2]>> \in SilentGaps
    <3>1. d = <<region, c.op, None>> /\ c.op # "none_needed" /\ Called(c).pages = "first"
      BY DEF Beyond
    <3>2. <<service, c.op>> \in SilentGaps /\ c.op \in Sources
      BY <1>11, <3>1, PendingSound DEF SoundCall, SoundPages
    <3> QED BY <1>5, <1>6, <3>1, <3>2
  <2>2. TypeOK'
    BY <1>1, <1>2, <1>4, <1>11 DEF TypeOK
  <2>3. RegionAtWork' /\ CallsOfScanner'
    BY <1>1, <1>2, <1>4, <1>5 DEF WalkInv, RegionAtWork, CallsOfScanner
  <2>4. PoliciesAccounted'
    <3>1. ASSUME NEW d \in due
          PROVE  \/ d \in items' \/ d[1] \in recorded' \/ <<service, d[2]>> \in SilentGaps
                 \/ d[1] = region' /\ <<d[2], d[3]>> \in here'
      BY <1>4, <1>5 DEF WalkInv, PoliciesAccounted
    <3>2. <<region, c.op, c.of>>[1] = region' /\ <<c.op, c.of>> \in here'
      OBVIOUS
    <3>3. due' = due \cup {<<region, c.op, c.of>>} \cup gap
      OBVIOUS
    <3>4. ASSUME NEW d \in due'
          PROVE  \/ d \in items' \/ d[1] \in recorded' \/ <<service, d[2]>> \in SilentGaps
                 \/ d[1] = region' /\ <<d[2], d[3]>> \in here'
      BY <2>1, <3>1, <3>2, <3>3
    <3> QED BY <1>1, <3>4 DEF PoliciesAccounted, SilentGaps
  <2>5. VisitedOnce' /\ RegionErrorsStayLocal' /\ CrashNeedsReason'
    BY <1>4, <1>5 DEF WalkInv, VisitedOnce,
         RegionErrorsStayLocal, CrashNeedsReason
  <2>6. due' \subseteq (Regions \cup {"GLOBAL"}) \X Sources \X (Things \cup {None})
    BY <1>7, <1>11, <2>1
  <2> QED BY <1>2, <2>2, <2>3, <2>4, <2>5, <2>6 DEF ScanInvariant, WalkInv
<1>13. ASSUME NEW c \in pending, ReadNothing(c) PROVE ScanInvariant'
  <2> USE <1>13 DEF ReadNothing
  <2>1. TypeOK'
    BY <1>1, <1>2, <1>4 DEF TypeOK
  <2>2. RegionAtWork' /\ CallsOfScanner'
    BY <1>1, <1>2, <1>4, <1>5 DEF WalkInv, RegionAtWork, CallsOfScanner
  <2>3. PoliciesAccounted'
    BY <1>1, <1>4 DEF WalkInv, PoliciesAccounted, SilentGaps
  <2>4. VisitedOnce' /\ RegionErrorsStayLocal' /\ CrashNeedsReason'
    BY <1>4, <1>5 DEF WalkInv, VisitedOnce,
         RegionErrorsStayLocal, CrashNeedsReason
  <2> QED BY <1>2, <1>7, <2>1, <2>2, <2>3, <2>4 DEF ScanInvariant, WalkInv
<1>14. ASSUME NEW c \in pending, ReadSingleStatement(c) PROVE ScanInvariant'
  <2>1. Raise(c, "AttributeError", "statement") /\ Reading(c)
    BY <1>14 DEF ReadSingleStatement
  <2>2. due' \subseteq (Regions \cup {"GLOBAL"}) \X Sources \X (Things \cup {None})
    BY <1>7, <1>11, <1>14 DEF ReadSingleStatement
  <2>3. Excused(c, "AttributeError", "statement")
    BY <1>11, <2>1, TripExcused
  <2> QED BY <1>1, <2>1, <2>2, <2>3, RaiseKeepsInvariant
<1>15. ASSUME NEW c \in pending, TripOverArn(c) PROVE ScanInvariant'
  <2>1. Raise(c, "AttributeError", "arn") /\ Reading(c) /\ scan.versions /\ due' = due
    BY <1>15 DEF TripOverArn
  <2>2. Excused(c, "AttributeError", "arn")
    BY <1>11, <2>1, TripExcused
  <2> QED BY <1>1, <1>7, <2>1, <2>2, RaiseKeepsInvariant
<1>16. ASSUME NEW c \in pending, NEW e \in Errors, Fail(c, e) PROVE ScanInvariant'
  <2> DEFINE seen == Called(c).on[e]
  <2>1. c.op # "none_needed"
    BY <1>16 DEF Fail
  <2>2. CASE seen # "answer"
    <3>1. Raise(c, seen, e) /\ due' = due
      BY <1>16, <2>2 DEF Fail
    <3>2. Excused(c, seen, e)
      BY <2>1, <2>2, FailureExcused
    <3> QED BY <1>1, <1>7, <3>1, <3>2, RaiseKeepsInvariant
  <2>3. CASE seen = "answer" /\ c.op \in DOMAIN scan.trips
    <3>1. Raise(c, scan.trips[c.op], e) /\ due' = due
      BY <1>16, <2>3 DEF Fail
    <3>2. Excused(c, scan.trips[c.op], e)
      BY <2>1, <2>3, FailureExcused
    <3> QED BY <1>1, <1>7, <3>1, <3>2, RaiseKeepsInvariant
  <2>4. CASE seen = "answer" /\ c.op \notin DOMAIN scan.trips
    <3>1. e = "missing"
      BY <2>1, <2>4, FailureExcused
    <3>2. /\ pending' = pending \ {c} /\ due' = due
          /\ UNCHANGED <<service, left, region, here, items, recorded, outcome>>
      BY <1>16, <2>4, <3>1 DEF Fail
    <3>3. TypeOK'
      BY <1>1, <1>2, <1>4, <3>2 DEF TypeOK
    <3>4. RegionAtWork' /\ CallsOfScanner'
      BY <1>1, <1>2, <1>4, <1>5, <3>2 DEF WalkInv, RegionAtWork, CallsOfScanner
    <3>5. PoliciesAccounted'
      BY <1>1, <1>4, <3>2 DEF WalkInv, PoliciesAccounted, SilentGaps
    <3>6. VisitedOnce' /\ RegionErrorsStayLocal' /\ CrashNeedsReason'
      BY <1>4, <1>5, <3>2 DEF WalkInv, VisitedOnce,
         RegionErrorsStayLocal, CrashNeedsReason
    <3> QED BY <1>2, <1>7, <3>2, <3>3, <3>4, <3>5, <3>6 DEF ScanInvariant, WalkInv
  <2> QED BY <2>2, <2>3, <2>4
<1>17. CASE EndRegion
  <2> USE <1>17 DEF EndRegion
  <2>1. outcome = "running" /\ here \subseteq Sources \X Things
    BY <1>4 DEF WalkInv, RegionAtWork, TypeOK
  <2>2. TypeOK'
    BY <1>1, <1>2, <1>4 DEF TypeOK
  <2>3. RegionAtWork' /\ CallsOfScanner'
    <3>1. None \notin left
      BY <1>4 DEF TypeOK
    <3> QED BY <1>1, <1>4, <3>1 DEF WalkInv, RegionAtWork, CallsOfScanner
  <2>4. PoliciesAccounted'
    <3>1. ASSUME NEW d \in due, d[1] = region, <<d[2], d[3]>> \in here
          PROVE  d \in items'
      <4>1. d = <<d[1], d[2], d[3]>>
        BY <1>7, <3>1
      <4>2. <<region, <<d[2], d[3]>>[1], <<d[2], d[3]>>[2]>> \in items'
        BY <3>1
      <4> QED BY <3>1, <4>1, <4>2
    <3> QED BY <1>1, <1>4, <3>1 DEF WalkInv, PoliciesAccounted, SilentGaps
  <2>5. VisitedOnce'
    <3>1. /\ region \in (Regions \cup {"GLOBAL"}) \ (left \cup recorded \cup {None})
          /\ None \notin recorded \cup Regions \cup {"GLOBAL"}
      BY <1>4, <1>6 DEF WalkInv, RegionAtWork, VisitedOnce, TypeOK
    <3>2. ASSUME NEW i \in items' PROVE i[1] = region \/ i \in items
      OBVIOUS
    <3> QED BY <1>4, <3>1, <3>2 DEF WalkInv, VisitedOnce
  <2>6. RegionErrorsStayLocal' /\ CrashNeedsReason'
    BY <2>1 DEF RegionErrorsStayLocal, CrashNeedsReason
  <2> QED BY <1>2, <1>7, <2>2, <2>3, <2>4, <2>5, <2>6 DEF ScanInvariant, WalkInv
<1>18. CASE Return
  <2> USE <1>18 DEF Return
  <2>1. here = {} /\ pending = {}
    BY <1>4 DEF WalkInv, RegionAtWork
  <2>2. TypeOK'
    BY <1>1, <1>2, <1>4 DEF TypeOK
  <2>3. RegionAtWork' /\ CallsOfScanner'
    BY <1>1, <1>4, <2>1 DEF WalkInv, RegionAtWork, CallsOfScanner
  <2>4. PoliciesAccounted'
    BY <1>1, <1>4 DEF WalkInv, PoliciesAccounted, SilentGaps
  <2>5. VisitedOnce' /\ RegionErrorsStayLocal' /\ CrashNeedsReason'
    BY <1>4 DEF WalkInv, VisitedOnce,
         RegionErrorsStayLocal, CrashNeedsReason
  <2> QED BY <1>2, <1>7, <2>2, <2>3, <2>4, <2>5 DEF ScanInvariant, WalkInv
<1>19. CASE UNCHANGED vars
  BY <1>1, <1>2, <1>4, <1>19 DEF vars, ScanInvariant, TypeOK, WalkInv, RegionAtWork,
     CallsOfScanner, PoliciesAccounted, VisitedOnce, RegionErrorsStayLocal,
     CrashNeedsReason, SilentGaps, FatalTrouble, RegionTrouble
<1>20. ASSUME NEW c \in pending, ReadNoJson(c) PROVE ScanInvariant'
  <2>1. Raise(c, "JSONDecodeError", "json") /\ Reading(c)
    BY <1>20 DEF ReadNoJson
  <2>2. due' \subseteq (Regions \cup {"GLOBAL"}) \X Sources \X (Things \cup {None})
    BY <1>7, <1>11, <1>20 DEF ReadNoJson
  <2>3. Excused(c, "JSONDecodeError", "json")
    BY <1>11, <2>1, TripExcused
  <2> QED BY <1>1, <2>1, <2>2, <2>3, RaiseKeepsInvariant
<1> QED BY <1>8, <1>9, <1>10, <1>12, <1>13, <1>14, <1>15, <1>16, <1>17, <1>18, <1>19,
        <1>20 DEF Next, Answered

-----------------------------------------------------------------------------
(* The theorems, for every set of regions, resources and services. *)

LEMMA ScanInvariantHolds == Spec => []ScanInvariant
BY ScanInvariantInit, ScanInvariantStep, PTL DEF Spec

\* The variables keep their types: each policy found comes from a call of the
\* scanner, and only a scan over regions records regions as failed.
THEOREM ScanTypeCorrect == Spec => []TypeOK
<1>1. ScanInvariant => TypeOK
  BY DEF ScanInvariant
<1> QED BY <1>1, ScanInvariantHolds, PTL

\* What one region yields is never taken for another's, calls are the scanner's
\* own, and every policy seen stays accounted for between the regions (scan_regions
\* and scan_single_region).
THEOREM RegionsWalked == Spec => []WalkInv
<1>1. ScanInvariant => WalkInv
  BY DEF ScanInvariant
<1> QED BY <1>1, ScanInvariantHolds, PTL

\* A scan that returns has stored, or recorded the region of, each policy there
\* was, what lies beyond the first page or policy of the SilentGaps excepted.
THEOREM LossesKnown == Spec => []LossesAreKnown
<1>1. ScanInvariant => LossesAreKnown
  <2> SUFFICES ASSUME ScanInvariant, outcome = "returned", NEW d \in due
               PROVE  \/ d \in items \/ d[1] \in recorded
                      \/ <<service, d[2]>> \in SilentGaps
    BY DEF LossesAreKnown
  <2>1. here = {}
    BY DEF ScanInvariant, WalkInv, RegionAtWork
  <2> QED BY <2>1 DEF ScanInvariant, WalkInv, PoliciesAccounted
<1> QED BY <1>1, ScanInvariantHolds, PTL

\* A region that refuses a listing, or that cannot be connected to for one, never
\* ends a scan over regions (service_exception_handler, scan_regions).
THEOREM RegionsFailAlone == Spec => []RegionErrorsStayLocal
<1>1. ScanInvariant => RegionErrorsStayLocal
  BY DEF ScanInvariant, WalkInv
<1> QED BY <1>1, ScanInvariantHolds, PTL

\* An exception escapes both callers of scan() only for one of the reasons that
\* CrashNeedsReason lists.
THEOREM CrashesExplained == Spec => []CrashNeedsReason
<1>1. ScanInvariant => CrashNeedsReason
  BY DEF ScanInvariant, WalkInv
<1> QED BY <1>1, ScanInvariantHolds, PTL

-----------------------------------------------------------------------------
(* Every scanner is a TaskScan. *)

\* A call that returns is no step of the abstract scan; an exception settles the
\* region or gives the scan up.
LEMMA CallRefines ==
  ASSUME ScanInvariant, NEW c \in pending, service' = service, scan' = scan,
         \/ UNCHANGED <<left, region, items, recorded, outcome>>
         \/ \E exception, reason : Raise(c, exception, reason)
  PROVE  [Task!Next]_(Task!vars)
<1>1. CASE UNCHANGED <<left, region, items, recorded, outcome>>
  BY <1>1 DEF Task!vars
<1>2. ASSUME NEW exception, NEW reason, Raise(c, exception, reason)
      PROVE  Task!Next
  <2>1. /\ region # None /\ outcome = "running" /\ region \notin left
        /\ region \in Regions \cup {"GLOBAL"}
    BY DEF ScanInvariant, TypeOK, WalkInv, RegionAtWork
  <2>2. region' = None /\ left' = left
    BY <1>2 DEF Raise
  <2> PICK p \in Regions \cup {"GLOBAL"} : p = region
    BY <2>1
  <2>3. /\ p \in left \cup ({region} \ {None})
        /\ (left \cup ({region} \ {None}))' = (left \cup ({region} \ {None})) \ {p}
    BY <2>1, <2>2
  <2>4. CASE exception = "RegionError" /\ scan.regional
    <3>1. recorded' = recorded \cup {region} /\ UNCHANGED <<items, outcome>>
      BY <1>2, <2>4 DEF Raise
    <3>2. Task!Record(p)
      BY <2>1, <2>3, <3>1 DEF Task!Record
    <3> QED BY <2>3, <3>2 DEF Task!Next
  <2>5. CASE ~(exception = "RegionError" /\ scan.regional)
    <3>1. outcome' \in {"recorded", "crashed"} /\ items' = {} /\ recorded' = recorded
      BY <1>2, <2>5 DEF Raise
    <3>2. {i[1] : i \in items'} = {}
      BY <3>1
    <3>3. Task!GiveUp(p)
      BY <2>1, <2>3, <3>1, <3>2 DEF Task!GiveUp
    <3> QED BY <2>3, <3>3 DEF Task!Next
  <2> QED BY <2>4, <2>5
<1> QED BY <1>1, <1>2

LEMMA ScanRefines == ScanInvariant /\ [Next]_vars => [Task!Next]_(Task!vars)
<1> SUFFICES ASSUME ScanInvariant, [Next]_vars PROVE [Task!Next]_(Task!vars)
  OBVIOUS
<1> USE ServiceScansAssumption
<1>1. service' = service /\ scan' = scan
  BY SameScanner
<1>2. /\ region \in Regions \cup {"GLOBAL", None} /\ region \notin left
      /\ left \subseteq Regions \cup {"GLOBAL"}
      /\ region # None => outcome = "running"
  BY DEF ScanInvariant, TypeOK, WalkInv, RegionAtWork
<1>3. ASSUME NEW r \in left, StartRegion(r) PROVE [Task!Next]_(Task!vars)
  <2>1. region = None /\ region' = r /\ left' = left \ {r} /\ r # None
    BY <1>2, <1>3 DEF StartRegion
  <2>2. (left \cup ({region} \ {None}))' = left \cup ({region} \ {None})
    BY <2>1
  <2>3. UNCHANGED <<items, recorded, outcome>>
    BY <1>3 DEF StartRegion
  <2> QED BY <2>2, <2>3 DEF Task!vars
<1>4. ASSUME NEW c \in pending, Answered(c) PROVE [Task!Next]_(Task!vars)
  <2>1. \/ UNCHANGED <<left, region, items, recorded, outcome>>
        \/ \E exception, reason : Raise(c, exception, reason)
    BY <1>4 DEF Answered, Connect, List, ReadPolicy, ReadNothing, ReadSingleStatement,
       ReadNoJson, TripOverArn
  <2> QED BY <1>1, <2>1, CallRefines
<1>5. ASSUME NEW c \in pending, NEW e \in Errors, Fail(c, e)
      PROVE  [Task!Next]_(Task!vars)
  <2>1. \/ UNCHANGED <<left, region, items, recorded, outcome>>
        \/ \E exception, reason : Raise(c, exception, reason)
    BY <1>5 DEF Fail
  <2> QED BY <1>1, <2>1, CallRefines
<1>6. CASE EndRegion
  <2> USE <1>6 DEF EndRegion
  <2>1. /\ region # None /\ outcome = "running" /\ region' = None /\ left' = left
        /\ UNCHANGED <<recorded, outcome>>
    BY <1>2
  <2> PICK p \in Regions \cup {"GLOBAL"} : p = region
    BY <1>2, <2>1
  <2>2. /\ p \in left \cup ({region} \ {None})
        /\ (left \cup ({region} \ {None}))' = (left \cup ({region} \ {None})) \ {p}
    BY <1>2, <2>1
  <2>3. {i[1] : i \in items'} \in
          {{i[1] : i \in items}, {i[1] : i \in items} \cup {region}}
    <3> DEFINE new == {<<region, h[1], h[2]>> : h \in here}
    <3>1. items' = items \cup new
      OBVIOUS
    <3>2. \A i \in new : i[1] = region
      OBVIOUS
    <3>3. here # {} => \E i \in new : TRUE
      OBVIOUS
    <3>4. here = {} => new = {}
      OBVIOUS
    <3> HIDE DEF new
    <3>5. CASE here = {}
      BY <3>1, <3>4, <3>5
    <3>6. CASE here # {}
      BY <3>1, <3>2, <3>3, <3>6
    <3> QED BY <3>5, <3>6
  <2>4. Task!Examine(p)
    BY <2>1, <2>2, <2>3 DEF Task!Examine
  <2> QED BY <2>2, <2>4 DEF Task!Next
<1>7. CASE Return
  BY <1>7 DEF Return, Task!Next, Task!Return
<1>8. CASE UNCHANGED vars
  BY <1>8 DEF vars, Task!vars
<1> QED BY <1>3, <1>4, <1>5, <1>6, <1>7, <1>8 DEF Next

\* For its caller every scanner is one and the same scan of places: a region is
\* kept as a whole or recorded as a whole, a scan that returns has left none out,
\* and one that is given up yields nothing.
THEOREM ScannersAreTaskScans == Spec => ImplementsTaskScan
<1>1. Init => Task!Init
  BY ServiceScansAssumption DEF Init, Task!Init
<1>2. ScanInvariant /\ [Next]_vars => [Task!Next]_(Task!vars)
  BY ScanRefines
<1> QED BY <1>1, <1>2, ScanInvariantHolds, PTL DEF Spec, ImplementsTaskScan, Task!Spec
=============================================================================
