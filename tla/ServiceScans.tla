---------------------------- MODULE ServiceScans ----------------------------
(***************************************************************************)
(* One call of a scanner of policy_explorer/step_functions_lambda: it goes *)
(* through the regions of the account, lists the resources of the service, *)
(* reads the policy of each and turns the statements into items.  What     *)
(* PolicyScan takes as one step (a region that yields policies, fails, or  *)
(* ends the whole scan) is here derived from the calls of each scanner and *)
(* from what its wrapper in AwsClients does with errors and pages.         *)
(*                                                                         *)
(* Nothing of a region is kept before all its calls have succeeded, so     *)
(* that their order cannot be observed: the calls still to be made are a   *)
(* set.  Several policies or sub-resources of one resource are one.        *)
(***************************************************************************)
EXTENDS AwsClients

(***************************************************************************)
(* The scanners.  first: the listings a region starts with.  next: the     *)
(* calls made for each result of a call; a call without entry reads a      *)
(* policy.  trips: the exceptions that the code raises over a value        *)
(* {'Error': ...} in place of an answer; a call without entry finds no    *)
(* policy in it.                                                           *)
(* caller: who catches the exceptions of scan().                           *)
(* texts: policies come as strings, which create_items parses.             *)
(***************************************************************************)
Harmless == [op \in {} |-> "no exception"]

Scanner(client, first, next, trips) ==
  [client |-> client, first |-> first, next |-> next, trips |-> trips,
   regional |-> TRUE, caller |-> "router", versions |-> FALSE, texts |-> TRUE]

\* List the resources, read the policy of each.
PerResource(client, list, read, trips) ==
  Scanner(client, {list}, [op \in {list} |-> {read}], trips)

\* The policy comes with the listing: no call is needed to read it.
InListing(client, list) ==
  Scanner(client, {list}, [op \in {list} |-> {"none_needed"}], Harmless)

ACMPCAPolicy ==
  PerResource(ACMPCA, "list_certificate_authorities", "get_policy", Harmless)
APIGatewayPolicy == InListing(APIGateway, "get_rest_apis")
BackupVaultAccessPolicy ==
  PerResource(Backup, "list_backup_vaults", "get_backup_vault_access_policy", Harmless)
CloudFormationStackPolicy ==
  PerResource(CloudFormation, "list_stacks", "get_stack_policy", Harmless)
CodeArtifactPolicy ==
  Scanner(CodeArtifact, {"list_domains", "list_repositories"},
          [list_domains |-> {"get_domain_permissions_policy"},
           list_repositories |-> {"get_repository_permissions_policy"}], Harmless)

\* The answer of batch_get_projects is iterated over and indexed by 'arn'.
CodeBuildResourcePolicy ==
  Scanner(CodeBuild, {"list_projects", "list_report_groups"},
          [list_projects |-> {"batch_get_projects"},
           batch_get_projects |-> {"get_resource_policy"},
           list_report_groups |-> {"get_resource_policy"}],
          [batch_get_projects |-> "TypeError"])

ConfigRulePolicy ==
  PerResource(Config, "describe_organization_config_rules",
              "get_organization_custom_rule_policy", Harmless)
EC2ContainerRegistryRepositoryPolicy ==
  PerResource(EC2ContainerRegistry, "describe_repositories",
              "get_repository_policy", Harmless)
ElasticFileSystemPolicy ==
  PerResource(ElasticFileSystem, "describe_file_systems",
              "describe_file_system_policy", Harmless)
EventBusPolicy == InListing(Events, "list_event_buses")
EventBridgeSchemasPolicy ==
  PerResource(EventBridgeSchemas, "list_registries", "get_resource_policy", Harmless)
GlacierVaultPolicy ==
  PerResource(Glacier, "list_vaults", "get_vault_access_policy", Harmless)
GlueResourcePolicy == InListing(Glue, "get_resource_policies")

\* A role comes with its assume role policy and is asked for inline policies.
\* scan() has no loop over regions.  boto3 returns the documents parsed.
IAMPolicy ==
  [Scanner(IAM, {"list_policies", "list_roles"},
           [list_policies |-> {"get_policy_version"},
            list_roles |-> {"none_needed", "list_role_inline_policies"},
            list_role_inline_policies |-> {"get_role_policy"}], Harmless)
   EXCEPT !.regional = FALSE, !.texts = FALSE]

IoTPolicy == PerResource(IoT, "list_policies", "get_policy", Harmless)
KeyManagementServicePolicy ==
  PerResource(KeyManagementService, "list_keys", "get_key_policy", Harmless)

\* FunctionVersion='ALL' lists versions, whose ARN has a part more than
\* get_policy_details_from_arn accepts.
LambdaFunctionPolicy ==
  [PerResource(LambdaFunctions, "list_functions", "get_policy", Harmless)
   EXCEPT !.versions = TRUE]

Lexv2ModelsPolicy ==
  Scanner(Lexv2Models, {"list_bots"},
          [list_bots |-> {"describe_resource_policy", "list_bot_aliases"},
           list_bot_aliases |-> {"describe_resource_policy"}], Harmless)
MediaStorePolicy ==
  PerResource(MediaStore, "list_containers", "get_container_policy", Harmless)

\* Domains are described in batches of five; the answer is iterated over.
OpenSearchDomainPolicy ==
  PerResource(OpenSearch, "list_domain_names", "describe_domains",
              [describe_domains |-> "AttributeError"])
RAMPolicy == PerResource(RAM, "list_resources", "get_resource_policy", Harmless)
RedshiftServerlessPolicy ==
  PerResource(RedshiftServerless, "list_snapshots", "get_resource_policy", Harmless)
S3BucketPolicy ==
  [Scanner(S3, {"list_buckets"},
           [list_buckets |-> {"get_bucket_location"},
            get_bucket_location |-> {"get_bucket_policy"}], Harmless)
   EXCEPT !.regional = FALSE]
SecretsManagerPolicy ==
  PerResource(SecretsManager, "list_secrets", "get_resource_policy", Harmless)

\* The answer is wrapped into a policy whose statements are iterated over.
ServerlessApplicationPolicy ==
  [PerResource(ServerlessApplicationRepository, "list_applications",
               "get_application_policy", [get_application_policy |-> "AttributeError"])
   EXCEPT !.texts = FALSE]

\* .get('Policies').items()
SESIdentityPolicy ==
  PerResource(SimpleEmailServiceV2, "list_email_identities",
              "get_email_identity_policies",
              [get_email_identity_policies |-> "AttributeError"])

\* .get('Attributes').get(...), here and for SQS
SNSTopicPolicy ==
  PerResource(SNS, "list_topics", "get_topic_attributes",
              [get_topic_attributes |-> "AttributeError"])
SQSQueuePolicy ==
  PerResource(SQS, "list_queues", "get_queue_attributes",
              [get_queue_attributes |-> "AttributeError"])
SSMContactsPolicy ==
  PerResource(SSMContacts, "list_contacts", "get_contact_policy", Harmless)

\* The answer is iterated over and indexed by 'policyId'.
SSMIncidentsResponsePlanPolicy ==
  PerResource(SSMIncidents, "list_response_plans", "get_resource_policies",
              [get_resource_policies |-> "TypeError"])
VPCEndpointsPolicy == InListing(EC2, "describe_vpc_endpoints")

\* Called by the Lambda function that starts the scan of all accounts.
ServiceControlPolicy ==
  [PerResource(Organizations, "list_policies", "describe_policy", Harmless)
   EXCEPT !.regional = FALSE, !.caller = "start"]

\* The methods scan_<service name>_policy.
ScanPolicyStrategy ==
  [acm_pca |-> ACMPCAPolicy, apigateway |-> APIGatewayPolicy,
   backup |-> BackupVaultAccessPolicy, cloudformation |-> CloudFormationStackPolicy,
   codeartifact |-> CodeArtifactPolicy, codebuild |-> CodeBuildResourcePolicy,
   config |-> ConfigRulePolicy, ec2 |-> VPCEndpointsPolicy,
   ecr |-> EC2ContainerRegistryRepositoryPolicy,
   elasticfilesystem |-> ElasticFileSystemPolicy, events |-> EventBusPolicy,
   eventbridge_schemas |-> EventBridgeSchemasPolicy, glacier |-> GlacierVaultPolicy,
   glue |-> GlueResourcePolicy, iam |-> IAMPolicy, iot |-> IoTPolicy,
   kms |-> KeyManagementServicePolicy, lambda |-> LambdaFunctionPolicy,
   lexv2 |-> Lexv2ModelsPolicy, mediastore |-> MediaStorePolicy,
   opensearchservice |-> OpenSearchDomainPolicy, organizations |-> ServiceControlPolicy,
   ram |-> RAMPolicy, redshift_serverless |-> RedshiftServerlessPolicy,
   s3 |-> S3BucketPolicy, secretsmanager |-> SecretsManagerPolicy,
   serverlessrepo |-> ServerlessApplicationPolicy, ses |-> SESIdentityPolicy,
   sns |-> SNSTopicPolicy, sqs |-> SQSQueuePolicy, ssm_contacts |-> SSMContactsPolicy,
   ssm_incidents |-> SSMIncidentsResponsePlanPolicy]

CONSTANTS
  Services, \* the service names to scan: a subset of DOMAIN ScanPolicyStrategy
  Regions,  \* event['Regions']
  Things,   \* the resources of a service in a region
  None      \* no region, no resource

ASSUME ServiceScansAssumption ==
  /\ Services \subseteq DOMAIN ScanPolicyStrategy
  /\ None \notin Regions \cup Things \cup {"GLOBAL"}

VARIABLES
  service,  \* the scanner at work
  left,     \* regions not visited yet
  region,   \* the region being scanned, or None
  pending,  \* calls still to be made in it
  here,     \* policies found in it
  items,    \* policies found in the regions before
  recorded, \* regions recorded as failed task
  outcome,  \* how scan() ended, or "running"
  due,      \* history: the policies AWS holds, as far as the calls showed
  trouble   \* history: what went wrong, and in which call

vars == <<service, left, region, pending, here, items, recorded, outcome, due, trouble>>

scan == ScanPolicyStrategy[service]

Called(c) ==
  IF c.op = "assume_role_by_name" THEN assume_role_by_name ELSE scan.client[c.op]

Call(op, of) == [op |-> op, of |-> of, page |-> 1]

Init ==
  /\ service \in Services
  /\ left = IF scan.regional THEN Regions ELSE {"GLOBAL"}
  /\ region = None
  /\ pending = {}
  /\ here = {}
  /\ items = {}
  /\ recorded = {}
  /\ outcome = "running"
  /\ due = {}
  /\ trouble = {}

\* scan_single_region: the wrapper is constructed, which assumes the role.
StartRegion(r) ==
  /\ outcome = "running"
  /\ region = None
  /\ r \in left
  /\ region' = r
  /\ left' = left \ {r}
  /\ pending' = {Call("assume_role_by_name", None)}
  /\ UNCHANGED <<service, here, items, recorded, outcome, due, trouble>>

Connect(c) ==
  /\ c \in pending
  /\ c.op = "assume_role_by_name"
  /\ pending' = {Call(op, None) : op \in scan.first}
  /\ UNCHANGED <<service, left, region, here, items, recorded, outcome, due, trouble>>

\* Mutant: the router without its clause for AttributeError.
HandledClientErrors == [router |-> {"ClientError"}, start |-> {"ClientError"}]

\* Which exceptions of scan() become a task failure: the except clauses of the
\* router's lambda_handler and of PolicyExplorerStrategy.scan.
Handled == [router |-> {"ClientError", "AttributeError"}, start |-> {"ClientError"}]

\* Mutant: a failure record for every error of an expected kind, with or
\* without a loop over regions.
RaiseAnywhere(c, exception, reason) ==
  /\ trouble' = trouble \cup {<<c.op, reason>>}
  /\ region' = None
  /\ pending' = {}
  /\ here' = {}
  /\ recorded' = recorded \cup {region}
  /\ IF exception = "RegionError" THEN UNCHANGED <<items, outcome>>
       ELSE /\ outcome' = IF exception \in Handled[scan.caller]
                            THEN "recorded" ELSE "crashed"
            /\ items' = {}
  /\ UNCHANGED <<service, left>>

\* Mutant: what the failed region yielded stays in the list.
RaiseKeepsPolicies(c, exception, reason) ==
  /\ trouble' = trouble \cup {<<c.op, reason>>}
  /\ region' = None
  /\ pending' = {}
  /\ UNCHANGED here
  /\ IF exception = "RegionError" /\ scan.regional
       THEN recorded' = recorded \cup {region} /\ UNCHANGED <<items, outcome>>
       ELSE /\ outcome' = IF exception \in Handled[scan.caller]
                            THEN "recorded" ELSE "crashed"
            /\ items' = {}
            /\ UNCHANGED recorded
  /\ UNCHANGED <<service, left>>

\* (A) scan_regions records the region, keeps nothing of it and goes on.  It does
\* not know other exceptions: (B) they end scan() and with it all items found.
\* The caller records a failed task, or is ended in turn.
Raise(c, exception, reason) ==
  /\ trouble' = trouble \cup {<<c.op, reason>>}
  /\ region' = None
  /\ pending' = {}
  /\ here' = {}
  /\ IF exception = "RegionError" /\ scan.regional
       THEN /\ recorded' = recorded \cup {region}
            /\ UNCHANGED <<items, outcome>>
       ELSE /\ outcome' = IF exception \in Handled[scan.caller]
                            THEN "recorded" ELSE "crashed"
            /\ items' = {}
            /\ UNCHANGED recorded
  /\ UNCHANGED <<service, left>>

\* A page of results, and whether there is more.
Results(c) ==
  IF c.of = None THEN SUBSET Things
  ELSE IF Called(c).pages = "none" THEN {{c.of}} ELSE SUBSET {c.of}

\* The policies that AWS holds beyond the one page, or the one policy, of a call.
Beyond(c) == <<region, c.op, None>>

List(c, results, more) ==
  LET pages == Called(c).pages IN
  /\ c \in pending
  /\ c.op \in DOMAIN scan.next
  /\ more => pages # "none"
  /\ IF c.page = 2 /\ pages \in {"AttributeError", "TypeError"}
       THEN Raise(c, pages, "page") /\ UNCHANGED due
       ELSE /\ pending' = (pending \ {c})
                 \cup {Call(op, t) : op \in scan.next[c.op], t \in results}
                 \cup (IF more /\ pages # "first" THEN {[c EXCEPT !.page = 2]} ELSE {})
            /\ due' = due \cup (IF more /\ pages = "first" THEN {Beyond(c)} ELSE {})
            /\ UNCHANGED <<service, left, region, here, items, recorded, outcome, trouble>>

Reading(c) ==
  /\ c \in pending
  /\ c.op # "assume_role_by_name"
  /\ c.op \notin DOMAIN scan.next

\* A policy is read and its statements become items.  Further policies of the
\* resource stay unread if the wrapper looks at the first ones only.
ReadPolicy(c, more) ==
  /\ Reading(c)
  /\ more => c.op # "none_needed" /\ Called(c).pages = "first"
  /\ pending' = pending \ {c}
  /\ here' = here \cup {<<c.op, c.of>>}
  /\ due' = due \cup {<<region, c.op, c.of>>} \cup (IF more THEN {Beyond(c)} ELSE {})
  /\ UNCHANGED <<service, left, region, items, recorded, outcome, trouble>>

\* The resource has no policy, or its policy has no statement.
ReadNothing(c) ==
  /\ Reading(c)
  /\ pending' = pending \ {c}
  /\ UNCHANGED <<service, left, region, here, items, recorded, outcome, due, trouble>>

\* create_items goes through Statement as through a list: if it is a single
\* object, the first key of it is taken for a statement.
ReadSingleStatement(c) ==
  /\ Reading(c)
  /\ due' = due \cup {<<region, c.op, c.of>>}
  /\ Raise(c, "AttributeError", "statement")

\* json.loads in create_items: the policy is a string that is not JSON, such as
\* the Guard text of a Config rule.
ReadNoJson(c) ==
  /\ Reading(c)
  /\ scan.texts
  /\ due' = due \cup {<<region, c.op, c.of>>}
  /\ Raise(c, "JSONDecodeError", "json")

\* get_policy_details_from_arn returns None for an ARN of eight parts, before
\* the policy is read.  Which of the listed functions carry their version in
\* the ARN is up to AWS.
TripOverArn(c) ==
  /\ Reading(c)
  /\ scan.versions
  /\ Raise(c, "AttributeError", "arn")
  /\ UNCHANGED due

\* The call fails.  A value that the wrapper answers instead has no policy in
\* it, or the code trips over it.
Fail(c, e) ==
  /\ c \in pending
  /\ c.op # "none_needed"
  /\ LET seen == Called(c).on[e] IN
       IF seen # "answer" THEN Raise(c, seen, e) /\ UNCHANGED due
       ELSE IF c.op \in DOMAIN scan.trips
         THEN Raise(c, scan.trips[c.op], e) /\ UNCHANGED due
       ELSE /\ pending' = pending \ {c}
            /\ due' = IF e = "missing" THEN due ELSE due \cup {<<region, c.op, c.of>>}
            /\ trouble' = trouble \cup {<<c.op, e>>}
            /\ UNCHANGED <<service, left, region, here, items, recorded, outcome>>

\* scan_single_region returns; its items join those of the regions before.
EndRegion ==
  /\ region # None
  /\ pending = {}
  /\ items' = items \cup {<<region, p[1], p[2]>> : p \in here}
  /\ region' = None
  /\ here' = {}
  /\ UNCHANGED <<service, left, pending, recorded, outcome, due, trouble>>

\* Mutant: the return statement is inside the loop over the regions.
ReturnInLoop ==
  /\ outcome = "running"
  /\ region = None
  /\ outcome' = "returned"
  /\ UNCHANGED <<service, left, region, pending, here, items, recorded, due, trouble>>

Return ==
  /\ outcome = "running"
  /\ region = None
  /\ left = {}
  /\ outcome' = "returned"
  /\ UNCHANGED <<service, left, region, pending, here, items, recorded, due, trouble>>

Answered(c) ==
  \/ Connect(c)
  \/ /\ c.op \in DOMAIN scan.next
     /\ \E results \in Results(c), more \in BOOLEAN : List(c, results, more)
  \/ \E more \in BOOLEAN : ReadPolicy(c, more)
  \/ ReadNothing(c)
  \/ ReadSingleStatement(c)
  \/ ReadNoJson(c)
  \/ TripOverArn(c)

Next ==
  \/ \E r \in left : StartRegion(r)
  \/ \E c \in pending : Answered(c)
  \/ \E c \in pending, e \in Errors : Fail(c, e)
  \/ EndRegion
  \/ Return

Spec == Init /\ [][Next]_vars

-----------------------------------------------------------------------------

\* What a policy comes from: a method of the wrapper of the service, or a listing.
Sources == DOMAIN scan.client \cup {"none_needed"}

\* Types.  Among them: regions, and not the nameless place of a service without
\* regions, are recorded by scan_regions.
TypeOK ==
  /\ service \in Services
  /\ left \subseteq Regions \cup {"GLOBAL"}
  /\ region \in Regions \cup {"GLOBAL", None}
  /\ \A c \in pending : c.of \in Things \cup {None} /\ c.page \in {1, 2}
  /\ here \subseteq Sources \X Things
  /\ recorded \subseteq Regions
  /\ outcome \in {"running", "returned", "recorded", "crashed"}

\* The calls that leave out what comes after a first page or policy: the inline
\* policies of a role, the policies of a shared resource or of a response plan,
\* and the queues (AwsClients).
SilentGaps ==
  {<<"iam", "list_role_inline_policies">>, <<"ram", "get_resource_policy">>,
   <<"sqs", "list_queues">>, <<"ssm_incidents", "get_resource_policies">>}

\* Only the SilentGaps lose policies in silence when a scan returns: everything
\* else AWS holds is among the items or in a region recorded as failed, however
\* the pages, the errors and the regions before and after fell (scan_regions, and
\* the loops of the wrappers).
LossesAreKnown ==
  outcome = "returned" =>
    \A d \in due : d \in items \/ d[1] \in recorded \/ <<service, d[2]>> \in SilentGaps

RegionTrouble == {"refused", "unreachable"}

\* The calls of a scanner over regions that list its resources.
Listings == IF scan.regional THEN scan.first \cup {"list_bot_aliases"} ELSE {}

\* A region that is disabled, refuses a listing or cannot be connected to costs
\* its own policies only: a scan over regions that ends early has met something
\* else, be it a connection that broke after it was made (the except clause of
\* scan_regions, service_exception_handler).
RegionErrorsStayLocal ==
  outcome \in {"recorded", "crashed"} /\ scan.regional =>
    \E t \in trouble : ~(t[1] \in Listings /\ t[2] \in RegionTrouble)

\* A second page of snapshots, a value in place of projects or of response
\* plans, and for service control policies a statement that is not in a list.
FatalTrouble ==
  {<<"list_snapshots", "page">>, <<"batch_get_projects", "missing">>,
   <<"get_resource_policies", "missing">>, <<"describe_policy", "statement">>}

\* An invocation goes down, and with it the whole state machine execution (or
\* the start request), only for FatalTrouble, a policy that is not JSON, a
\* connection that breaks, or one that cannot be made outside a listing of a
\* region: every other failure of any scanner ends as a failure record (the
\* except clauses of the router and of the start handler).
CrashNeedsReason ==
  outcome = "crashed" =>
    \E t \in trouble :
      \/ t \in FatalTrouble
      \/ t[2] \in {"json", "interrupted"}
      \/ t[2] = "unreachable" /\ t[1] \notin Listings

(***************************************************************************)
(* Why these hold, and what the proofs use as inductive invariant: calls   *)
(* are only made in a region at work and are calls of the scanner, and     *)
(* only a listing is made for the region itself; and as long as nothing    *)
(* has ended the scan, each policy is among the items, in a region         *)
(* recorded as failed, among what the region at work has yielded, or lost  *)
(* in one of the SilentGaps.                                               *)
(***************************************************************************)
CallOf(scanner, op) ==
  op \in scanner.first \/ \E o \in DOMAIN scanner.next : op \in scanner.next[o]

RegionAtWork ==
  /\ pending # {} => region # None
  /\ outcome # "running" => region = None
  /\ region = None => here = {}
  /\ region \notin left
  /\ scan.regional => left \subseteq Regions /\ region \in Regions \cup {None}

CallsOfScanner ==
  \A c \in pending :
    /\ c \in [op : Sources \cup {"assume_role_by_name"}, of : Things \cup {None},
              page : {1, 2}]
    /\ \/ c.op = "assume_role_by_name"
       \/ CallOf(scan, c.op) /\ (c.of = None => c.op \in scan.first)

PoliciesAccounted ==
  outcome \in {"running", "returned"} =>
    \A d \in due :
      \/ d \in items
      \/ d[1] \in recorded
      \/ <<service, d[2]>> \in SilentGaps
      \/ d[1] = region /\ <<d[2], d[3]>> \in here

\* A region with items is settled, and not as a failed one.
VisitedOnce ==
  /\ recorded \cap (left \cup {region}) = {}
  /\ \A i \in items :
       i[1] \in (Regions \cup {"GLOBAL"}) \ (left \cup recorded \cup {region})

\* What one region yields is never taken for the next one's, and no policy leaves
\* the account of the scan between two regions (the local variables of
\* scan_single_region, the list that scan_regions extends).
WalkInv ==
  /\ RegionAtWork
  /\ CallsOfScanner
  /\ due \subseteq (Regions \cup {"GLOBAL"}) \X Sources \X (Things \cup {None})
  /\ PoliciesAccounted
  /\ VisitedOnce
  /\ RegionErrorsStayLocal
  /\ CrashNeedsReason

-----------------------------------------------------------------------------

Task == INSTANCE TaskScan WITH
  Scopes <- {Regions, {"GLOBAL"}},
  left   <- left \cup ({region} \ {None}),
  found  <- {i[1] : i \in items},
  failed <- recorded

\* What PolicyScan takes for one step is one step to the caller of scan(): a
\* region is kept as a whole or recorded as a whole, none is visited twice or
\* left out, and a scan that is given up yields nothing, whatever the order of
\* calls, pages and errors inside the regions (scan_regions and scan_single_region).
ImplementsTaskScan == Task!Spec
=============================================================================
