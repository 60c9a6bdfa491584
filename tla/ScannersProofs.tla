--------------------------- MODULE ScannersProofs ---------------------------
(***************************************************************************)
(* What the 32 scanners of ServiceScans and the wrappers they call have in *)
(* common: which calls they make, and what an error, a second page or an   *)
(* answer in place of a policy can lead to.  The theorems about the steps  *)
(* (ServiceScansProofs) use only ScannersSound, at the end.                *)
(***************************************************************************)
EXTENDS ServiceScans, TLAPS

Exceptions == {"RegionError", "ClientError", "BotoCoreError", "AttributeError"}

\* A call of the scanner sc of service s, in so far as errors end it.
SoundErrors(sc, op) ==
  \A e \in Errors :
    /\ sc.client[op].on[e] \in Exceptions \cup {"answer"}
    /\ sc.client[op].on[e] = "answer" => e = "missing"
    /\ sc.client[op].on[e] = "BotoCoreError" => e \in {"unreachable", "interrupted"}
    /\ sc.client[op].on[e] = "AttributeError" => sc.caller = "router"
    /\ sc.client[op].on[e] = "RegionError" => sc.regional
    /\ sc.regional /\ op \in sc.first \cup {"list_bot_aliases"} /\ e \in RegionTrouble
         => sc.client[op].on[e] = "RegionError"

SoundPages(s, sc, op) ==
  /\ sc.client[op].pages \in {"all", "first", "none", "AttributeError", "TypeError"}
  /\ sc.client[op].pages = "first" => <<s, op>> \in SilentGaps
  /\ sc.client[op].pages = "AttributeError" => sc.caller = "router"
  /\ sc.client[op].pages = "TypeError" => op = "list_snapshots"

SoundTrips(sc, op) ==
  op \in DOMAIN sc.trips =>
    /\ sc.trips[op] \in {"AttributeError", "TypeError"}
    /\ sc.trips[op] = "AttributeError" => sc.caller = "router"
    /\ sc.trips[op] = "TypeError" => op \in {"batch_get_projects", "get_resource_policies"}

SoundCall(s, sc, op) ==
  /\ op \in DOMAIN sc.client \cup {"none_needed"}
  /\ op # "assume_role_by_name"
  /\ op # "none_needed" =>
       SoundErrors(sc, op) /\ SoundPages(s, sc, op) /\ SoundTrips(sc, op)
  /\ op \notin DOMAIN sc.next /\ sc.caller = "start" => op = "describe_policy"

\* What the steps of ServiceScans need to know of a scanner.
Sound(s, sc) ==
  /\ sc.regional \in BOOLEAN
  /\ sc.caller \in {"router", "start"}
  /\ sc.versions => sc.caller = "router"
  /\ sc.first \subseteq DOMAIN sc.next
  /\ "none_needed" \notin DOMAIN sc.next
  /\ "assume_role_by_name" \notin DOMAIN sc.next
  /\ \A op : CallOf(sc, op) => SoundCall(s, sc, op)

\* The two handlers of AwsClients under which most calls are made.
LEMMA Handlers ==
  /\ \A e \in Errors :
       e \in {"refused", "missing", "rejected", "unreachable", "interrupted"}
  /\ Listing.pages = "all" /\ OneList.pages = "none" /\ Lookup.pages = "none"
  /\ Listing.on.refused = "RegionError" /\ Listing.on.missing = "ClientError"
  /\ Listing.on.rejected = "ClientError" /\ Listing.on.unreachable = "RegionError"
  /\ Listing.on.interrupted = "BotoCoreError"
  /\ OneList.on = Listing.on
  /\ Lookup.on.refused = "ClientError" /\ Lookup.on.missing = "answer"
  /\ Lookup.on.rejected = "ClientError" /\ Lookup.on.unreachable = "BotoCoreError"
  /\ Lookup.on.interrupted = "BotoCoreError"
  /\ RawList.on = RawRead.on /\ RawList.pages = "all" /\ RawRead.pages = "none"
  /\ RawRead.on.refused = "ClientError" /\ RawRead.on.missing = "ClientError"
  /\ RawRead.on.rejected = "ClientError" /\ RawRead.on.unreachable = "BotoCoreError"
  /\ RawRead.on.interrupted = "BotoCoreError"
BY DEF Errors, Listing, OneList, Lookup, RawList, RawRead, Reraise,
   service_exception_handler, resource_not_found_exception_handler

\* What a wrapper leaves out is one of the SilentGaps.
PagesKnown(s, client, op) ==
  \/ client[op].pages \in {"all", "none"}
  \/ client[op].pages = "first" /\ <<s, op>> \in SilentGaps

LEMMA FollowedPages ==
  ASSUME NEW s, NEW client, NEW op, client[op] \in {Listing, OneList, Lookup}
  PROVE  PagesKnown(s, client, op)
BY Handlers DEF PagesKnown

\* A listing over the regions of an account.
LEMMA ListingSound ==
  ASSUME NEW s, NEW sc, NEW op \in DOMAIN sc.client,
         op # "assume_role_by_name", op \notin DOMAIN sc.trips,
         sc.regional, sc.caller = "router",
         sc.client[op].on = Listing.on, PagesKnown(s, sc.client, op)
  PROVE  SoundCall(s, sc, op)
<1>1. SoundErrors(sc, op)
  BY Handlers DEF SoundErrors, Exceptions, RegionTrouble
<1>2. SoundPages(s, sc, op)
  BY DEF SoundPages, PagesKnown
<1> QED BY <1>1, <1>2 DEF SoundCall, SoundTrips

\* The lookup of a policy, or of what a policy belongs to.
LEMMA LookupSound ==
  ASSUME NEW s, NEW sc, NEW op \in DOMAIN sc.client,
         op # "assume_role_by_name", op # "list_bot_aliases",
         op \notin sc.first, sc.caller = "router",
         sc.client[op].on = Lookup.on, PagesKnown(s, sc.client, op),
         SoundTrips(sc, op)
  PROVE  SoundCall(s, sc, op)
<1>1. SoundErrors(sc, op)
  BY Handlers DEF SoundErrors, Exceptions, RegionTrouble
<1>2. SoundPages(s, sc, op)
  BY DEF SoundPages, PagesKnown
<1> QED BY <1>1, <1>2 DEF SoundCall

\* The calls of a scanner that lists resources and reads the policy of each,
\* and the exceptions that an answer in place of a policy leads to.
TwoCalls(s, client, list, read) ==
  /\ list \in DOMAIN client /\ read \in DOMAIN client /\ list # read
  /\ list \notin {"assume_role_by_name", "none_needed"}
  /\ read \notin {"assume_role_by_name", "none_needed", "list_bot_aliases"}
  /\ client[list].on = Listing.on /\ PagesKnown(s, client, list)
  /\ client[read].on = Lookup.on /\ PagesKnown(s, client, read)

TripsOver(read, trips) ==
  \A op \in DOMAIN trips :
    /\ op = read
    /\ \/ trips[op] = "AttributeError"
       \/ trips[op] = "TypeError" /\ op = "get_resource_policies"

LEMMA PerResourceSound ==
  ASSUME NEW s, NEW client, NEW list, NEW read, NEW trips,
         TwoCalls(s, client, list, read), TripsOver(read, trips)
  PROVE  /\ Sound(s, PerResource(client, list, read, trips))
         /\ Sound(s, [PerResource(client, list, read, trips) EXCEPT !.texts = FALSE])
<1> USE DEF TwoCalls, TripsOver
<1>1. ASSUME NEW sc,
             sc.client = client, sc.first = {list}, sc.trips = trips,
             sc.regional, sc.regional \in BOOLEAN, sc.caller = "router", ~sc.versions,
             DOMAIN sc.next = {list}, sc.next[list] = {read}
      PROVE  Sound(s, sc)
  <2>1. SoundCall(s, sc, list)
    BY <1>1, ListingSound
  <2>2. SoundCall(s, sc, read)
    BY <1>1, LookupSound DEF SoundTrips
  <2>3. ASSUME NEW op, CallOf(sc, op) PROVE op \in {list, read}
    BY <1>1, <2>3 DEF CallOf
  <2> QED BY <1>1, <2>1, <2>2, <2>3 DEF Sound
<1>2. Sound(s, PerResource(client, list, read, trips))
  <2> DEFINE sc == PerResource(client, list, read, trips)
  <2>1. /\ sc.client = client /\ sc.first = {list} /\ sc.trips = trips
        /\ sc.regional = TRUE /\ sc.caller = "router" /\ sc.versions = FALSE
        /\ DOMAIN sc.next = {list} /\ sc.next[list] = {read}
    BY DEF PerResource, Scanner
  <2> HIDE DEF sc
  <2>2. Sound(s, sc)
    BY <1>1, <2>1
  <2> QED BY <2>2 DEF sc
<1>3. Sound(s, [PerResource(client, list, read, trips) EXCEPT !.texts = FALSE])
  <2> DEFINE sc == [PerResource(client, list, read, trips) EXCEPT !.texts = FALSE]
  <2>1. /\ sc.client = client /\ sc.first = {list} /\ sc.trips = trips
        /\ sc.regional = TRUE /\ sc.caller = "router" /\ sc.versions = FALSE
        /\ DOMAIN sc.next = {list} /\ sc.next[list] = {read}
    BY DEF PerResource, Scanner
  <2> HIDE DEF sc
  <2>2. Sound(s, sc)
    BY <1>1, <2>1
  <2> QED BY <2>2 DEF sc
<1> QED BY <1>2, <1>3

\* A scanner whose listings come with the policies.
LEMMA InListingSound ==
  ASSUME NEW s, NEW client, NEW list \in DOMAIN client, client[list] = Listing,
         list \notin {"assume_role_by_name", "none_needed"}
  PROVE  Sound(s, InListing(client, list))
<1> DEFINE sc == InListing(client, list)
<1>1. /\ sc.client = client /\ sc.first = {list} /\ DOMAIN sc.trips = {}
      /\ sc.regional /\ sc.caller = "router" /\ ~sc.versions
      /\ DOMAIN sc.next = {list} /\ sc.next[list] = {"none_needed"}
  BY DEF InListing, Scanner, Harmless
<1> HIDE DEF sc
<1>2. SoundCall(s, sc, list)
  BY <1>1, FollowedPages, ListingSound
<1>3. SoundCall(s, sc, "none_needed")
  <2>1. sc.caller # "start"
    BY <1>1
  <2> QED BY <2>1 DEF SoundCall
<1>4. ASSUME NEW op, CallOf(sc, op) PROVE op \in {list, "none_needed"}
  BY <1>1, <1>4 DEF CallOf
<1>5. Sound(s, sc)
  BY <1>1, <1>2, <1>3, <1>4 DEF Sound
<1> QED BY <1>5 DEF sc

\* The scanners of that form whose code trips over no answer.
LEMMA PlainScannersSound ==
  /\ Sound("acm_pca", ACMPCAPolicy)
  /\ Sound("backup", BackupVaultAccessPolicy)
  /\ Sound("cloudformation", CloudFormationStackPolicy)
  /\ Sound("config", ConfigRulePolicy)
  /\ Sound("ecr", EC2ContainerRegistryRepositoryPolicy)
  /\ Sound("elasticfilesystem", ElasticFileSystemPolicy)
  /\ Sound("eventbridge_schemas", EventBridgeSchemasPolicy)
  /\ Sound("glacier", GlacierVaultPolicy)
  /\ Sound("iot", IoTPolicy)
  /\ Sound("kms", KeyManagementServicePolicy)
  /\ Sound("mediastore", MediaStorePolicy)
  /\ Sound("ram", RAMPolicy)
  /\ Sound("secretsmanager", SecretsManagerPolicy)
  /\ Sound("ssm_contacts", SSMContactsPolicy)
<1> \A read : TripsOver(read, Harmless)
  BY DEF TripsOver, Harmless
<1>1. Sound("acm_pca", ACMPCAPolicy)
  <2>1. TwoCalls("acm_pca", ACMPCA, "list_certificate_authorities",
                "get_policy")
    BY FollowedPages, Handlers DEF TwoCalls, ACMPCA
  <2> QED BY <2>1, PerResourceSound DEF ACMPCAPolicy
<1>2. Sound("backup", BackupVaultAccessPolicy)
  <2>1. TwoCalls("backup", Backup, "list_backup_vaults",
                "get_backup_vault_access_policy")
    BY FollowedPages, Handlers DEF TwoCalls, Backup
  <2> QED BY <2>1, PerResourceSound DEF BackupVaultAccessPolicy
<1>3. Sound("cloudformation", CloudFormationStackPolicy)
  <2>1. TwoCalls("cloudformation", CloudFormation, "list_stacks",
                "get_stack_policy")
    BY FollowedPages, Handlers DEF TwoCalls, CloudFormation
  <2> QED BY <2>1, PerResourceSound DEF CloudFormationStackPolicy
<1>4. Sound("config", ConfigRulePolicy)
  <2>1. TwoCalls("config", Config, "describe_organization_config_rules",
                "get_organization_custom_rule_policy")
    BY FollowedPages, Handlers DEF TwoCalls, Config
  <2> QED BY <2>1, PerResourceSound DEF ConfigRulePolicy
<1>5. Sound("ecr", EC2ContainerRegistryRepositoryPolicy)
  <2>1. TwoCalls("ecr", EC2ContainerRegistry, "describe_repositories",
                "get_repository_policy")
    BY FollowedPages, Handlers DEF TwoCalls, EC2ContainerRegistry
  <2> QED BY <2>1, PerResourceSound DEF EC2ContainerRegistryRepositoryPolicy
<1>6. Sound("elasticfilesystem", ElasticFileSystemPolicy)
  <2>1. TwoCalls("elasticfilesystem", ElasticFileSystem, "describe_file_systems",
                "describe_file_system_policy")
    BY FollowedPages, Handlers DEF TwoCalls, ElasticFileSystem
  <2> QED BY <2>1, PerResourceSound DEF ElasticFileSystemPolicy
<1>7. Sound("eventbridge_schemas", EventBridgeSchemasPolicy)
  <2>1. TwoCalls("eventbridge_schemas", EventBridgeSchemas, "list_registries",
                "get_resource_policy")
    BY FollowedPages, Handlers DEF TwoCalls, EventBridgeSchemas
  <2> QED BY <2>1, PerResourceSound DEF EventBridgeSchemasPolicy
<1>8. Sound("glacier", GlacierVaultPolicy)
  <2>1. TwoCalls("glacier", Glacier, "list_vaults",
                "get_vault_access_policy")
    BY FollowedPages, Handlers DEF TwoCalls, Glacier
  <2> QED BY <2>1, PerResourceSound DEF GlacierVaultPolicy
<1>9. Sound("iot", IoTPolicy)
  <2>1. TwoCalls("iot", IoT, "list_policies",
                "get_policy")
    BY FollowedPages, Handlers DEF TwoCalls, IoT
  <2> QED BY <2>1, PerResourceSound DEF IoTPolicy
<1>10. Sound("kms", KeyManagementServicePolicy)
  <2>1. TwoCalls("kms", KeyManagementService, "list_keys",
                "get_key_policy")
    BY FollowedPages, Handlers DEF TwoCalls, KeyManagementService
  <2> QED BY <2>1, PerResourceSound DEF KeyManagementServicePolicy
<1>11. Sound("mediastore", MediaStorePolicy)
  <2>1. TwoCalls("mediastore", MediaStore, "list_containers",
                "get_container_policy")
    BY FollowedPages, Handlers DEF TwoCalls, MediaStore
  <2> QED BY <2>1, PerResourceSound DEF MediaStorePolicy
<1>12. Sound("ram", RAMPolicy)
  <2>1. TwoCalls("ram", RAM, "list_resources",
                "get_resource_policy")
    BY FollowedPages, Handlers DEF TwoCalls, RAM, Lookup, PagesKnown, SilentGaps
  <2> QED BY <2>1, PerResourceSound DEF RAMPolicy
<1>13. Sound("secretsmanager", SecretsManagerPolicy)
  <2>1. TwoCalls("secretsmanager", SecretsManager, "list_secrets",
                "get_resource_policy")
    BY FollowedPages, Handlers DEF TwoCalls, SecretsManager
  <2> QED BY <2>1, PerResourceSound DEF SecretsManagerPolicy
<1>14. Sound("ssm_contacts", SSMContactsPolicy)
  <2>1. TwoCalls("ssm_contacts", SSMContacts, "list_contacts",
                "get_contact_policy")
    BY FollowedPages, Handlers DEF TwoCalls, SSMContacts
  <2> QED BY <2>1, PerResourceSound DEF SSMContactsPolicy
<1> QED BY <1>1, <1>2, <1>3, <1>4, <1>5, <1>6, <1>7, <1>8, <1>9, <1>10,
     <1>11, <1>12, <1>13, <1>14

\* The scanners of that form that iterate over, or index, what may be an error.
LEMMA TrippingScannersSound ==
  /\ Sound("opensearchservice", OpenSearchDomainPolicy)
  /\ Sound("serverlessrepo", ServerlessApplicationPolicy)
  /\ Sound("ses", SESIdentityPolicy)
  /\ Sound("sns", SNSTopicPolicy)
  /\ Sound("sqs", SQSQueuePolicy)
  /\ Sound("ssm_incidents", SSMIncidentsResponsePlanPolicy)
<1>1. Sound("opensearchservice", OpenSearchDomainPolicy)
  <2>1. TwoCalls("opensearchservice", OpenSearch, "list_domain_names",
                "describe_domains")
    BY FollowedPages, Handlers DEF TwoCalls, OpenSearch
  <2>2. TripsOver("describe_domains",
                  [describe_domains |-> "AttributeError"])
    BY DEF TripsOver
  <2> QED BY <2>1, <2>2, PerResourceSound DEF OpenSearchDomainPolicy
<1>2. Sound("serverlessrepo", ServerlessApplicationPolicy)
  <2>1. TwoCalls("serverlessrepo", ServerlessApplicationRepository, "list_applications",
                "get_application_policy")
    BY FollowedPages, Handlers DEF TwoCalls, ServerlessApplicationRepository
  <2>2. TripsOver("get_application_policy",
                  [get_application_policy |-> "AttributeError"])
    BY DEF TripsOver
  <2> QED BY <2>1, <2>2, PerResourceSound DEF ServerlessApplicationPolicy
<1>3. Sound("ses", SESIdentityPolicy)
  <2>1. TwoCalls("ses", SimpleEmailServiceV2, "list_email_identities",
                "get_email_identity_policies")
    BY FollowedPages, Handlers DEF TwoCalls, SimpleEmailServiceV2
  <2>2. TripsOver("get_email_identity_policies",
                  [get_email_identity_policies |-> "AttributeError"])
    BY DEF TripsOver
  <2> QED BY <2>1, <2>2, PerResourceSound DEF SESIdentityPolicy
<1>4. Sound("sns", SNSTopicPolicy)
  <2>1. TwoCalls("sns", SNS, "list_topics",
                "get_topic_attributes")
    BY FollowedPages, Handlers DEF TwoCalls, SNS
  <2>2. TripsOver("get_topic_attributes",
                  [get_topic_attributes |-> "AttributeError"])
    BY DEF TripsOver
  <2> QED BY <2>1, <2>2, PerResourceSound DEF SNSTopicPolicy
<1>5. Sound("sqs", SQSQueuePolicy)
  <2>1. TwoCalls("sqs", SQS, "list_queues",
                "get_queue_attributes")
    BY FollowedPages, Handlers DEF TwoCalls, SQS, Listing, PagesKnown, SilentGaps
  <2>2. TripsOver("get_queue_attributes",
                  [get_queue_attributes |-> "AttributeError"])
    BY DEF TripsOver
  <2> QED BY <2>1, <2>2, PerResourceSound DEF SQSQueuePolicy
<1>6. Sound("ssm_incidents", SSMIncidentsResponsePlanPolicy)
  <2>1. TwoCalls("ssm_incidents", SSMIncidents, "list_response_plans",
                "get_resource_policies")
    BY FollowedPages, Handlers DEF TwoCalls, SSMIncidents, Lookup, PagesKnown, SilentGaps
  <2>2. TripsOver("get_resource_policies",
                  [get_resource_policies |-> "TypeError"])
    BY DEF TripsOver
  <2> QED BY <2>1, <2>2, PerResourceSound DEF SSMIncidentsResponsePlanPolicy
<1> QED BY <1>1, <1>2, <1>3, <1>4, <1>5, <1>6

\* The scanners that read no policy on its own.
LEMMA ListingScannersSound ==
  /\ Sound("apigateway", APIGatewayPolicy)
  /\ Sound("events", EventBusPolicy)
  /\ Sound("glue", GlueResourcePolicy)
  /\ Sound("ec2", VPCEndpointsPolicy)
<1>1. Sound("apigateway", APIGatewayPolicy)
  <2>1. "get_rest_apis" \in DOMAIN APIGateway /\ APIGateway["get_rest_apis"] = Listing
    BY DEF APIGateway
  <2> QED BY <2>1, InListingSound DEF APIGatewayPolicy
<1>2. Sound("events", EventBusPolicy)
  <2>1. "list_event_buses" \in DOMAIN Events /\ Events["list_event_buses"] = Listing
    BY DEF Events
  <2> QED BY <2>1, InListingSound DEF EventBusPolicy
<1>3. Sound("glue", GlueResourcePolicy)
  <2>1. "get_resource_policies" \in DOMAIN Glue /\ Glue["get_resource_policies"] = Listing
    BY DEF Glue
  <2> QED BY <2>1, InListingSound DEF GlueResourcePolicy
<1>4. Sound("ec2", VPCEndpointsPolicy)
  <2>1. "describe_vpc_endpoints" \in DOMAIN EC2 /\ EC2["describe_vpc_endpoints"] = Listing
    BY DEF EC2
  <2> QED BY <2>1, InListingSound DEF VPCEndpointsPolicy
<1> QED BY <1>1, <1>2, <1>3, <1>4

\* Domains and repositories are listed side by side.
LEMMA CodeArtifactSound == Sound("codeartifact", CodeArtifactPolicy)
<1> DEFINE sc == CodeArtifactPolicy
           lists == {"list_domains", "list_repositories"}
           reads == {"get_domain_permissions_policy", "get_repository_permissions_policy"}
<1>1. /\ sc.client = CodeArtifact /\ sc.first = lists /\ DOMAIN sc.trips = {}
      /\ sc.regional /\ sc.caller = "router" /\ ~sc.versions
      /\ DOMAIN sc.next = lists /\ \A op \in lists : sc.next[op] \subseteq reads
  BY DEF CodeArtifactPolicy, Scanner, Harmless
<1>2. /\ \A op \in lists : op \in DOMAIN CodeArtifact /\ CodeArtifact[op] = Listing
      /\ \A op \in reads : op \in DOMAIN CodeArtifact /\ CodeArtifact[op] = Lookup
  BY DEF CodeArtifact
<1> HIDE DEF sc
<1>3. ASSUME NEW op \in lists PROVE SoundCall("codeartifact", sc, op)
  BY <1>1, <1>2, FollowedPages, ListingSound
<1>4. ASSUME NEW op \in reads PROVE SoundCall("codeartifact", sc, op)
  BY <1>1, <1>2, FollowedPages, LookupSound DEF SoundTrips
<1>5. ASSUME NEW op, CallOf(sc, op) PROVE op \in lists \cup reads
  BY <1>1, <1>5 DEF CallOf
<1>6. Sound("codeartifact", sc)
  BY <1>1, <1>3, <1>4, <1>5 DEF Sound
<1> QED BY <1>6 DEF sc

\* Projects are looked up before their policies.
LEMMA CodeBuildSound == Sound("codebuild", CodeBuildResourcePolicy)
<1> DEFINE sc == CodeBuildResourcePolicy
           lists == {"list_projects", "list_report_groups"}
           reads == {"batch_get_projects", "get_resource_policy"}
<1>1. /\ sc.client = CodeBuild /\ sc.first = lists
      /\ DOMAIN sc.trips = {"batch_get_projects"}
      /\ sc.trips["batch_get_projects"] = "TypeError"
      /\ sc.regional /\ sc.caller = "router" /\ ~sc.versions
      /\ DOMAIN sc.next = lists \cup {"batch_get_projects"}
      /\ \A op \in DOMAIN sc.next : sc.next[op] \subseteq reads
  BY DEF CodeBuildResourcePolicy, Scanner
<1>2. /\ \A op \in lists : op \in DOMAIN CodeBuild /\ CodeBuild[op] = Listing
      /\ \A op \in reads : op \in DOMAIN CodeBuild /\ CodeBuild[op] = Lookup
  BY DEF CodeBuild
<1> HIDE DEF sc
<1>3. ASSUME NEW op \in lists PROVE SoundCall("codebuild", sc, op)
  BY <1>1, <1>2, FollowedPages, ListingSound
<1>4. ASSUME NEW op \in reads PROVE SoundCall("codebuild", sc, op)
  <2>1. SoundTrips(sc, op)
    BY <1>1 DEF SoundTrips
  <2> QED BY <1>1, <1>2, <2>1, FollowedPages, LookupSound
<1>5. ASSUME NEW op, CallOf(sc, op) PROVE op \in lists \cup reads
  BY <1>1, <1>5 DEF CallOf
<1>6. Sound("codebuild", sc)
  BY <1>1, <1>3, <1>4, <1>5 DEF Sound
<1> QED BY <1>6 DEF sc

\* The only scanner that meets an ARN with a part too many.
LEMMA LambdaSound == Sound("lambda", LambdaFunctionPolicy)
<1> DEFINE sc == LambdaFunctionPolicy
<1>1. /\ sc.client = LambdaFunctions /\ sc.first = {"list_functions"}
      /\ DOMAIN sc.trips = {}
      /\ sc.regional /\ sc.caller = "router"
      /\ DOMAIN sc.next = {"list_functions"} /\ sc.next["list_functions"] = {"get_policy"}
  BY DEF LambdaFunctionPolicy, PerResource, Scanner, Harmless
<1>2. /\ DOMAIN LambdaFunctions = {"list_functions", "get_policy"}
      /\ LambdaFunctions["list_functions"] = Listing
      /\ LambdaFunctions["get_policy"] = Lookup
  BY DEF LambdaFunctions
<1> HIDE DEF sc
<1>3. SoundCall("lambda", sc, "list_functions")
  BY <1>1, <1>2, FollowedPages, ListingSound
<1>4. SoundCall("lambda", sc, "get_policy")
  BY <1>1, <1>2, FollowedPages, LookupSound DEF SoundTrips
<1>5. ASSUME NEW op, CallOf(sc, op) PROVE op \in {"list_functions", "get_policy"}
  BY <1>1, <1>5 DEF CallOf
<1>6. Sound("lambda", sc)
  BY <1>1, <1>3, <1>4, <1>5 DEF Sound
<1> QED BY <1>6 DEF sc

\* The second page of bots is an AttributeError; aliases are listed per bot.
LEMMA LexSound == Sound("lexv2", Lexv2ModelsPolicy)
<1> DEFINE sc == Lexv2ModelsPolicy
           read == "describe_resource_policy"
<1>1. /\ sc.client = Lexv2Models /\ sc.first = {"list_bots"}
      /\ DOMAIN sc.trips = {}
      /\ sc.regional /\ sc.caller = "router" /\ ~sc.versions
      /\ DOMAIN sc.next = {"list_bots", "list_bot_aliases"}
      /\ \A op \in DOMAIN sc.next : sc.next[op] \subseteq {read, "list_bot_aliases"}
  BY DEF Lexv2ModelsPolicy, Scanner, Harmless
<1>2. /\ DOMAIN Lexv2Models = {"list_bots", "list_bot_aliases", read}
      /\ Lexv2Models["list_bots"].on = Listing.on
      /\ Lexv2Models["list_bots"].pages = "AttributeError"
      /\ Lexv2Models["list_bot_aliases"] = Listing
      /\ Lexv2Models[read] = Lookup
  BY DEF Lexv2Models, Listing
<1> HIDE DEF sc
<1>3. SoundCall("lexv2", sc, "list_bots")
  <2>1. SoundErrors(sc, "list_bots")
    BY <1>1, <1>2, Handlers DEF SoundErrors, Exceptions, RegionTrouble
  <2>2. SoundPages("lexv2", sc, "list_bots") /\ SoundTrips(sc, "list_bots")
    BY <1>1, <1>2 DEF SoundPages, SoundTrips
  <2> QED BY <1>1, <1>2, <2>1, <2>2 DEF SoundCall
<1>4. SoundCall("lexv2", sc, "list_bot_aliases")
  BY <1>1, <1>2, FollowedPages, ListingSound
<1>5. SoundCall("lexv2", sc, read)
  BY <1>1, <1>2, FollowedPages, LookupSound DEF SoundTrips
<1>6. ASSUME NEW op, CallOf(sc, op) PROVE op \in {"list_bots", "list_bot_aliases", read}
  BY <1>1, <1>6 DEF CallOf
<1>7. Sound("lexv2", sc)
  BY <1>1, <1>3, <1>4, <1>5, <1>6 DEF Sound
<1> QED BY <1>7 DEF sc

\* The second page of snapshots is a TypeError.
LEMMA RedshiftSound == Sound("redshift_serverless", RedshiftServerlessPolicy)
<1> DEFINE sc == RedshiftServerlessPolicy
           read == "get_resource_policy"
<1>1. /\ sc.client = RedshiftServerless /\ sc.first = {"list_snapshots"}
      /\ DOMAIN sc.trips = {}
      /\ sc.regional /\ sc.caller = "router" /\ ~sc.versions
      /\ DOMAIN sc.next = {"list_snapshots"} /\ sc.next["list_snapshots"] = {read}
  BY DEF RedshiftServerlessPolicy, PerResource, Scanner, Harmless
<1>2. /\ DOMAIN RedshiftServerless = {"list_snapshots", read}
      /\ RedshiftServerless["list_snapshots"].on = Listing.on
      /\ RedshiftServerless["list_snapshots"].pages = "TypeError"
      /\ RedshiftServerless[read] = Lookup
  BY DEF RedshiftServerless, Listing
<1> HIDE DEF sc
<1>3. SoundCall("redshift_serverless", sc, "list_snapshots")
  <2>1. SoundErrors(sc, "list_snapshots")
    BY <1>1, <1>2, Handlers DEF SoundErrors, Exceptions, RegionTrouble
  <2>2. /\ SoundPages("redshift_serverless", sc, "list_snapshots")
        /\ SoundTrips(sc, "list_snapshots")
    BY <1>1, <1>2 DEF SoundPages, SoundTrips
  <2> QED BY <1>1, <1>2, <2>1, <2>2 DEF SoundCall
<1>4. SoundCall("redshift_serverless", sc, read)
  BY <1>1, <1>2, FollowedPages, LookupSound DEF SoundTrips
<1>5. ASSUME NEW op, CallOf(sc, op) PROVE op \in {"list_snapshots", read}
  BY <1>1, <1>5 DEF CallOf
<1>6. Sound("redshift_serverless", sc)
  BY <1>1, <1>3, <1>4, <1>5 DEF Sound
<1> QED BY <1>6 DEF sc

\* A call outside the regions under a handler that only logs and raises.
LEMMA RawSound ==
  ASSUME NEW s, NEW sc, NEW op \in DOMAIN sc.client,
         op # "assume_role_by_name", op \notin DOMAIN sc.trips,
         ~sc.regional, sc.client[op].on = RawRead.on, SoundPages(s, sc, op),
         sc.caller = "start" => op \in DOMAIN sc.next \cup {"describe_policy"}
  PROVE  SoundCall(s, sc, op)
<1>1. SoundErrors(sc, op)
  BY Handlers DEF SoundErrors, Exceptions, RegionTrouble
<1> QED BY <1>1 DEF SoundCall, SoundTrips

\* No region is an error of its own, and the role policies have one page.
LEMMA IAMSound == Sound("iam", IAMPolicy)
<1> DEFINE sc == IAMPolicy
           raw == {"list_policies", "list_roles", "list_role_inline_policies",
                   "get_role_policy"}
           read == "get_policy_version"
<1>1. /\ sc.client = IAM /\ sc.first = {"list_policies", "list_roles"}
      /\ DOMAIN sc.trips = {}
      /\ ~sc.regional /\ sc.regional \in BOOLEAN /\ sc.caller = "router" /\ ~sc.versions
      /\ DOMAIN sc.next = {"list_policies", "list_roles", "list_role_inline_policies"}
      /\ \A op \in DOMAIN sc.next : sc.next[op] \subseteq raw \cup {read, "none_needed"}
  BY DEF IAMPolicy, Scanner, Harmless
<1>2. /\ DOMAIN IAM = raw \cup {read}
      /\ \A op \in raw : IAM[op].on = RawRead.on
      /\ \A op \in raw : IAM[op].pages = "first" => op = "list_role_inline_policies"
      /\ \A op \in raw : IAM[op].pages \in {"all", "first", "none"}
      /\ IAM[read] = Lookup
  BY Handlers DEF IAM, RawList, RawRead
<1> HIDE DEF sc
<1>3. ASSUME NEW op \in raw PROVE SoundCall("iam", sc, op)
  <2>1. SoundPages("iam", sc, op)
    BY <1>1, <1>2 DEF SoundPages, SilentGaps
  <2> QED BY <1>1, <1>2, <2>1, RawSound
<1>4. SoundCall("iam", sc, read)
  BY <1>1, <1>2, FollowedPages, LookupSound DEF SoundTrips
<1>5. SoundCall("iam", sc, "none_needed")
  <2>1. sc.caller # "start"
    BY <1>1
  <2> QED BY <2>1 DEF SoundCall
<1>6. ASSUME NEW op, CallOf(sc, op) PROVE op \in raw \cup {read, "none_needed"}
  BY <1>1, <1>6 DEF CallOf
<1>7. Sound("iam", sc)
  BY <1>1, <1>3, <1>4, <1>5, <1>6 DEF Sound
<1> QED BY <1>7 DEF sc

\* A region that cannot be reached is an AttributeError for the router.
LEMMA S3Sound == Sound("s3", S3BucketPolicy)
<1> DEFINE sc == S3BucketPolicy
           lists == {"list_buckets", "get_bucket_location"}
           read == "get_bucket_policy"
<1>1. /\ sc.client = S3 /\ sc.first = {"list_buckets"}
      /\ DOMAIN sc.trips = {}
      /\ ~sc.regional /\ sc.regional \in BOOLEAN /\ sc.caller = "router" /\ ~sc.versions
      /\ DOMAIN sc.next = lists
      /\ \A op \in lists : sc.next[op] \subseteq {"get_bucket_location", read}
  BY DEF S3BucketPolicy, Scanner, Harmless
<1>2. DOMAIN S3 = lists \cup {read} /\ S3[read] = Lookup
  BY DEF S3
<1>3. ASSUME NEW op \in lists
      PROVE  /\ S3[op].pages = "none"
             /\ S3[op].on.refused = "AttributeError"
             /\ S3[op].on.unreachable = "AttributeError"
             /\ S3[op].on.missing = "ClientError"
             /\ S3[op].on.rejected = "ClientError"
             /\ S3[op].on.interrupted = "BotoCoreError"
  <2>1. S3[op].pages = "none" /\ S3[op].on =
          [service_exception_handler EXCEPT !.refused = "AttributeError",
                                            !.unreachable = "AttributeError"]
    BY DEF S3, OneList
  <2> QED BY <2>1 DEF service_exception_handler
<1> HIDE DEF sc
<1>4. ASSUME NEW op \in lists PROVE SoundCall("s3", sc, op)
  <2>1. ASSUME NEW e \in Errors
        PROVE  S3[op].on[e] = IF e \in {"refused", "unreachable"}
                                THEN "AttributeError"
                                ELSE IF e = "interrupted" THEN "BotoCoreError"
                                ELSE "ClientError"
    BY <1>3 DEF Errors
  <2>2. SoundErrors(sc, op)
    BY <1>1, <2>1 DEF SoundErrors, Exceptions
  <2>3. SoundPages("s3", sc, op) /\ SoundTrips(sc, op)
    BY <1>1, <1>3 DEF SoundPages, SoundTrips
  <2> QED BY <1>1, <1>2, <2>2, <2>3 DEF SoundCall
<1>5. SoundCall("s3", sc, read)
  BY <1>1, <1>2, FollowedPages, LookupSound DEF SoundTrips
<1>6. ASSUME NEW op, CallOf(sc, op) PROVE op \in lists \cup {read}
  BY <1>1, <1>6 DEF CallOf
<1>7. Sound("s3", sc)
  BY <1>1, <1>4, <1>5, <1>6 DEF Sound
<1> QED BY <1>7 DEF sc

\* The scan of the hub account, whose caller knows ClientError only.
LEMMA ServiceControlSound == Sound("organizations", ServiceControlPolicy)
<1> DEFINE sc == ServiceControlPolicy
           ops == {"list_policies", "describe_policy"}
<1>1. /\ sc.client = Organizations /\ sc.first = {"list_policies"}
      /\ DOMAIN sc.trips = {}
      /\ ~sc.regional /\ sc.regional \in BOOLEAN /\ sc.caller = "start" /\ ~sc.versions
      /\ DOMAIN sc.next = {"list_policies"}
      /\ sc.next["list_policies"] = {"describe_policy"}
  BY DEF ServiceControlPolicy, PerResource, Scanner, Harmless
<1>2. /\ DOMAIN Organizations = ops
      /\ \A op \in ops : Organizations[op].on = RawRead.on
      /\ \A op \in ops : Organizations[op].pages \in {"all", "none"}
  BY Handlers DEF Organizations
<1> HIDE DEF sc
<1>3. ASSUME NEW op \in ops PROVE SoundCall("organizations", sc, op)
  <2>1. SoundPages("organizations", sc, op)
    BY <1>1, <1>2 DEF SoundPages
  <2> QED BY <1>1, <1>2, <2>1, RawSound
<1>4. ASSUME NEW op, CallOf(sc, op) PROVE op \in ops
  BY <1>1, <1>4 DEF CallOf
<1>5. Sound("organizations", sc)
  BY <1>1, <1>3, <1>4 DEF Sound
<1> QED BY <1>5 DEF sc

(***************************************************************************)
(* Every scanner that the router or the start handler can call is sound.   *)
(***************************************************************************)
LEMMA ScannersSound ==
  \A s \in DOMAIN ScanPolicyStrategy : Sound(s, ScanPolicyStrategy[s])
<1>1. DOMAIN ScanPolicyStrategy =
        {"acm_pca", "apigateway", "backup", "cloudformation",
         "codeartifact", "codebuild", "config", "ec2", "ecr",
         "elasticfilesystem", "events", "eventbridge_schemas", "glacier",
         "glue", "iam", "iot", "kms", "lambda", "lexv2", "mediastore",
         "opensearchservice", "organizations", "ram",
         "redshift_serverless", "s3", "secretsmanager", "serverlessrepo",
         "ses", "sns", "sqs", "ssm_contacts", "ssm_incidents"}
  BY DEF ScanPolicyStrategy
<1>2. /\ ScanPolicyStrategy["acm_pca"] = ACMPCAPolicy
      /\ ScanPolicyStrategy["apigateway"] = APIGatewayPolicy
      /\ ScanPolicyStrategy["backup"] = BackupVaultAccessPolicy
      /\ ScanPolicyStrategy["cloudformation"] = CloudFormationStackPolicy
      /\ ScanPolicyStrategy["codeartifact"] = CodeArtifactPolicy
      /\ ScanPolicyStrategy["codebuild"] = CodeBuildResourcePolicy
      /\ ScanPolicyStrategy["config"] = ConfigRulePolicy
      /\ ScanPolicyStrategy["ec2"] = VPCEndpointsPolicy
      /\ ScanPolicyStrategy["ecr"] = EC2ContainerRegistryRepositoryPolicy
      /\ ScanPolicyStrategy["elasticfilesystem"] = ElasticFileSystemPolicy
      /\ ScanPolicyStrategy["events"] = EventBusPolicy
      /\ ScanPolicyStrategy["eventbridge_schemas"] = EventBridgeSchemasPolicy
      /\ ScanPolicyStrategy["glacier"] = GlacierVaultPolicy
      /\ ScanPolicyStrategy["glue"] = GlueResourcePolicy
      /\ ScanPolicyStrategy["iam"] = IAMPolicy
      /\ ScanPolicyStrategy["iot"] = IoTPolicy
      /\ ScanPolicyStrategy["kms"] = KeyManagementServicePolicy
      /\ ScanPolicyStrategy["lambda"] = LambdaFunctionPolicy
      /\ ScanPolicyStrategy["lexv2"] = Lexv2ModelsPolicy
      /\ ScanPolicyStrategy["mediastore"] = MediaStorePolicy
      /\ ScanPolicyStrategy["opensearchservice"] = OpenSearchDomainPolicy
      /\ ScanPolicyStrategy["organizations"] = ServiceControlPolicy
      /\ ScanPolicyStrategy["ram"] = RAMPolicy
      /\ ScanPolicyStrategy["redshift_serverless"] = RedshiftServerlessPolicy
      /\ ScanPolicyStrategy["s3"] = S3BucketPolicy
      /\ ScanPolicyStrategy["secretsmanager"] = SecretsManagerPolicy
      /\ ScanPolicyStrategy["serverlessrepo"] = ServerlessApplicationPolicy
      /\ ScanPolicyStrategy["ses"] = SESIdentityPolicy
      /\ ScanPolicyStrategy["sns"] = SNSTopicPolicy
      /\ ScanPolicyStrategy["sqs"] = SQSQueuePolicy
      /\ ScanPolicyStrategy["ssm_contacts"] = SSMContactsPolicy
      /\ ScanPolicyStrategy["ssm_incidents"] = SSMIncidentsResponsePlanPolicy
  BY DEF ScanPolicyStrategy
<1> QED BY <1>1, <1>2, PlainScannersSound, TrippingScannersSound,
           ListingScannersSound, CodeArtifactSound, CodeBuildSound, LambdaSound,
           LexSound, RedshiftSound, IAMSound, S3Sound, ServiceControlSound
=============================================================================
