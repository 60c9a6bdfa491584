----------------------------- MODULE AwsClients -----------------------------
(***************************************************************************)
(* The wrapper classes of aws/services: for each call the policy explorer  *)
(* makes, what becomes of each kind of error and of the pages of a long    *)
(* answer.  A wrapper keeps no state, so that it is a record of calls.     *)
(***************************************************************************)

(***************************************************************************)
(* What boto3 raises, as far as the code tells errors apart:               *)
(* "refused": a ClientError whose code service_exception_handler knows     *)
(*     (region disabled, 503, access denied);                              *)
(* "missing": a ClientError whose code resource_not_found_exception_handler*)
(*     knows;                                                              *)
(* "rejected": any other ClientError, such as throttling;                  *)
(* "unreachable": no connection could be made (EndpointConnectionError,    *)
(*     ConnectTimeoutError), which is not a ClientError;                   *)
(* "interrupted": any other BotoCoreError, such as a read that times out   *)
(*     or a connection that is closed, which no handler knows.             *)
(***************************************************************************)
Errors == {"refused", "missing", "rejected", "unreachable", "interrupted"}

(***************************************************************************)
(* A handler maps an error to what the caller sees.  "RegionError" is any  *)
(* of the exceptions that scan_regions expects, "answer" is the value      *)
(* {'Error': ...} in place of the response.                                *)
(***************************************************************************)
\* Mutant: the clauses for EndpointConnectionError and ConnectTimeoutError.
service_exception_handler_clients_only ==
  [refused |-> "RegionError", missing |-> "ClientError",
   rejected |-> "ClientError", unreachable |-> "BotoCoreError",
   interrupted |-> "BotoCoreError"]

service_exception_handler ==
  [refused |-> "RegionError", missing |-> "ClientError",
   rejected |-> "ClientError", unreachable |-> "RegionError",
   interrupted |-> "BotoCoreError"]

resource_not_found_exception_handler ==
  [refused |-> "ClientError", missing |-> "answer",
   rejected |-> "ClientError", unreachable |-> "BotoCoreError",
   interrupted |-> "BotoCoreError"]

\* except ClientError as err: log, raise
Reraise ==
  [refused |-> "ClientError", missing |-> "ClientError",
   rejected |-> "ClientError", unreachable |-> "BotoCoreError",
   interrupted |-> "BotoCoreError"]

(***************************************************************************)
(* Calls.  pages says what the wrapper does with a token for more:         *)
(* "all" follows it, "first" ignores it or never gets one, "none" is a     *)
(* call without pages, and an exception is what the code for the following *)
(* pages raises.                                                           *)
(***************************************************************************)
Listing  == [on |-> service_exception_handler, pages |-> "all"]
OneList  == [on |-> service_exception_handler, pages |-> "none"]
Lookup   == [on |-> resource_not_found_exception_handler, pages |-> "none"]
RawList  == [on |-> Reraise, pages |-> "all"]
RawRead  == [on |-> Reraise, pages |-> "none"]

\* Every constructor but that of a client for the hub account itself calls
\* assume_role_by_name.
assume_role_by_name == RawRead

ACMPCA         == [list_certificate_authorities |-> Listing, get_policy |-> Lookup]
APIGateway     == [get_rest_apis |-> Listing]
Backup         == [list_backup_vaults |-> Listing,
                   get_backup_vault_access_policy |-> Lookup]
CloudFormation == [list_stacks |-> Listing, get_stack_policy |-> Lookup]
CodeArtifact   == [list_domains |-> Listing, list_repositories |-> Listing,
                   get_domain_permissions_policy |-> Lookup,
                   get_repository_permissions_policy |-> Lookup]
CodeBuild      == [list_projects |-> Listing, list_report_groups |-> Listing,
                   batch_get_projects |-> Lookup, get_resource_policy |-> Lookup]
Config         == [describe_organization_config_rules |-> Listing,
                   get_organization_custom_rule_policy |-> Lookup]
EC2            == [describe_vpc_endpoints |-> Listing]
EC2ContainerRegistry ==
  [describe_repositories |-> Listing, get_repository_policy |-> Lookup]
ElasticFileSystem ==
  [describe_file_systems |-> Listing, describe_file_system_policy |-> Lookup]
EventBridgeSchemas ==
  [list_registries |-> Listing, get_resource_policy |-> Lookup]
Events         == [list_event_buses |-> Listing]
Glacier        == [list_vaults |-> Listing, get_vault_access_policy |-> Lookup]
Glue           == [get_resource_policies |-> Listing]

\* get_policy_version looks for the code NoSuchEntityException only; the
\* other codes of "missing" are re-raised, as "rejected" is.
\* list_role_inline_policies makes one call and ignores IsTruncated.
IAM ==
  [list_policies |-> RawList, get_policy_version |-> Lookup,
   list_roles |-> RawList,
   list_role_inline_policies |-> [RawList EXCEPT !.pages = "first"],
   get_role_policy |-> RawRead]

IoT            == [list_policies |-> Listing, get_policy |-> Lookup]

\* Mutant: NextMarker is not followed.
KeyManagementServiceOnePage ==
  [list_keys |-> [Listing EXCEPT !.pages = "first"], get_key_policy |-> Lookup]

KeyManagementService == [list_keys |-> Listing, get_key_policy |-> Lookup]
LambdaFunctions == [list_functions |-> Listing, get_policy |-> Lookup]

\* The loop of list_bots extends self.bot_summary_list, which does not exist.
Lexv2Models ==
  [list_bots |-> [Listing EXCEPT !.pages = "AttributeError"],
   list_bot_aliases |-> Listing,
   describe_resource_policy |-> Lookup]

MediaStore     == [list_containers |-> Listing, get_container_policy |-> Lookup]
OpenSearch     == [list_domain_names |-> OneList, describe_domains |-> Lookup]

Organizations  == [list_policies |-> RawList, describe_policy |-> RawRead]

\* get_resource_policy returns the first of the policies that one call of
\* get_resource_policies answers.
RAM ==
  [list_resources |-> Listing,
   get_resource_policy |-> [Lookup EXCEPT !.pages = "first"]]

\* The loop of list_snapshots calls extend with two arguments.
RedshiftServerless ==
  [list_snapshots |-> [Listing EXCEPT !.pages = "TypeError"],
   get_resource_policy |-> Lookup]

\* S3 never sets the attribute region that the handler reads.  A bucket of
\* an opt-in region gets a client of its own, whose assume_role can fail as
\* the lookup can.
S3 ==
  LET handler == [service_exception_handler EXCEPT !.refused = "AttributeError",
                                                   !.unreachable = "AttributeError"]
      call == [OneList EXCEPT !.on = handler]
  IN [list_buckets |-> call, get_bucket_location |-> call,
      get_bucket_policy |-> Lookup]

SecretsManager == [list_secrets |-> Listing, get_resource_policy |-> Lookup]
ServerlessApplicationRepository ==
  [list_applications |-> Listing, get_application_policy |-> Lookup]
SimpleEmailServiceV2 ==
  [list_email_identities |-> Listing, get_email_identity_policies |-> Lookup]
SNS            == [list_topics |-> Listing, get_topic_attributes |-> Lookup]

\* list_queues is called without MaxResults, so that the answer has no token.
SQS ==
  [list_queues |-> [Listing EXCEPT !.pages = "first"],
   get_queue_attributes |-> Lookup]

SSMContacts    == [list_contacts |-> Listing, get_contact_policy |-> Lookup]

\* The token of get_resource_policies is ignored.
SSMIncidents ==
  [list_response_plans |-> Listing,
   get_resource_policies |-> [Lookup EXCEPT !.pages = "first"]]
=============================================================================
