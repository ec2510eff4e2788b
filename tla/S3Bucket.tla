-------------------------------- MODULE S3Bucket -------------------------------
(***************************************************************************)
(* S3Bucket (functions/storage/service/s3bucket.go): the parameters it     *)
(* gives Composition.  A bucket with what configures it, an IAM user and a *)
(* role that may use it, and the access key of the user copied into a      *)
(* Secret and from there into Secrets Manager.                             *)
(***************************************************************************)
EXTENDS Services

Bucket == <<"bucket">>
Versioning == <<"bucket-versioning">>
Ownership == <<"bucket-ownership-controls">>
PublicAccess == <<"bucket-public-access-block">>
Encryption == <<"bucket-server-side-encryption-configuration">>
IamUser == <<"iam-user">>
IamPolicy == <<"iam-policy">>
IamRole == <<"iam-role">>
AccessKey == <<"iam-access-key">>
UserAttachment == <<"iam-user-policy-attachment">>
RoleAttachment == <<"iam-role-policy-attachment">>
ServiceAccount == <<"service-account">>

\* buildBucketResources, buildIAMResources.
BucketResources == {Bucket, Versioning, Ownership, PublicAccess, Encryption}
IAMResources ==
  {IamUser, IamPolicy, IamRole, AccessKey, UserAttachment, RoleAttachment}

S3Name == BucketResources \cup IAMResources \cup {ServiceAccount}

\* versioning and account are enableVersioning and createServiceAccount; the
\* region, the account and the issuer of the EKS cluster are known or empty;
\* usable says whether the environment and the cluster are there.
S3Composite ==
  [kind : {"S3Bucket"}, versioning : BOOLEAN, account : BOOLEAN,
   known : BOOLEAN, usable : BOOLEAN]

--------------------------------------------------------------------------------
(***************************************************************************)
(* The handler.                                                            *)
(***************************************************************************)

\* buildCredentialsSecret: while both the access key and the bucket have
\* connection details.
S3Credentials(observed) ==
  {n \in {Credentials} :
     Said(AccessKey, observed) # None /\ Said(Bucket, observed) # None}

\* A copy of the first key there was.
FirstKey(observed) ==
  IF ManifestValue(Credentials, observed) # None
    THEN ManifestValue(Credentials, observed) ELSE Said(AccessKey, observed)

\* The key the Secret gets.
S3Key(observed) == Said(AccessKey, observed)

\* The secret and its version always, whether there are credentials or not.
S3Generate(c, observed) ==
  IF ~c.usable THEN Fatal
  ELSE [n \in BucketResources \cup IAMResources \cup {Secret, SecretVersion}
               \cup {m \in {ServiceAccount} : c.account} \cup S3Credentials(observed) |->
          CASE n = Versioning -> Asked(c, IF c.versioning THEN "Enabled" ELSE "Suspended")
            [] n = Credentials -> Asked(c, S3Key(observed))
            [] OTHER -> Asked(c, None)]

\* A sequence in which the attachments come before what they attach.
S3AttachmentsFirst(c) ==
  <<{Bucket, IamUser, IamRole}, {UserAttachment, RoleAttachment},
    {AccessKey, IamPolicy}, {Credentials, Secret}, {SecretVersion},
    {Versioning, Ownership}, {PublicAccess, Encryption}>>

\* GetSequence.
S3Sequence(c) ==
  <<{Bucket, IamUser, IamRole}, {AccessKey, IamPolicy}, {Credentials, Secret},
    {SecretVersion, UserAttachment, RoleAttachment},
    {Versioning, Ownership}, {PublicAccess, Encryption}>>

--------------------------------------------------------------------------------
(***************************************************************************)
(* AWS and its providers, and the user.                                    *)
(***************************************************************************)

\* An access key is made once and new if it is made again.
S3Reports(n, observed) ==
  CASE n = Bucket -> Provided(n, observed, {}, "bucket")
    [] n \in BucketResources \ {Bucket} -> Provided(n, observed, {Bucket}, None)
    [] n = AccessKey /\ Said(AccessKey, observed) = None ->
         Provided(n, observed, {IamUser}, generatePassword(observed))
    [] n = AccessKey /\ Said(AccessKey, observed) # None ->
         Provided(n, observed, {IamUser}, Said(AccessKey, observed))
    [] n = UserAttachment -> Provided(n, observed, {IamUser, IamPolicy}, None)
    [] n = RoleAttachment -> Provided(n, observed, {IamRole, IamPolicy}, None)
    [] n = ServiceAccount -> {}
    [] OTHER -> Provided(n, observed, {}, None)

S3Removable(n, observed) == TRUE

S3Edits(c) ==
  {e \in S3Composite : \E f \in DOMAIN c :
     e[f] # c[f] /\ \A g \in DOMAIN c \ {f} : e[g] = c[g]}

--------------------------------------------------------------------------------
(***************************************************************************)
(* Properties.                                                             *)
(***************************************************************************)

\* Once the disruptions are over and all is known, Secrets Manager holds the
\* access key there is, though its version is composed before there are any
\* credentials (buildSecretsManagerResources, buildCredentialsSecret).
S3KeyArrives ==
  <>[](composite.kind = "S3Bucket" /\ composite.known
         /\ Generate(composite, world) # Fatal)
    => <>[](/\ Said(AccessKey, world) # None
            /\ Said(SecretVersion, world) = Said(AccessKey, world))
================================================================================
