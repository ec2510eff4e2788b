-------------------------------- MODULE Services -------------------------------
(***************************************************************************)
(* What the composite kinds that put a cloud service and its credentials   *)
(* together have in common (ValkeyInstance, S3Bucket, KafkaUser,           *)
(* RabbitMQBroker and the smaller ones beside them): the shape of          *)
(* manifests and statuses, readiness, and the Secrets that carry a         *)
(* credential from where it is made to where it is read.                   *)
(***************************************************************************)
EXTENDS Composition

CONSTANTS
  None,
  Password,     \* passwords, tokens and access keys, told apart only
  Value         \* whatever else a manifest or a status may name

\* A composite's known says whether the statuses of its required resources are
\* filled in: where they are not, the handlers compose with empty fields.
\* value is the one thing in the manifest that something depends on.
ServiceManifest == [known : BOOLEAN, value : Value \cup Password \cup {None}]

\* said is what a handler, or another provider, reads of it.
ServiceStatus ==
  [phase : {"new", "up", "down"}, said : Value \cup Password \cup {None}]

ServiceNewStatus == [phase |-> "new", said |-> None]

Asked(c, value) == [known |-> c.known, value |-> value]

Said(n, observed) ==
  IF n \in DOMAIN observed THEN observed[n].status.said ELSE None

ManifestValue(n, observed) ==
  IF n \in DOMAIN observed THEN observed[n].manifest.value ELSE None

IsUp(n, observed) == n \in DOMAIN observed /\ observed[n].status.phase = "up"

\* generatePassword: 32 random characters.  All that matters of them is that
\* nothing there is has them, so any one unused stands for all.
generatePassword(observed) ==
  CHOOSE p \in Password :
    \A n \in DOMAIN observed : p # observed[n].manifest.value /\ p # Said(n, observed)

\* What a Secret holds whose data are no base64, or not the JSON they should be.
\* One without data, or with an empty password, holds None.
Undecodable == "undecodable"

--------------------------------------------------------------------------------
(***************************************************************************)
(* The Kubernetes Secret with the credentials, the secret in AWS Secrets   *)
(* Manager and the version of it that copies the former.                   *)
(***************************************************************************)
Credentials == <<"credentials">>
Secret == <<"secrets-manager-secret">>
SecretVersion == <<"secrets-manager-secret-version">>

SecretName == {Credentials, Secret, SecretVersion}

\* The provider has what it needs of other resources and reports that its
\* resource is there, or cannot make it.
Provided(n, observed, needed, says) ==
  IF observed[n].manifest.known /\ \A m \in needed : IsUp(m, observed)
    THEN {[phase |-> "up", said |-> says]}
    ELSE {[observed[n].status EXCEPT !.phase = "down"]}

\* A SecretVersion is written from the Secret its provider finds, and written
\* again when that changes.
SecretReports(n, observed) ==
  CASE n = SecretVersion /\ Credentials \in DOMAIN observed ->
         Provided(n, observed, {Secret}, observed[Credentials].manifest.value)
    [] n = SecretVersion /\ Credentials \notin DOMAIN observed ->
         {[observed[n].status EXCEPT !.phase = "down"]}
    [] n = Secret -> Provided(n, observed, {}, None)
    [] OTHER -> {}

\* Something stops being ready.
ServiceDegrades(n, observed) ==
  {[observed[n].status EXCEPT !.phase = "down"] :
     x \in {"up"} \cap {observed[n].status.phase}}

--------------------------------------------------------------------------------
\* Once the required resources have their statuses, the disruptions are over
\* and the function stops failing, the composed resources settle for good: no
\* step waits for one behind it, and nothing that was made too early stays so
\* (GetSequence and generate of every kind).
EventuallySettledOnceKnown ==
  <>[](composite.known /\ Generate(composite, world) # Fatal) => <>[]Settled
================================================================================
