-------------------------------- MODULE SqlKinds -------------------------------
(***************************************************************************)
(* The composite kinds whose composed resources live inside a database     *)
(* server: PostgreSQLUser, MariaDBUser, PostgreSQLDatabase and             *)
(* MariaDBDatabase (functions/database).  This module is the parameters    *)
(* they give Composition: what their handlers generate, in which sequence, *)
(* and what provider-sql and the Usage controller do with it.              *)
(*                                                                         *)
(* A composite is what its handler tells apart: its kind, the list it      *)
(* carries (granted roles or users, extensions, or one entry when deletion *)
(* protection is on), whether the composites it requires are ready, and    *)
(* whether its instance was restored from a snapshot.                      *)
(***************************************************************************)
EXTENDS Composition

CONSTANTS
  Item,      \* entries of the list a composite carries
  MaxList    \* bound on the length of that list

ASSUME MaxListAssumption == MaxList \in Nat

Kinds == {"PostgreSQLUser", "MariaDBUser", "PostgreSQLDatabase", "MariaDBDatabase"}

\* A name is the literal part and what is interpolated in it, none for most.
Plain(literal) == <<literal>>
For(literal, items) == {<<literal, x>> : x \in items}

SqlName ==
  {Plain(l) : l \in {"role", "user", "instance-protection", "mariadb-database",
                     "grant-owner-to-dbadmin", "postgresql-database",
                     "grant-usage", "owner-protection"}}
    \cup (UNION {For(l, Item) : l \in {"grant", "usage-grant", "db-protection"}})
    \cup {<<"extension", x, i>> : x \in Item, i \in 0 .. MaxList - 1}

\* Lists with no entry twice.
Lists == {l \in UNION {[1 .. k -> Item] : k \in 0 .. MaxList} :
            \A i, j \in DOMAIN l : i # j => l[i] # l[j]}

SqlComposite ==
  [kind : Kinds, list : Lists, requiredReady : BOOLEAN,
   restored : BOOLEAN]

--------------------------------------------------------------------------------
(***************************************************************************)
(* The handlers.  Only the Role's manifest depends on what was observed:   *)
(* its passwordRotationTrigger, a time, 0 when the field is not set.       *)
(***************************************************************************)

\* Times of password changes, counted from the creation of the role.
Time == Nat
NoTrigger == 0

\* A trigger that is worked out anew on every pass.
RecomputedTrigger(restored, observed) ==
  IF Plain("role") \notin DOMAIN observed THEN NoTrigger
  ELSE LET role == observed[Plain("role")]
       IN IF restored /\ role.status.changed # 0
            THEN role.status.changed + 1 ELSE NoTrigger

\* A trigger that is not later than the password change it follows.
TriggerNotLater(restored, observed) ==
  IF Plain("role") \notin DOMAIN observed THEN NoTrigger
  ELSE LET role == observed[Plain("role")]
       IN CASE role.manifest # NoTrigger -> role.manifest
            [] role.manifest = NoTrigger /\ restored -> role.status.changed
            [] OTHER -> NoTrigger

\* passwordRotationTrigger: one that was observed is kept for good; the first
\* is a moment after the last password change seen on a restored instance.
passwordRotationTrigger(restored, observed) ==
  IF Plain("role") \notin DOMAIN observed THEN NoTrigger
  ELSE LET role == observed[Plain("role")]
       IN CASE role.manifest # NoTrigger -> role.manifest
            [] role.manifest = NoTrigger /\ restored
                 /\ role.status.changed # 0 -> role.status.changed + 1
            [] OTHER -> NoTrigger

\* Extensions that are numbered from one.
ExtensionsFromOne(c) ==
  {<<"extension", c.list[i], i>> : i \in DOMAIN c.list}

\* buildExtensions: an extension is named by its place in the list, too.
buildExtensions(c) ==
  {<<"extension", c.list[i], i - 1>> : i \in DOMAIN c.list}

Entries(c) == {c.list[i] : i \in DOMAIN c.list}

\* What the build functions of each generator return, by name.
pgUserGenerator(c) ==
  {Plain("role"), Plain("instance-protection")}
    \cup For("grant", Entries(c)) \cup For("usage-grant", Entries(c))

mariaDBUserGenerator(c) ==
  {Plain("user"), Plain("instance-protection")}
    \cup For("grant", Entries(c)) \cup For("usage-grant", Entries(c))
    \cup For("db-protection", Entries(c))

pgDatabaseGenerator(c) ==
  {Plain("grant-owner-to-dbadmin"), Plain("postgresql-database"),
   Plain("grant-usage"), Plain("owner-protection"), Plain("instance-protection")}
    \cup buildExtensions(c)

mariaDBDatabaseGenerator(c) ==
  {Plain("mariadb-database")} \cup {Plain("instance-protection") : x \in Entries(c)}

GeneratedNames(c) ==
  CASE c.kind = "PostgreSQLUser" -> pgUserGenerator(c)
    [] c.kind = "MariaDBUser" -> mariaDBUserGenerator(c)
    [] c.kind = "PostgreSQLDatabase" -> pgDatabaseGenerator(c)
    [] c.kind = "MariaDBDatabase" -> mariaDBDatabaseGenerator(c)

\* generate: an error until the instance, the owner role or the database that
\* the composite needs is ready, whatever exists already.
SqlGenerate(c, observed) ==
  IF ~c.requiredReady THEN Fatal
  ELSE [n \in GeneratedNames(c) |->
          IF n = Plain("role")
            THEN passwordRotationTrigger(c.restored, observed)
            ELSE NoTrigger]

\* GetSequence, each pattern as the names it matches.
SqlSequence(c) ==
  CASE c.kind = "PostgreSQLUser" ->
         <<{Plain("role")}, For("grant", Item), For("usage-grant", Item),
           {Plain("instance-protection")}>>
    [] c.kind = "MariaDBUser" ->
         <<{Plain("user")}, For("grant", Item), For("usage-grant", Item),
           For("db-protection", Item), {Plain("instance-protection")}>>
    [] c.kind = "PostgreSQLDatabase" ->
         <<{Plain("grant-owner-to-dbadmin")}, {Plain("postgresql-database")},
           {<<"extension", x, i>> : x \in Item, i \in 0 .. MaxList - 1},
           {Plain("grant-usage")}, {Plain("owner-protection")},
           {Plain("instance-protection")}>>
    [] c.kind = "MariaDBDatabase" ->
         <<{Plain("mariadb-database")}, {Plain("instance-protection")}>>

--------------------------------------------------------------------------------
(***************************************************************************)
(* The providers: a resource is not ready until its provider has reported  *)
(* it up, and again after a fault.  provider-sql keeps the time of a       *)
(* role's last password change and changes the password when the trigger   *)
(* is later.                                                               *)
(***************************************************************************)

SqlStatus == [phase : {"new", "up", "down"}, changed : Time]
SqlNewStatus == [phase |-> "new", changed |-> 0]

\* GetReadyStatus: a Grant or a Database has to say that it is ready.  Of the
\* other kinds one that says nothing yet counts as ready, as it is not an
\* upbound.io resource (defaultCrossplaneReadyStatus).
SqlIsReady(n, resource) ==
  \/ resource.status.phase = "up"
  \/ /\ resource.status.phase = "new"
     /\ n[1] \notin {"grant", "grant-owner-to-dbadmin", "postgresql-database",
                     "mariadb-database"}

SqlReports(n, observed) ==
  LET resource == observed[n]
      last == resource.status.changed
      changed == CASE n # Plain("role") -> 0
                   [] n = Plain("role") /\ last = 0 -> 1
                   [] n = Plain("role") /\ last # 0 /\ resource.manifest > last ->
                        resource.manifest
                   [] OTHER -> last
      phases == IF resource.status.phase = "new" THEN {"down", "up"} ELSE {"up"}
  IN [phase : phases, changed : {changed}]

SqlDegrades(n, observed) ==
  IF observed[n].status.phase = "up"
    THEN {[observed[n].status EXCEPT !.phase = "down"]} ELSE {}

SqlRemovable(n, observed) == TRUE

\* The user changes the list, the instance is restored from a snapshot, or
\* what the composite requires becomes ready or stops being ready.
SqlEdits(c) ==
  {[c EXCEPT !.list = l] : l \in Lists \ {c.list}}
       \cup {[c EXCEPT !.requiredReady = ~c.requiredReady]}
       \cup {[c EXCEPT !.restored = TRUE] : k \in {c.kind} \cap {"PostgreSQLUser"}}

\* That the parameters of Composition are the ones of this module: what the
\* theorems of SqlKinds_proofs assume, and the configurations set.
SqlParameters ==
  /\ Name = SqlName /\ Composite = SqlComposite
  /\ Manifest = Time /\ Status = SqlStatus
  /\ \A c : Edits(c) = SqlEdits(c)
  /\ \A c : \A observed : Generate(c, observed) = SqlGenerate(c, observed)
  /\ \A n : \A observed : /\ Reports(n, observed) = SqlReports(n, observed)
                         /\ Degrades(n, observed) = SqlDegrades(n, observed)

--------------------------------------------------------------------------------
(***************************************************************************)
(* Properties.                                                             *)
(***************************************************************************)

Role == Plain("role")

\* A trigger that was given to a Role is never changed or taken back while
\* the Role exists: otherwise every pass would rotate the password again
\* (pg_user.go, passwordRotationTrigger).
RotatedOnce ==
  [][(/\ Role \in DOMAIN world \cap DOMAIN world'
      /\ world[Role].manifest # NoTrigger)
       => world'[Role].manifest = world[Role].manifest]_vars

\* Once the instance is one restored from a snapshot, and stays ready, the
\* password is set again after the one the snapshot brought back.
RotatedAfterRestore ==
  <>[](composite.restored /\ Generate(composite, world) # Fatal)
    => <>(Role \in DOMAIN world /\ world[Role].status.changed > 1)
================================================================================
