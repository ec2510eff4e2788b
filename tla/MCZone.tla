--------------------------------- MODULE MCZone --------------------------------
(***************************************************************************)
(* Composition for the Zone kind, on small instances.                      *)
(***************************************************************************)
EXTENDS Zone

\* Of names that the handler treats alike and nothing depends on, one is kept.
LeftOut ==
  (UNION {{LabelsPolicy(ns), Sidecar(ns), RoleAll(ns), RoleRead(ns),
          RoleNamespace(ns), NetworkPolicy(ns)} \cup Bindings(ns) : ns \in Namespaces})
    \cup {ClusterBinding, AppProject}
    \cup (SecretStore \ {StoreRole})
MCName == ZoneName \ LeftOut

MCValue ==
  Pool \cup Types \cup Template \cup (SUBSET Pool) \cup 1 .. MaxDisruptions + 1
    \cup [template : Template, version : 1 .. MaxDisruptions + 1]

MCStart ==
  {c \in ZoneComposite :
     /\ c.usable /\ ~c.apps /\ ~c.egress /\ ~c.store /\ c.roles = RoleRef
     /\ c.drained = {}
     /\ c.namespaces = Ns /\ c.pool = None /\ c.exposed = {} /\ c.labelled = {}
     /\ c.pools = Pool /\ c.types = "t1" /\ c.template = "x1"}

MCGenerate(c, observed) ==
  LET generated == ZoneGenerate(c, observed)
  IN IF generated = Fatal THEN Fatal
     ELSE [n \in DOMAIN generated \cap MCName |-> generated[n]]

MCIsReady(n, resource) == n \in ZoneNative \/ resource.status.phase = "up"

\* Composites that differ in what is kept of the names only.
MCComposite ==
  {c \in ZoneComposite : ~c.egress /\ c.roles = RoleRef /\ c.exposed \subseteq Ns}

\* Edits among them.  What is known of the required resources stays so.
MCEdits(c) ==
  {e \in ZoneEdits(c) \ {c} :
     /\ ~e.egress /\ e.roles = RoleRef /\ e.exposed \subseteq Ns
     /\ c.known => e.known}

\* Nobody deletes the policies of a zone or the role of its nodes.
MCLosable ==
  {LaunchTemplate(p) : p \in Pool} \cup {NodeGroup(p, t) : p \in Pool, t \in Types}
================================================================================
