----------------------------- MODULE MCRdsInstance -----------------------------
(***************************************************************************)
(* Composition for the RDS instances, on small instances.  One supporting  *)
(* name stands for the four: the handler treats them alike.                *)
(***************************************************************************)
EXTENDS RdsInstance

MCSupport == {<<"sg">>}

\* A newly submitted composite: with or without parameters and a version.
MCStart ==
  {c \in RdsComposite : /\ c.usable
                        /\ ~c.named
                        /\ ~c.protection
                        /\ c.snapshot = "s0"}

\* Edits that leave the protection alone and never return to a parameter group
\* that was given up: the version only rises, and parameters are not asked for
\* again.  A group is deleted as soon as it is not kept, which may be while the
\* Instance uses it; an Instance that returns to it keeps it deleting for good.
Rank(version) ==
  CASE version = None -> 0 [] version = "v1" -> 1 [] version = "v2" -> 2 [] OTHER -> 3
MCEdits(c) ==
  {e \in RdsEdits(c) : /\ e.protection = c.protection
                       /\ Rank(e.version) >= Rank(c.version)
                       /\ e.params => c.params}

\* Nobody else deletes a security group or a parameter group: the function
\* takes one that is being deleted for ready, and an Instance made or moved
\* meanwhile keeps it from ever going away.
MCLosable == {Rds, Es}

\* Parameters only together with a version that has a family: without one a
\* rebuilt instance has no family until it runs, and its group is dropped as soon
\* as it is made.
MCSettlingStart == {c \in MCStart : c.params => c.version \in Family}

\* A protected instance.
MCProtectedStart ==
  {c \in RdsComposite : /\ c.usable
                        /\ ~c.named
                        /\ ~c.params
                        /\ c.protection
                        /\ c.snapshot = "s0"}
================================================================================
