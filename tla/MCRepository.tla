------------------------------ MODULE MCRepository -----------------------------
(***************************************************************************)
(* Composition for Repository, on small instances.                         *)
(***************************************************************************)
EXTENDS Repository

MCStart == {c \in RepositoryComposite : ~c.prefixed}

\* A repository called like a lifecycle policy.
MCPrefixedStart == {c \in RepositoryComposite : c.prefixed}
================================================================================
