------------------------------- MODULE MCSqlKinds ------------------------------
(***************************************************************************)
(* Composition for the SQL kinds, on small instances.                      *)
(***************************************************************************)
EXTENDS SqlKinds

\* Every kind, on its own, newly submitted with any list.
MCStart == {c \in SqlComposite : c.requiredReady /\ ~c.restored}

MCDatabase ==
  [kind : {"PostgreSQLDatabase"}, list : Lists, requiredReady : {TRUE},
   restored : {FALSE}]
MCUser ==
  [kind : {"PostgreSQLUser"}, list : Lists, requiredReady : {TRUE},
   restored : {FALSE}]

================================================================================
