----------------------------- MODULE MCResourceTags ----------------------------
(***************************************************************************)
(* ResourceTags on small instances.                                        *)
(***************************************************************************)
EXTENDS ResourceTags, Naturals, FiniteSets

MCKey == {"more", "a", "b", "c", "d", "e", "zone", "workspace"}

\* Who tries to give a tag: the handler alone, any two sources that are next to
\* each other, or all of them.
Givers(k) ==
  CASE k = "more" -> {"generated"}
    [] k = "a" -> {"generated", "environment"}
    [] k = "b" -> {"environment", "zone_label"}
    [] k = "c" -> {"zone_label", "zone_annotation"}
    [] k = "d" -> {"zone_annotation", "label"}
    [] k = "e" -> {"label", "annotation"}
    [] OTHER -> Source \ {"zone", "workspace"}

\* With a workspace in a zone, and without one out of it; with the one tag more
\* and without.
MCStart ==
  {[tags |-> [s \in Source |-> {k \in keys : s \in Givers(k)}],
    zone |-> zone, workspace |-> zone] :
      keys \in {MCKey, MCKey \ {"more"}}, zone \in BOOLEAN}

\* Room for all but one tag.
MCFits(keys) == Cardinality(keys) < Cardinality(MCKey)
================================================================================
