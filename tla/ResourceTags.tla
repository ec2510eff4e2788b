------------------------------ MODULE ResourceTags -----------------------------
(***************************************************************************)
(* The tags of composed resources (functions/common/base): which tags an   *)
(* object gets (GetResourceTags in util.go, injectZone in fn.go), and      *)
(* whether its kind has a field for them (supportsField in tag.go).        *)
(*                                                                         *)
(* One process serves many composites at once, each in a goroutine of its  *)
(* own: the callers here.  They share a cache, by kind, of whether the     *)
(* field is there, and let one of them at a time find out.  An object is   *)
(* asked for its field in one of two ways: a typed one by its Go type, and *)
(* one that a handler keeps as it was observed by whether it carries tags. *)
(* So the first to be asked decides for its kind, and what matters is that *)
(* it decides once.                                                        *)
(***************************************************************************)
CONSTANTS
  Caller,        \* goroutines
  Kind,          \* kinds of composed resources
  Tagged,        \* the kinds whose Go type has spec.forProvider.tags
  Key,           \* names of tags
  ZoneTag,       \* the tag that names the zone
  WorkspaceTag,  \* the tag that names the workspace
  Fits(_),       \* whether so many tags are within AWSTagsLimit
  Start,         \* what the tags may be taken from
  None,
  Untagged,      \* what has become of an object that is sent as it is
  Fatal          \* and of one that fails the function

ASSUME TaggedAssumption == Tagged \subseteq Kind
ASSUME KindAssumption == Kind # {}
ASSUME TagsAssumption == {ZoneTag, WorkspaceTag} \subseteq Key /\ ZoneTag # WorkspaceTag
ASSUME NoneAssumption == None \notin BOOLEAN \cup Kind \cup Caller

\* Where a tag may come from, the later one winning.
Source == {"generated", "environment", "zone_label", "zone_annotation",
           "label", "annotation", "zone", "workspace"}

\* The tags of every source; whether the namespace of the composite is in a
\* zone, and whether the function runs with a workspace.
Context == [tags : [Source -> SUBSET Key], zone : BOOLEAN, workspace : BOOLEAN]

ASSUME StartAssumption == Start \subseteq Context

\* typed: built by the handler.  The others are kept as they were observed: with
\* their tags, with tags that are no map, or stripped of them.
Object == [kind : Kind, form : {"typed", "kept", "mangled", "stripped"}]

\* What a caller between two objects is at: nobody reads it.
NoObject == CHOOSE o \in Object : TRUE

VARIABLES
  context,   \* where the tags of all objects are taken from
  cache,     \* tagSupportCache, by kind
  flight,    \* tagSupportFlight: who is finding out, by kind
  pc,        \* where each caller is
  object,    \* the object each caller is at
  answer,    \* what supportsField has answered it
  sent,      \* the tags its last object was sent with, or what else became of that
  answers    \* history: all that supportsField has ever answered, by kind

vars == <<context, cache, flight, pc, object, answer, sent, answers>>

--------------------------------------------------------------------------------
(***************************************************************************)
(* The tags of an object, each named by the source it comes from.          *)
(***************************************************************************)

\* maps.Copy(f, g).
Copied(f, g) ==
  [k \in DOMAIN f \cup DOMAIN g |-> IF k \in DOMAIN g THEN g[k] ELSE f[k]]

From(c, source) == [k \in c.tags[source] |-> source]

\* One tag, if it is given at all.
Named(k, given, source) == [x \in {y \in {k} : given} |-> source]

\* Labels over annotations.
LabelsLast(c, label, annotation) == Copied(From(c, annotation), From(c, label))

\* extractTags of the labels, then of the annotations.
getObjectTagsLabels(c, label, annotation) ==
  Copied(From(c, label), From(c, annotation))

\* Outside a zone the composite's tags alone; a Zone that is not found, or an
\* environment that cannot be read, has none.
GetResourceTags(c) ==
  IF c.zone
    THEN Copied(Copied(From(c, "environment"),
                       getObjectTagsLabels(c, "zone_label", "zone_annotation")),
                getObjectTagsLabels(c, "label", "annotation"))
    ELSE getObjectTagsLabels(c, "label", "annotation")

\* The tags that injectZone puts together.
TagsOf ==
  [c \in Start |->
     Copied(Copied(Copied(From(c, "generated"), GetResourceTags(c)),
                   Named(ZoneTag, c.zone, "zone")),
            Named(WorkspaceTag, c.workspace, "workspace"))]

\* injectZone: what becomes of an object, once supportsField has answered.
injectZone(c, o, supported) ==
  CASE ~supported \/ o.form = "mangled" -> Untagged
    [] supported /\ o.form # "mangled" /\ ~Fits(DOMAIN TagsOf[c]) -> Fatal
    [] OTHER -> TagsOf[c]

--------------------------------------------------------------------------------
(***************************************************************************)
(* supportsField.                                                          *)
(***************************************************************************)

resolveFieldPath(o) ==
  CASE o.form = "typed" -> o.kind \in Tagged
    [] o.form \in {"kept", "mangled"} -> TRUE
    [] OTHER -> FALSE

\* A caller has its answer.
Answered(c, a) ==
  /\ pc' = [pc EXCEPT ![c] = "answered"]
  /\ answer' = [answer EXCEPT ![c] = a]
  /\ answers' = [answers EXCEPT ![object[c].kind] = @ \cup {a}]

\* A caller comes to the next object of its response.
Call(c) ==
  /\ pc[c] = "idle"
  /\ pc' = [pc EXCEPT ![c] = "load"]
  /\ \E o \in Object : object' = [object EXCEPT ![c] = o]
  /\ sent' = [sent EXCEPT ![c] = None]
  /\ UNCHANGED <<context, cache, flight, answer, answers>>

\* tagSupportCache.Load, before anything is locked.
Load(c) ==
  /\ pc[c] = "load"
  /\ IF cache[object[c].kind] # None
       THEN Answered(c, cache[object[c].kind])
       ELSE pc' = [pc EXCEPT ![c] = "do"] /\ UNCHANGED <<answer, answers>>
  /\ UNCHANGED <<context, cache, flight, object, sent>>

\* tagSupportFlight.Do: the first caller of a kind leads, the others wait.
Do(c) ==
  /\ pc[c] = "do"
  /\ IF flight[object[c].kind] = None
       THEN /\ flight' = [flight EXCEPT ![object[c].kind] = c]
            /\ pc' = [pc EXCEPT ![c] = "recheck"]
       ELSE pc' = [pc EXCEPT ![c] = "wait"] /\ UNCHANGED flight
  /\ UNCHANGED <<context, cache, object, answer, sent, answers>>

\* A leader that goes straight on.
RecheckNothing(c) ==
  /\ pc[c] = "recheck"
  /\ pc' = [pc EXCEPT ![c] = "resolve"]
  /\ UNCHANGED <<context, cache, flight, object, answer, sent, answers>>

\* The leader looks into the cache again: another may have led and ended
\* between its Load and its Do.
Recheck(c) ==
  /\ pc[c] = "recheck"
  /\ pc' = [pc EXCEPT ![c] =
              IF cache[object[c].kind] # None THEN "finish" ELSE "resolve"]
  /\ answer' = [answer EXCEPT ![c] = cache[object[c].kind]]
  /\ UNCHANGED <<context, cache, flight, object, sent, answers>>

\* The leader finds out, and stores it.
Resolve(c) ==
  LET a == resolveFieldPath(object[c])
  IN /\ pc[c] = "resolve"
     /\ pc' = [pc EXCEPT ![c] = "finish"]
     /\ answer' = [answer EXCEPT ![c] = a]
     /\ cache' = [cache EXCEPT ![object[c].kind] = a]
     /\ UNCHANGED <<context, flight, object, sent, answers>>

\* Those that wait for the leader c, and c.
Flight(c) ==
  {c} \cup {w \in Caller : pc[w] = "wait" /\ object[w].kind = object[c].kind}

\* The leader's answer reaches the leader only.
FinishAlone(c) ==
  /\ pc[c] = "finish"
  /\ flight' = [flight EXCEPT ![object[c].kind] = None]
  /\ Answered(c, answer[c])
  /\ UNCHANGED <<context, cache, object, sent>>

\* The leader's answer is that of all who wait, and the flight is over.
Finish(c) ==
  /\ pc[c] = "finish"
  /\ flight' = [flight EXCEPT ![object[c].kind] = None]
  /\ pc' = [w \in Caller |-> IF w \in Flight(c) THEN "answered" ELSE pc[w]]
  /\ answer' = [w \in Caller |-> IF w \in Flight(c) THEN answer[c] ELSE answer[w]]
  /\ answers' = [answers EXCEPT ![object[c].kind] = @ \cup {answer[c]}]
  /\ UNCHANGED <<context, cache, object, sent>>

\* The rest of injectZone.
Send(c) ==
  /\ pc[c] = "answered"
  /\ pc' = [pc EXCEPT ![c] = "idle"]
  /\ object' = [object EXCEPT ![c] = NoObject]
  /\ answer' = [answer EXCEPT ![c] = None]
  /\ sent' = [sent EXCEPT ![c] = injectZone(context, object[c], answer[c])]
  /\ UNCHANGED <<context, cache, flight, answers>>

--------------------------------------------------------------------------------
Init ==
  /\ context \in Start
  /\ cache = [k \in Kind |-> None]
  /\ flight = [k \in Kind |-> None]
  /\ pc = [c \in Caller |-> "idle"]
  /\ object = [c \in Caller |-> NoObject]
  /\ answer = [c \in Caller |-> None]
  /\ sent = [c \in Caller |-> None]
  /\ answers = [k \in Kind |-> {}]

Step(c) == Load(c) \/ Do(c) \/ Recheck(c) \/ Resolve(c) \/ Finish(c) \/ Send(c)

Next == \E c \in Caller : Call(c) \/ Step(c)

Spec == Init /\ [][Next]_vars

\* The Go runtime runs every goroutine that can go on.
FairSpec == Spec /\ \A c \in Caller : WF_vars(Step(c))

--------------------------------------------------------------------------------
(***************************************************************************)
(* Properties.                                                             *)
(***************************************************************************)

Answer == BOOLEAN \cup {None}

TypeOK ==
  /\ context \in Context
  /\ cache \in [Kind -> Answer]
  /\ flight \in [Kind -> Caller \cup {None}]
  /\ pc \in [Caller -> {"idle", "load", "do", "wait", "recheck", "resolve",
                        "finish", "answered"}]
  /\ object \in [Caller -> Object]
  /\ answer \in [Caller -> Answer]
  /\ answers \in [Kind -> SUBSET BOOLEAN]

\* supportsField never answers a kind two ways, though its objects are asked
\* in two: no two composites that are served at once get different ones, in
\* whatever order they ask (tag.go, lines 39-56).  Whether that answer is the one
\* for the typed object is another matter: the first to ask decides.
OneAnswer ==
  \A k \in Kind : \A a, b \in answers[k] : a = b

\* The sources that a context has a tag from.
Giving(c, k) ==
  {s \in Source :
     CASE s = "zone" -> c.zone /\ k = ZoneTag
       [] s = "workspace" -> c.workspace /\ k = WorkspaceTag
       [] s \in {"environment", "zone_label", "zone_annotation"} ->
            c.zone /\ k \in c.tags[s]
       [] OTHER -> k \in c.tags[s]}

Over(s) ==
  CASE s = "generated" -> {}
    [] s = "environment" -> {"generated"}
    [] s = "zone_label" -> {"generated", "environment"}
    [] s = "zone_annotation" -> {"generated", "environment", "zone_label"}
    [] s = "label" -> Source \ {"label", "annotation", "zone", "workspace"}
    [] s = "annotation" -> Source \ {"annotation", "zone", "workspace"}
    [] OTHER -> Source \ {"zone", "workspace"}

\* Where an object is tagged, every tag has its value from the highest of its
\* sources: the names of zone and workspace cannot be claimed by anyone, the
\* composite is over the Zone, the Zone over the environments, and annotations
\* over labels (functions/common/README.md, lines 172-182).
TagsByPriority ==
  \A tags \in {sent[c] : c \in Caller} \ {None, Untagged, Fatal} :
    /\ DOMAIN tags = {k \in Key : Giving(context, k) # {}}
    /\ \A k \in DOMAIN tags :
         Giving(context, k) \ {tags[k]} \subseteq Over(tags[k])

\* Decision, for the field: supportsField decides a kind by storing it, asks for
\* a caller from the first look into the cache to the sending of the object, and
\* has told the caller once it has answered (tag.go, lines 39-56).
Promise ==
  INSTANCE Decision WITH
    decided <- cache,
    asking <- [c \in Caller |-> IF pc[c] = "idle" THEN None ELSE object[c].kind],
    told <- [c \in Caller |-> IF pc[c] = "answered" THEN answer[c] ELSE None]

\* However the callers interleave, a kind is decided once and every caller is
\* told what has been decided: the cache and the flights implement Decision.
KeepsThePromise == Promise!Spec

\* Every object is sent in the end, with its tags or as it is, or fails its
\* function: nobody waits for a flight that is over (tag.go, lines 45-52).
EveryCallReturns ==
  \A c \in Caller : (pc[c] = "load") ~> (pc[c] = "idle" /\ sent[c] # None)
================================================================================
