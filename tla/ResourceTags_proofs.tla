---------------------------- MODULE ResourceTags_proofs ------------------------
(***************************************************************************)
(* supportsField decides a kind once: for any number of callers and kinds, *)
(* and any interleaving of them.                                           *)
(***************************************************************************)
EXTENDS ResourceTags, TLAPS

Leading == {"recheck", "resolve", "finish"}

\* The kind a caller asks about.
Of(c) == object[c].kind

\* Whoever leads has the flight of its kind, so that no two lead for one kind.
LeaderFlies == \A c \in Caller : pc[c] \in Leading => flight[Of(c)] = c

\* A leader resolves only what nobody has stored.
ResolvesOnce == \A c \in Caller : pc[c] = "resolve" => cache[Of(c)] = None

\* An answer is what is stored.
AnswersAreStored ==
  /\ \A c \in Caller : pc[c] \in {"finish", "answered"} =>
       cache[Of(c)] # None /\ answer[c] = cache[Of(c)]
  /\ \A k \in Kind : \A a \in answers[k] : a = cache[k]

\* OneAnswer alone is not inductive: what is about to be answered and stored
\* has to agree with what has been.
TagsInv == TypeOK /\ LeaderFlies /\ ResolvesOnce /\ AnswersAreStored

LEMMA ObjectsExist == NoObject \in Object
  <1>1. \E o \in Object : TRUE
    <2>1. PICK k \in Kind : TRUE
      BY KindAssumption
    <2>2. [kind |-> k, form |-> "typed"] \in Object
      BY DEF Object
    <2> QED BY <2>2
  <1> QED BY <1>1 DEF NoObject

LEMMA ResolvedIsBoolean ==
  ASSUME NEW o \in Object
  PROVE  resolveFieldPath(o) \in BOOLEAN
  <1>1. (o.kind \in Tagged) \in BOOLEAN
    OBVIOUS
  <1>2. o.form \in {"typed", "kept", "mangled", "stripped"}
    BY DEF Object
  <1>3. CASE o.form = "typed"
    BY <1>1, <1>3, Zenon DEF resolveFieldPath
  <1>4. CASE o.form \in {"kept", "mangled"}
    BY <1>4 DEF resolveFieldPath
  <1>5. CASE o.form = "stripped"
    BY <1>5 DEF resolveFieldPath
  <1> QED BY <1>2, <1>3, <1>4, <1>5

LEMMA TagsInitially == Init => TagsInv
  BY ObjectsExist, StartAssumption
     DEF Init, TagsInv, TypeOK, Answer, LeaderFlies, ResolvesOnce, AnswersAreStored, Leading

\* Every step keeps the types.
LEMMA TagsTypeStep ==
  ASSUME TagsInv, NEW c \in Caller, Call(c) \/ Step(c)
  PROVE  TypeOK'
  <1> USE DEF TagsInv, TypeOK, Answer
  <1>1. CASE Call(c)
    BY <1>1 DEF Call
  <1>2. CASE Load(c)
    <2>1. object[c].kind \in Kind
      BY DEF Object
    <2>2. CASE cache[object[c].kind] = None
      BY <1>2, <2>2 DEF Load
    <2>3. CASE cache[object[c].kind] # None
      <3>1. cache[object[c].kind] \in BOOLEAN
        BY <2>1, <2>3
      <3>2. pc' = [pc EXCEPT ![c] = "answered"]
        BY <1>2, <2>3 DEF Load, Answered
      <3>3. answer' \in [Caller -> BOOLEAN \cup {None}]
        BY <1>2, <2>3, <3>1 DEF Load, Answered
      <3>4. answers' \in [Kind -> SUBSET BOOLEAN]
        BY <1>2, <2>1, <2>3, <3>1 DEF Load, Answered
      <3>5. UNCHANGED <<context, cache, flight, object>>
        BY <1>2 DEF Load
      <3> QED BY <3>2, <3>3, <3>4, <3>5
    <2> QED BY <2>2, <2>3
  <1>3. CASE Do(c)
    BY <1>3 DEF Do, Object
  <1>4. CASE Recheck(c)
    BY <1>4 DEF Recheck, Object
  <1>5. CASE Resolve(c)
    BY <1>5, ResolvedIsBoolean DEF Resolve, Object
  <1>6. CASE Finish(c)
    BY <1>6 DEF Finish, Object, AnswersAreStored
  <1>7. CASE Send(c)
    BY <1>7, ObjectsExist DEF Send
  <1> QED BY <1>1, <1>2, <1>3, <1>4, <1>5, <1>6, <1>7 DEF Step

\* What a caller other than the one that moves can have lost by it.
LEMMA TagsStep ==
  ASSUME TagsInv, NEW c \in Caller, Call(c) \/ Step(c)
  PROVE  LeaderFlies' /\ ResolvesOnce' /\ AnswersAreStored'
  <1> USE DEF TagsInv, TypeOK, LeaderFlies, ResolvesOnce, AnswersAreStored, Leading, Of
  <1>1. CASE Call(c)
    BY <1>1 DEF Call
  <1>2. CASE Load(c)
    BY <1>2 DEF Load, Answered, Object
  <1>3. CASE Do(c)
    BY <1>3, NoneAssumption DEF Do, Object
  <1>4. CASE Recheck(c)
    BY <1>4 DEF Recheck, Object
  <1>5. CASE Resolve(c)
    <2> DEFINE a == resolveFieldPath(object[c])
    <2>1. a # None
      BY ResolvedIsBoolean, NoneAssumption
    <2>2. ASSUME NEW d \in Caller, d # c, Of(d) = Of(c)
          PROVE  pc[d] \notin Leading \cup {"answered"}
      BY <1>5, <2>2 DEF Resolve
    <2>3. answers[Of(c)] = {}
      <3>1. \A x \in answers[Of(c)] : x = None
        BY <1>5 DEF Resolve, Object
      <3>2. answers[Of(c)] \subseteq BOOLEAN
        BY DEF Object
      <3> QED BY <3>1, <3>2, NoneAssumption
    <2>4. /\ pc' = [pc EXCEPT ![c] = "finish"]
          /\ answer' = [answer EXCEPT ![c] = a]
          /\ cache' = [cache EXCEPT ![Of(c)] = a]
          /\ UNCHANGED <<flight, object, answers>>
          /\ pc[c] = "resolve"
          /\ Of(c) \in Kind
      BY <1>5 DEF Resolve, Object
    <2> HIDE DEF a
    <2>5. LeaderFlies'
      BY <2>4
    <2>6. ResolvesOnce' /\ AnswersAreStored'
      BY <2>1, <2>2, <2>3, <2>4
    <2> QED BY <2>5, <2>6
  <1>6. CASE Finish(c)
    BY <1>6 DEF Finish, Flight, Object
  <1>7. CASE Send(c)
    BY <1>7 DEF Send
  <1> QED BY <1>1, <1>2, <1>3, <1>4, <1>5, <1>6, <1>7 DEF Step

LEMMA TagsInductive ==
  ASSUME TagsInv, [Next]_vars
  PROVE  TagsInv'
  <1>1. CASE UNCHANGED vars
    BY <1>1 DEF vars, TagsInv, TypeOK, LeaderFlies, ResolvesOnce, AnswersAreStored, Of
  <1>2. CASE Next
    BY <1>2, TagsTypeStep, TagsStep DEF Next, TagsInv
  <1> QED BY <1>1, <1>2

\* However the callers interleave, the state stays well typed.
THEOREM TagsTypeCorrect == Spec => []TypeOK
  <1>1. TagsInv => TypeOK
    BY DEF TagsInv
  <1>2. TagsInv /\ [Next]_vars => TagsInv'
    BY TagsInductive
  <1> QED BY <1>1, <1>2, TagsInitially, PTL DEF Spec

\* supportsField never answers for a kind what it has not answered before.
THEOREM OneAnswerPerKind == Spec => []OneAnswer
  <1>1. TagsInv => OneAnswer
    BY DEF TagsInv, AnswersAreStored, OneAnswer
  <1>2. TagsInv /\ [Next]_vars => TagsInv'
    BY TagsInductive
  <1> QED BY <1>1, <1>2, TagsInitially, PTL DEF Spec

--------------------------------------------------------------------------------
(***************************************************************************)
(* The cache and the flights implement Decision.                           *)
(***************************************************************************)

Asking == [c \in Caller |-> IF pc[c] = "idle" THEN None ELSE object[c].kind]
Told == [c \in Caller |-> IF pc[c] = "answered" THEN answer[c] ELSE None]

\* What a caller that has come to an object asks, and has been told so far.
LEMMA WhoAsks ==
  ASSUME TagsInv, NEW c \in Caller, pc[c] # "idle"
  PROVE  /\ Asking[c] = Of(c) /\ Of(c) \in Kind /\ Asking[c] # None
         /\ pc[c] # "answered" => Told[c] = None
  BY NoneAssumption DEF TagsInv, TypeOK, Object, Asking, Told, Of

LEMMA CallAsks ==
  ASSUME TagsInv, NEW c \in Caller, Call(c)
  PROVE  Promise!Ask(c)
  <1>1. PICK o \in Object : object' = [object EXCEPT ![c] = o]
    BY DEF Call
  <1>2. /\ Asking[c] = None
        /\ Asking' = [Asking EXCEPT ![c] = o.kind]
        /\ Told' = Told
    BY <1>1 DEF Call, Asking, Told, TagsInv, TypeOK
  <1>3. o.kind \in Kind /\ cache' = cache
    BY DEF Call, Object
  <1> QED BY <1>2, <1>3 DEF Promise!Ask, Asking, Told

LEMMA LoadTells ==
  ASSUME TagsInv, NEW c \in Caller, Load(c)
  PROVE  Promise!Tell({c}) \/ UNCHANGED <<cache, Asking, Told>>
  <1>1. Asking' = Asking /\ cache' = cache
    BY DEF Load, Answered, Asking, TagsInv, TypeOK
  <1>2. CASE cache[Of(c)] = None
    BY <1>1, <1>2 DEF Load, Told, Of, TagsInv, TypeOK
  <1>3. CASE cache[Of(c)] # None
    <2>1. Asking[c] = Of(c) /\ Asking[c] # None /\ Told[c] = None
      BY WhoAsks DEF Load
    <2>2. Told' = [w \in Caller |-> IF w \in {c} THEN cache[Asking[w]] ELSE Told[w]]
      BY <1>3, <2>1 DEF Load, Answered, Told, Of, TagsInv, TypeOK
    <2> QED BY <1>1, <1>3, <2>1, <2>2 DEF Promise!Tell, Asking, Told
  <1> QED BY <1>2, <1>3

LEMMA ResolveDecides ==
  ASSUME TagsInv, NEW c \in Caller, Resolve(c)
  PROVE  Of(c) \in Kind /\ Promise!Decide(Of(c))
  <1>1. Asking' = Asking /\ Told' = Told
    BY DEF Resolve, Asking, Told, TagsInv, TypeOK
  <1>2. /\ cache[Of(c)] = None
        /\ cache' = [cache EXCEPT ![Of(c)] = resolveFieldPath(object[c])]
        /\ object[c] \in Object
    BY DEF Resolve, ResolvesOnce, Of, TagsInv, TypeOK
  <1>3. Of(c) \in Kind
    BY WhoAsks DEF Resolve
  <1> QED BY <1>1, <1>2, <1>3, ResolvedIsBoolean DEF Promise!Decide, Asking, Told

LEMMA FinishTells ==
  ASSUME TagsInv, NEW c \in Caller, Finish(c)
  PROVE  \E callers \in SUBSET Caller : Promise!Tell(callers)
  <1>1. Asking' = Asking /\ cache' = cache
    BY DEF Finish, Flight, Asking, TagsInv, TypeOK
  <1>2. cache[Of(c)] # None /\ answer[c] = cache[Of(c)]
    BY DEF Finish, TagsInv, AnswersAreStored
  <1>3. ASSUME NEW w \in Flight(c)
        PROVE  /\ w \in Caller
               /\ Asking[w] = Of(c) /\ Asking[w] # None
               /\ Told[w] = None
    <2>1. w \in Caller /\ Of(w) = Of(c) /\ pc[w] \in {"wait", "finish"}
      BY DEF Finish, Flight, Of
    <2> QED BY <2>1, WhoAsks
  <1>4. Told' = [w \in Caller |-> IF w \in Flight(c) THEN cache[Asking[w]] ELSE Told[w]]
    <2>1. ASSUME NEW w \in Caller, w \in Flight(c)
          PROVE  Told'[w] = cache[Asking[w]]
      BY <1>2, <1>3, <2>1 DEF Finish, Told
    <2>2. ASSUME NEW w \in Caller, w \notin Flight(c)
          PROVE  Told'[w] = Told[w]
      BY <2>2 DEF Finish, Told
    <2>3. Told' = [w \in Caller |-> Told'[w]]
      BY DEF Told
    <2> QED BY <2>1, <2>2, <2>3
  <1>5. Flight(c) \in SUBSET Caller
    BY <1>3
  <1> DEFINE callers == Flight(c)
  <1> HIDE DEF callers
  <1>6. /\ callers \in SUBSET Caller
        /\ \A w \in callers : Asking[w] = Of(c) /\ Told[w] = None
        /\ Told' = [w \in Caller |-> IF w \in callers THEN cache[Asking[w]] ELSE Told[w]]
    BY <1>3, <1>4, <1>5 DEF callers
  <1>7. Of(c) # None
    BY WhoAsks DEF Finish
  <1>8. \E some \in SUBSET Caller :
          /\ \A w \in some : /\ Asking[w] # None
                             /\ Told[w] = None
                             /\ cache[Asking[w]] # None
          /\ Told' = [w \in Caller |-> IF w \in some THEN cache[Asking[w]] ELSE Told[w]]
          /\ UNCHANGED <<cache, Asking>>
    BY <1>1, <1>2, <1>6, <1>7
  <1> QED BY <1>8 DEF Promise!Tell, Asking, Told

LEMMA SendLeaves ==
  ASSUME TagsInv, NEW c \in Caller, Send(c)
  PROVE  Promise!Leave(c)
  <1>1. Told[c] # None
    BY DEF Send, Told, TagsInv, AnswersAreStored
  <1>2. /\ Asking' = [Asking EXCEPT ![c] = None]
        /\ Told' = [Told EXCEPT ![c] = None]
        /\ cache' = cache
    BY DEF Send, Asking, Told, TagsInv, TypeOK
  <1> QED BY <1>1, <1>2 DEF Promise!Leave, Asking, Told

\* Every step of a caller is a step of Decision, or none.
LEMMA PromiseStep ==
  ASSUME TagsInv, [Next]_vars
  PROVE  [Promise!Next]_<<cache, Asking, Told>>
  <1>1. ASSUME NEW c \in Caller, Call(c) \/ Step(c)
        PROVE  [Promise!Next]_<<cache, Asking, Told>>
    <2>1. CASE Call(c)
      BY <2>1, CallAsks DEF Promise!Next, Asking, Told
    <2>2. CASE Load(c)
      <3>1. {c} \in SUBSET Caller
        OBVIOUS
      <3>2. CASE Promise!Tell({c})
        BY <3>1, <3>2 DEF Promise!Next, Asking, Told
      <3>3. CASE UNCHANGED <<cache, Asking, Told>>
        BY <3>3
      <3> QED BY <2>2, <3>2, <3>3, LoadTells
    <2>3. CASE Do(c) \/ Recheck(c)
      BY <2>3 DEF Do, Recheck, Asking, Told, TagsInv, TypeOK
    <2>4. CASE Resolve(c)
      BY <2>4, ResolveDecides DEF Promise!Next, Asking, Told
    <2>5. CASE Finish(c)
      BY <2>5, FinishTells DEF Promise!Next, Asking, Told
    <2>6. CASE Send(c)
      BY <2>6, SendLeaves DEF Promise!Next, Asking, Told
    <2> QED BY <1>1, <2>1, <2>2, <2>3, <2>4, <2>5, <2>6 DEF Step
  <1>2. CASE UNCHANGED vars
    BY <1>2 DEF vars, Asking, Told
  <1> QED BY <1>1, <1>2 DEF Next

\* Who asks supportsField is told what has been decided for its kind, which is
\* decided once: the cache and the flights of tag.go implement Decision.
THEOREM PromiseIsKept == Spec => KeepsThePromise
  <1>1. Init => Promise!Init
    BY DEF Init, Promise!Init
  <1>2. TagsInv /\ [Next]_vars => TagsInv'
    BY TagsInductive
  <1>3. TagsInv /\ [Next]_vars => [Promise!Next]_(Promise!vars)
    BY PromiseStep DEF Promise!vars, Asking, Told
  <1> QED BY <1>1, <1>2, <1>3, TagsInitially, PTL
          DEF Spec, KeepsThePromise, Promise!Spec

--------------------------------------------------------------------------------
(***************************************************************************)
(* Where a tag comes from.                                                 *)
(***************************************************************************)

\* The tags of an object or of its Zone.
LEMMA ObjectTags ==
  ASSUME NEW c, NEW label, NEW annotation
  PROVE  LET tags == getObjectTagsLabels(c, label, annotation)
         IN /\ DOMAIN tags = c.tags[label] \cup c.tags[annotation]
            /\ \A k \in c.tags[annotation] : tags[k] = annotation
            /\ \A k \in c.tags[label] \ c.tags[annotation] : tags[k] = label
  BY DEF getObjectTagsLabels, Copied, From

\* The composite's tags, and those of its Zone under them.
LEMMA ContextTags ==
  ASSUME NEW c
  PROVE  LET tags == GetResourceTags(c)
             own == c.tags["label"] \cup c.tags["annotation"]
             ofZone == c.tags["zone_label"] \cup c.tags["zone_annotation"]
                         \cup c.tags["environment"]
         IN /\ DOMAIN tags = own \cup (IF c.zone THEN ofZone ELSE {})
            /\ \A k \in c.tags["annotation"] : tags[k] = "annotation"
            /\ \A k \in c.tags["label"] \ c.tags["annotation"] : tags[k] = "label"
            /\ \A k \in DOMAIN tags \ own :
                 /\ c.zone
                 /\ tags[k] = CASE k \in c.tags["zone_annotation"] -> "zone_annotation"
                                [] k \notin c.tags["zone_annotation"]
                                   /\ k \in c.tags["zone_label"] -> "zone_label"
                                [] OTHER -> "environment"
  <1> DEFINE own == getObjectTagsLabels(c, "label", "annotation")
             zone == getObjectTagsLabels(c, "zone_label", "zone_annotation")
             below == Copied(From(c, "environment"), zone)
  <1>1. /\ DOMAIN own = c.tags["label"] \cup c.tags["annotation"]
        /\ \A k \in c.tags["annotation"] : own[k] = "annotation"
        /\ \A k \in c.tags["label"] \ c.tags["annotation"] : own[k] = "label"
    BY ObjectTags
  <1>2. CASE ~c.zone
    BY <1>1, <1>2 DEF GetResourceTags
  <1>3. CASE c.zone
    <2>1. /\ DOMAIN zone = c.tags["zone_label"] \cup c.tags["zone_annotation"]
          /\ \A k \in c.tags["zone_annotation"] : zone[k] = "zone_annotation"
          /\ \A k \in c.tags["zone_label"] \ c.tags["zone_annotation"] :
               zone[k] = "zone_label"
      BY ObjectTags
    <2> HIDE DEF own, zone
    <2>2. /\ DOMAIN below = c.tags["environment"] \cup DOMAIN zone
          /\ \A k \in DOMAIN zone : below[k] = zone[k]
          /\ \A k \in c.tags["environment"] \ DOMAIN zone : below[k] = "environment"
      BY DEF Copied, From
    <2> HIDE DEF below
    <2>3. GetResourceTags(c) = Copied(below, own)
      BY <1>3 DEF GetResourceTags, below, zone, own
    <2>4. /\ DOMAIN Copied(below, own) = DOMAIN below \cup DOMAIN own
          /\ \A k \in DOMAIN own : Copied(below, own)[k] = own[k]
          /\ \A k \in DOMAIN below \ DOMAIN own : Copied(below, own)[k] = below[k]
      BY DEF Copied
    <2> DEFINE tags == Copied(below, own)
    <2>5. ASSUME NEW k \in DOMAIN tags \ DOMAIN own
          PROVE  tags[k] = CASE k \in c.tags["zone_annotation"] -> "zone_annotation"
                             [] k \notin c.tags["zone_annotation"]
                                /\ k \in c.tags["zone_label"] -> "zone_label"
                             [] OTHER -> "environment"
      <3>1. k \in DOMAIN below /\ tags[k] = below[k]
        BY <2>4, <2>5
      <3> HIDE DEF tags
      <3>2. CASE k \in c.tags["zone_annotation"]
        BY <2>1, <2>2, <3>1, <3>2
      <3>3. CASE k \notin c.tags["zone_annotation"] /\ k \in c.tags["zone_label"]
        BY <2>1, <2>2, <3>1, <3>3
      <3>4. CASE k \notin DOMAIN zone
        BY <2>1, <2>2, <3>1, <3>4
      <3> QED BY <2>1, <3>2, <3>3, <3>4
    <2>6. /\ DOMAIN tags = c.tags["label"] \cup c.tags["annotation"]
                             \cup c.tags["zone_label"] \cup c.tags["zone_annotation"]
                             \cup c.tags["environment"]
          /\ \A k \in DOMAIN own : tags[k] = own[k]
      BY <1>1, <2>1, <2>2, <2>4
    <2> HIDE DEF tags
    <2> QED BY <1>1, <1>3, <2>3, <2>5, <2>6 DEF tags
  <1> QED BY <1>2, <1>3

\* What injectZone puts on an object.
LEMMA InjectedTags ==
  ASSUME NEW c \in Start
  PROVE  LET tags == TagsOf[c]
             named == {k \in Key : (c.zone /\ k = ZoneTag) \/ (c.workspace /\ k = WorkspaceTag)}
         IN /\ DOMAIN tags = c.tags["generated"] \cup DOMAIN GetResourceTags(c) \cup named
            /\ c.workspace => tags[WorkspaceTag] = "workspace"
            /\ c.zone => tags[ZoneTag] = "zone"
            /\ \A k \in DOMAIN GetResourceTags(c) \ named : tags[k] = GetResourceTags(c)[k]
            /\ \A k \in DOMAIN tags \ (named \cup DOMAIN GetResourceTags(c)) :
                 tags[k] = "generated"
  <1> DEFINE given == GetResourceTags(c)
             first == Copied(From(c, "generated"), given)
             ofZone == Named(ZoneTag, c.zone, "zone")
             ofWorkspace == Named(WorkspaceTag, c.workspace, "workspace")
             second == Copied(first, ofZone)
  <1>1. c.zone \in BOOLEAN /\ c.workspace \in BOOLEAN
    BY StartAssumption DEF Context
  <1>2. /\ DOMAIN ofZone = IF c.zone THEN {ZoneTag} ELSE {}
        /\ \A x \in DOMAIN ofZone : ofZone[x] = "zone"
        /\ DOMAIN ofWorkspace = IF c.workspace THEN {WorkspaceTag} ELSE {}
        /\ \A x \in DOMAIN ofWorkspace : ofWorkspace[x] = "workspace"
    BY <1>1 DEF Named
  <1> HIDE DEF given, ofZone, ofWorkspace
  <1>3. /\ DOMAIN first = c.tags["generated"] \cup DOMAIN given
        /\ \A k \in DOMAIN given : first[k] = given[k]
        /\ \A k \in c.tags["generated"] \ DOMAIN given : first[k] = "generated"
    BY DEF Copied, From
  <1> HIDE DEF first
  <1>4. /\ DOMAIN second = DOMAIN first \cup DOMAIN ofZone
        /\ \A k \in DOMAIN ofZone : second[k] = ofZone[k]
        /\ \A k \in DOMAIN first \ DOMAIN ofZone : second[k] = first[k]
    BY DEF Copied
  <1> HIDE DEF second
  <1>5. TagsOf[c] = Copied(second, ofWorkspace)
    BY DEF TagsOf, second, ofZone, ofWorkspace, first, given
  <1>6. /\ DOMAIN Copied(second, ofWorkspace) = DOMAIN second \cup DOMAIN ofWorkspace
        /\ \A k \in DOMAIN ofWorkspace : Copied(second, ofWorkspace)[k] = ofWorkspace[k]
        /\ \A k \in DOMAIN second \ DOMAIN ofWorkspace :
             Copied(second, ofWorkspace)[k] = second[k]
    BY DEF Copied
  <1>7. DOMAIN ofZone \cup DOMAIN ofWorkspace
          = {k \in Key : (c.zone /\ k = ZoneTag) \/ (c.workspace /\ k = WorkspaceTag)}
    BY <1>2, TagsAssumption
  <1> QED BY <1>2, <1>3, <1>4, <1>5, <1>6, <1>7, TagsAssumption DEF given

\* A tag of an object has the highest of its sources.
LEMMA InjectedByPriority ==
  ASSUME NEW c \in Start
  PROVE  LET tags == TagsOf[c]
         IN /\ DOMAIN tags = {k \in Key : Giving(c, k) # {}}
            /\ \A k \in DOMAIN tags : Giving(c, k) \ {tags[k]} \subseteq Over(tags[k])
  <1> DEFINE tags == TagsOf[c]
             given == GetResourceTags(c)
             own == c.tags["label"] \cup c.tags["annotation"]
             ofZone == c.tags["zone_label"] \cup c.tags["zone_annotation"]
                         \cup c.tags["environment"]
             Claimed(k) == (c.zone /\ k = ZoneTag) \/ (c.workspace /\ k = WorkspaceTag)
  <1>1. /\ DOMAIN tags = c.tags["generated"] \cup DOMAIN given \cup {k \in Key : Claimed(k)}
        /\ c.workspace => tags[WorkspaceTag] = "workspace"
        /\ c.zone => tags[ZoneTag] = "zone"
        /\ \A k \in DOMAIN given \ {x \in Key : Claimed(x)} : tags[k] = given[k]
        /\ \A k \in DOMAIN tags \ ({x \in Key : Claimed(x)} \cup DOMAIN given) :
             tags[k] = "generated"
    BY InjectedTags
  <1>2. /\ DOMAIN given = own \cup (IF c.zone THEN ofZone ELSE {})
        /\ \A k \in c.tags["annotation"] : given[k] = "annotation"
        /\ \A k \in c.tags["label"] \ c.tags["annotation"] : given[k] = "label"
        /\ \A k \in DOMAIN given \ own :
             /\ c.zone
             /\ given[k] = CASE k \in c.tags["zone_annotation"] -> "zone_annotation"
                             [] k \notin c.tags["zone_annotation"]
                                /\ k \in c.tags["zone_label"] -> "zone_label"
                             [] OTHER -> "environment"
    BY ContextTags, StartAssumption
  <1>3. \A s \in Source : c.tags[s] \subseteq Key
    BY StartAssumption DEF Context
  <1> HIDE DEF tags, given
  <1>4. ASSUME NEW k
        PROVE  /\ "zone" \in Giving(c, k) <=> c.zone /\ k = ZoneTag
               /\ "workspace" \in Giving(c, k) <=> c.workspace /\ k = WorkspaceTag
               /\ \A s \in {"environment", "zone_label", "zone_annotation"} :
                    s \in Giving(c, k) <=> c.zone /\ k \in c.tags[s]
               /\ \A s \in {"generated", "label", "annotation"} :
                    s \in Giving(c, k) <=> k \in c.tags[s]
    BY DEF Giving, Source
  <1>5. ASSUME NEW k PROVE Giving(c, k) \subseteq Source
    BY DEF Giving
  <1>6. ASSUME NEW k \in Key
        PROVE  k \in DOMAIN tags <=> Giving(c, k) # {}
    <2>1. k \in DOMAIN tags
            <=> \/ k \in c.tags["generated"] \/ k \in own \/ (c.zone /\ k \in ofZone)
                \/ Claimed(k)
      BY <1>1, <1>2
    <2> QED BY <2>1, <1>4, <1>5 DEF Source
  <1>7. DOMAIN tags \subseteq Key
    BY <1>1, <1>2, <1>3 DEF Source
  <1>8. ASSUME NEW k \in DOMAIN tags
        PROVE  Giving(c, k) \ {tags[k]} \subseteq Over(tags[k])
    <2>1. k \in Key
      BY <1>7
    <2>2. CASE Claimed(k)
      <3>1. /\ tags[k] = "zone" \/ tags[k] = "workspace"
            /\ tags[k] = "zone" => "workspace" \notin Giving(c, k)
            /\ tags[k] = "workspace" => "zone" \notin Giving(c, k)
        BY <1>1, <1>4, <2>2, TagsAssumption
      <3> QED BY <1>5, <3>1 DEF Over, Source
    <2>3. CASE ~Claimed(k) /\ k \in c.tags["annotation"]
      <3>1. /\ tags[k] = "annotation"
            /\ {"zone", "workspace"} \cap Giving(c, k) = {}
        BY <1>1, <1>2, <1>4, <2>1, <2>3
      <3> QED BY <1>5, <3>1 DEF Over, Source
    <2>4. CASE ~Claimed(k) /\ k \in own \ c.tags["annotation"]
      <3>1. /\ tags[k] = "label"
            /\ {"zone", "workspace", "annotation"} \cap Giving(c, k) = {}
        BY <1>1, <1>2, <1>4, <2>1, <2>4
      <3> QED BY <1>5, <3>1 DEF Over, Source
    <2>5. CASE ~Claimed(k) /\ k \in DOMAIN given \ own
      <3>1. /\ {"zone", "workspace", "annotation", "label"} \cap Giving(c, k) = {}
            /\ tags[k] = given[k] /\ c.zone /\ k \in ofZone
        BY <1>1, <1>2, <1>4, <2>1, <2>5
      <3>2. CASE k \in c.tags["zone_annotation"]
        <4>1. tags[k] = "zone_annotation"
          BY <1>2, <2>5, <3>1, <3>2
        <4> QED BY <1>5, <3>1, <4>1 DEF Over, Source
      <3>3. CASE k \notin c.tags["zone_annotation"] /\ k \in c.tags["zone_label"]
        <4>1. tags[k] = "zone_label" /\ "zone_annotation" \notin Giving(c, k)
          BY <1>2, <1>4, <2>5, <3>1, <3>3
        <4> QED BY <1>5, <3>1, <4>1 DEF Over, Source
      <3>4. CASE k \notin c.tags["zone_annotation"] \cup c.tags["zone_label"]
        <4>1. /\ tags[k] = "environment"
              /\ {"zone_annotation", "zone_label"} \cap Giving(c, k) = {}
          BY <1>2, <1>4, <2>5, <3>1, <3>4
        <4> QED BY <1>5, <3>1, <4>1 DEF Over, Source
      <3> QED BY <3>2, <3>3, <3>4
    <2>6. CASE ~Claimed(k) /\ k \notin DOMAIN given
      <3>1. /\ tags[k] = "generated"
            /\ Giving(c, k) \subseteq {"generated"}
        BY <1>1, <1>2, <1>4, <1>5, <2>1, <2>6 DEF Source
      <3> QED BY <3>1
    <2> QED BY <1>2, <2>2, <2>3, <2>4, <2>5, <2>6
  <1>9. DOMAIN tags = {k \in Key : Giving(c, k) # {}}
    BY <1>6, <1>7
  <1> QED BY <1>8, <1>9 DEF tags

\* What is sent with tags has those of the context.
SentInjected == sent \in [Caller -> {None, Untagged, Fatal, TagsOf[context]}]

\* Every object that is sent has each of its tags from the highest source that
\* gives it, whatever the sources and however many (fn.go, injectZone).
THEOREM TagsHavePriority == Spec => []TagsByPriority
  <1>1. Init => SentInjected /\ context \in Start
    BY DEF Init, SentInjected
  <1>2. SentInjected /\ context \in Start /\ [Next]_vars
          => SentInjected' /\ (context \in Start)'
    <2> SUFFICES ASSUME SentInjected, context \in Start, [Next]_vars
                 PROVE  SentInjected' /\ context' \in Start
      OBVIOUS
    <2>1. context' = context
      BY DEF Next, vars, Step, Call, Load, Do, Recheck, Resolve, Finish, Send
    <2>2. \/ sent' = sent
          \/ \E c \in Caller :
               \/ sent' = [sent EXCEPT ![c] = None]
               \/ sent' = [sent EXCEPT ![c] = injectZone(context, object[c], answer[c])]
      BY DEF Next, vars, Step, Call, Load, Do, Recheck, Resolve, Finish, Send
    <2>3. TagsOf[context'] = TagsOf[context]
      BY <2>1
    <2>4. \A o, a : injectZone(context, o, a) \in {Untagged, Fatal, TagsOf[context]}
      BY DEF injectZone
    <2>5. sent' \in [Caller -> {None, Untagged, Fatal, TagsOf[context]}]
      BY <2>2, <2>4 DEF SentInjected
    <2> QED BY <2>1, <2>3, <2>5 DEF SentInjected
  <1>3. SentInjected /\ context \in Start => TagsByPriority
    BY InjectedByPriority DEF SentInjected, TagsByPriority
  <1> QED BY <1>1, <1>2, <1>3, PTL DEF Spec
================================================================================
