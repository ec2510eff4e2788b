-------------------------- MODULE Requirements_proofs --------------------------
(***************************************************************************)
(* What holds of the answers that a pass accepts, for every set of names   *)
(* and every number of calls and changes.  Both theorems follow from what  *)
(* the loop knows of a request that is not a seed: it was fetched with the *)
(* very selectors of the answer before.                                    *)
(***************************************************************************)
EXTENDS Requirements, TLAPS

\* A request that is not a seed is what the call before required: under its
\* keys, at its apiVersions, and where something was found, of its name.
RequestIsFetched ==
  previous # NotAsked =>
    /\ DOMAIN request = DOMAIN previous
    /\ \A k \in DOMAIN previous :
         /\ request[k].api = previous[k].api
         /\ k \in {"VPC", "KMSDataKey", "Zone"} =>
              request[k].content \in {None, previous[k].name}

LoopInv == RequestIsFetched /\ BareIsNeverAccepted /\ AnswerIsConsistent

\* What is delivered for selectors was fetched with them.
LEMMA DeliverFacts ==
  ASSUME NEW selectors
  PROVE  /\ DOMAIN Deliver(selectors) = DOMAIN selectors
         /\ \A k \in DOMAIN selectors :
              /\ Deliver(selectors)[k].api = selectors[k].api
              /\ k \in {"VPC", "KMSDataKey", "Zone"} =>
                   Deliver(selectors)[k].content \in {None, selectors[k].name}
BY DEF Deliver, Fetched

\* When an answer requires what its request was fetched with, everything that
\* it requires is present.
LEMMA StableIsPresent ==
  ASSUME RequestIsFetched, previous # NotAsked, Requires(request) = previous
  PROVE  requiredResourcesPresent(Requires(request), request)
BY DEF RequestIsFetched, requiredResourcesPresent

\* What is composed from such a request is of one view.
LEMMA StableIsConsistent ==
  ASSUME RequestIsFetched, previous # NotAsked, Requires(request) = previous,
         Composes(request) # Fatal
  PROVE  /\ Composes(request).vpc = Composes(request).env.vpc
         /\ Composes(request).kms \in {None, Composes(request).env.kms}
         /\ Composes(request).tags \in {None, Composes(request).zone}
<1> DEFINE given == request
<1>1. Content("VPC", given) # None
  BY DEF Composes
<1>2. "VPC" \in DOMAIN given /\ given["VPC"].content # None
  BY <1>1 DEF Content
<1>3. DOMAIN previous = Asks(given)
  BY DEF Requires
<1>4. \A k \in Asks(given) : previous[k] = SelectorOf(k, given)
  BY DEF Requires
<1>5. given["VPC"].content = given["Environment"].content.vpc
  BY <1>2, <1>3, <1>4 DEF RequestIsFetched, SelectorOf
<1>6. Content("KMSDataKey", given) \in {None, given["Environment"].content.kms}
  BY <1>3, <1>4 DEF RequestIsFetched, SelectorOf, Content
<1>7. Content("Zone", given) \in {None, given["Namespace"].content}
  BY <1>3, <1>4 DEF RequestIsFetched, SelectorOf, Content
<1> QED
  BY <1>1, <1>5, <1>6, <1>7 DEF Composes

\* Every step keeps what the loop knows.
LEMMA LoopStep ==
  ASSUME LoopInv, [Next]_vars
  PROVE  LoopInv'
<1> USE DEF LoopInv
<1>1. CASE Begin
  BY <1>1 DEF Begin, RequestIsFetched, BareIsNeverAccepted, AnswerIsConsistent
<1>2. CASE Fail
  BY <1>2 DEF Fail, End, RequestIsFetched, BareIsNeverAccepted,
              AnswerIsConsistent
<1>3. CASE Accept
  <2>1. requiredResourcesPresent(Requires(request), request)
    BY <1>3, StableIsPresent DEF Accept
  <2>2. composed' = Composes(request) /\ Composes(request) # Fatal
    BY <1>3, <2>1 DEF Accept, RunFunction
  <2>3. RequestIsFetched'
    BY <1>3 DEF Accept, End, RequestIsFetched
  <2>4. AnswerIsConsistent'
    BY <1>3, <2>2, StableIsConsistent DEF Accept, AnswerIsConsistent
  <2>5. BareIsNeverAccepted'
    BY <2>2 DEF Composes, Bare, BareIsNeverAccepted
  <2> QED
    BY <2>3, <2>4, <2>5
<1>4. CASE CallAgain
  <2>1. RequestIsFetched'
    BY <1>4, DeliverFacts DEF CallAgain, RequestIsFetched
  <2> QED
    BY <1>4, <2>1 DEF CallAgain, BareIsNeverAccepted, AnswerIsConsistent
<1>5. CASE GiveUp
  BY <1>5 DEF GiveUp, End, RequestIsFetched, BareIsNeverAccepted,
              AnswerIsConsistent
<1>6. CASE UNCHANGED pass
  BY <1>6 DEF pass, RequestIsFetched, BareIsNeverAccepted, AnswerIsConsistent
<1> QED
  BY <1>1, <1>2, <1>3, <1>4, <1>5, <1>6
     DEF Next, vars, ChangeEnvironment, MoveNamespace, CreateOrDelete, Upgrade

LEMMA LoopHolds == Spec => []LoopInv
<1>1. Init => LoopInv
  BY DEF Init, LoopInv, RequestIsFetched, BareIsNeverAccepted,
         AnswerIsConsistent, Bare, Nothing
<1>2. LoopInv /\ [Next]_vars => LoopInv'
  BY LoopStep
<1> QED
  BY <1>1, <1>2, PTL DEF Spec

\* No pass ever accepts an answer that only lists requirements: the composed
\* resources are never collected because something was not delivered
\* (fn.go, requiredResourcesPresent).
THEOREM BareAnswersAreDiscarded == Spec => []BareIsNeverAccepted
<1>1. LoopInv => BareIsNeverAccepted
  BY DEF LoopInv
<1> QED
  BY <1>1, LoopHolds, PTL

\* What is composed is composed from one view of the cluster
\* (fn.go, addRequiredResources).
THEOREM AnswersAreConsistent == Spec => []AnswerIsConsistent
<1>1. LoopInv => AnswerIsConsistent
  BY DEF LoopInv
<1> QED
  BY <1>1, LoopHolds, PTL

--------------------------------------------------------------------------------
(***************************************************************************)
(* Type correctness.  TypeOK says nothing of what is delivered, and what   *)
(* is composed is made of that.                                            *)
(***************************************************************************)

\* The names to ask for, and what is found, under a key.
NamesOf(key) ==
  CASE key = "VPC" -> Vpc
    [] key = "KMSDataKey" -> Kms
    [] key = "Zone" -> Zone
    [] OTHER -> {None}

ContentOf(key) ==
  CASE key = "Environment" -> Environment \cup {None}
    [] key = "Namespace" -> Zone \cup {None}
    [] OTHER -> NamesOf(key) \cup {None}

Selects(selectors) ==
  /\ DOMAIN selectors \subseteq Key
  /\ \A k \in DOMAIN selectors : selectors[k] \in [name : NamesOf(k), api : Release]

Holds(given) ==
  /\ DOMAIN given \subseteq Key
  /\ \A k \in DOMAIN given : given[k].content \in ContentOf(k)

TypeInv ==
  /\ cluster \in Cluster
  /\ release \in Release
  /\ calls \in 0 .. MaxCalls
  /\ Selects(recorded)
  /\ Holds(request)
  /\ previous # NotAsked =>
       Selects(previous) /\ DOMAIN request = DOMAIN previous
  /\ composed \in Answer \cup {Nothing, Bare}
  /\ gaveUp \in BOOLEAN
  /\ changes \in 0 .. MaxChanges
  /\ seen \in 0 .. changes

LEMMA SelectsIsTyped ==
  ASSUME NEW selectors, Selects(selectors)
  PROVE  AreSelectors(selectors)
<1> SUFFICES ASSUME NEW k \in DOMAIN selectors
             PROVE  /\ selectors[k] \in Selector
                    /\ k \in {"VPC", "KMSDataKey", "Zone"} <=> selectors[k].name # None
  BY DEF Selects, AreSelectors
<1>1. selectors[k] \in [name : NamesOf(k), api : Release] /\ k \in Key
  BY DEF Selects
<1>2. /\ NamesOf(k) \subseteq Vpc \cup Kms \cup Zone \cup {None}
      /\ k \in {"VPC", "KMSDataKey", "Zone"} => None \notin NamesOf(k)
      /\ k \notin {"VPC", "KMSDataKey", "Zone"} => NamesOf(k) = {None}
  BY NamesAssumption DEF NamesOf
<1> QED
  BY <1>1, <1>2 DEF Selector

LEMMA TypeInvIsStronger == TypeInv => TypeOK
<1>1. TypeInv => seen \in 0 .. MaxChanges
  BY ChangesAssumption DEF TypeInv
<1> QED
  BY <1>1, SelectsIsTyped DEF TypeInv, TypeOK, Holds

\* What a call requires of what it holds.
LEMMA RequiresSelects ==
  ASSUME Holds(request), release \in Release
  PROVE  Selects(Requires(request))
<1>1. DOMAIN Requires(request) = Asks(request) /\ Asks(request) \subseteq Key
  BY DEF Requires, Asks, Key
<1>2. ASSUME NEW k \in Asks(request)
      PROVE  SelectorOf(k, request) \in [name : NamesOf(k), api : Release]
  <2>1. CASE k \in {"VPC", "KMSDataKey"}
    <3>1. /\ "Environment" \in DOMAIN request
          /\ request["Environment"].content # None
          /\ k = "KMSDataKey" => request["Environment"].content.kms # None
      BY <1>2, <2>1 DEF Asks, Content
    <3>2. request["Environment"].content \in Environment
      BY <3>1 DEF Holds, ContentOf
    <3>3. CASE k = "VPC"
      BY <3>2, <3>3 DEF SelectorOf, NamesOf, Environment
    <3>4. CASE k = "KMSDataKey"
      BY <3>1, <3>2, <3>4 DEF SelectorOf, NamesOf, Environment, Release
    <3> QED
      BY <2>1, <3>3, <3>4
  <2>2. CASE k = "Zone"
    <3>1. /\ "Namespace" \in DOMAIN request
          /\ request["Namespace"].content # None
      BY <1>2, <2>2 DEF Asks, Content
    <3>2. request["Namespace"].content \in Zone
      BY <3>1 DEF Holds, ContentOf
    <3> QED
      BY <2>2, <3>2 DEF SelectorOf, NamesOf, Release
  <2>3. CASE k \notin {"VPC", "KMSDataKey", "Zone"}
    BY <2>3 DEF SelectorOf, NamesOf, Release
  <2> QED
    BY <2>1, <2>2, <2>3
<1> QED
  BY <1>1, <1>2 DEF Selects, Requires

LEMMA DeliverHolds ==
  ASSUME NEW selectors, Selects(selectors), cluster \in Cluster
  PROVE  Holds(Deliver(selectors)) /\ DOMAIN Deliver(selectors) = DOMAIN selectors
<1>1. DOMAIN Deliver(selectors) = DOMAIN selectors
  BY DEF Deliver
<1>2. ASSUME NEW k \in DOMAIN selectors
      PROVE  Deliver(selectors)[k].content \in ContentOf(k)
  <2>1. Deliver(selectors)[k].content = Fetched(k, selectors[k].name)
    BY DEF Deliver
  <2>2. k \in Key /\ selectors[k].name \in NamesOf(k)
    BY DEF Selects
  <2>3. cluster.env \in Environment \cup {None} /\ cluster.zone \in Zone \cup {None}
    BY DEF Cluster
  <2> QED
    BY <2>1, <2>2, <2>3 DEF Fetched, ContentOf
<1> QED
  BY <1>1, <1>2 DEF Holds, Selects

\* What is composed of what was required is an Answer.
LEMMA ComposesAnswer ==
  ASSUME TypeInv, previous # NotAsked, Requires(request) = previous
  PROVE  Composes(request) \in Answer \cup {Fatal}
<1> SUFFICES ASSUME Content("VPC", request) # None
             PROVE  [env |-> request["Environment"].content,
                     vpc |-> request["VPC"].content,
                     kms |-> Content("KMSDataKey", request),
                     zone |-> request["Namespace"].content,
                     tags |-> Content("Zone", request)] \in Answer
  BY DEF Composes
<1>1. DOMAIN request = Asks(request)
  BY DEF TypeInv, Requires
<1>2. "VPC" \in DOMAIN request /\ request["VPC"].content # None
  BY DEF Content
<1>3. /\ "Environment" \in DOMAIN request /\ "Namespace" \in DOMAIN request
      /\ request["Environment"].content # None
  BY <1>1, <1>2 DEF Asks, Content
<1>4. \A k \in DOMAIN request : request[k].content \in ContentOf(k)
  BY DEF TypeInv, Holds
<1>5. request["Environment"].content \in Environment
  BY <1>3, <1>4 DEF ContentOf
<1>6. request["VPC"].content \in Vpc
  BY <1>2, <1>4 DEF ContentOf, NamesOf
<1>7. request["Namespace"].content \in Zone \cup {None}
  BY <1>3, <1>4 DEF ContentOf
<1>8. Content("KMSDataKey", request) \in Kms \cup {None}
  BY <1>4 DEF Content, ContentOf, NamesOf
<1>9. Content("Zone", request) \in Zone \cup {None}
  BY <1>4 DEF Content, ContentOf, NamesOf
<1> QED
  BY <1>5, <1>6, <1>7, <1>8, <1>9 DEF Answer

LEMMA TypeStep ==
  ASSUME TypeInv, [Next]_vars
  PROVE  TypeInv'
<1>1. CASE Begin
  <2>1. Holds(request)'
    BY <1>1, DeliverHolds DEF Begin, TypeInv, Holds
  <2>2. Selects(recorded)'
    BY <1>1 DEF Begin, TypeInv, Selects
  <2>3. calls' \in 0 .. MaxCalls /\ seen' \in 0 .. changes'
    BY <1>1, CallsAssumption, ChangesAssumption DEF Begin, TypeInv
  <2> QED
    BY <1>1, <2>1, <2>2, <2>3, Zenon DEF Begin, TypeInv
<1>2. CASE Fail \/ GiveUp
  <2>1. Selects(recorded)' /\ Holds(request)'
    BY <1>2 DEF Fail, GiveUp, End, TypeInv, Selects, Holds
  <2>2. /\ cluster' \in Cluster /\ release' \in Release /\ calls' \in 0 .. MaxCalls
        /\ previous' = NotAsked /\ gaveUp' \in BOOLEAN
        /\ changes' \in 0 .. MaxChanges /\ seen' \in 0 .. changes'
    <3>1. /\ UNCHANGED <<cluster, release, changes, seen>>
          /\ calls' = 0 /\ previous' = NotAsked /\ gaveUp' \in BOOLEAN
      BY <1>2, Zenon DEF Fail, GiveUp, End
    <3>2. 0 \in 0 .. MaxCalls
      BY CallsAssumption
    <3> QED
      BY <3>1, <3>2, Zenon DEF TypeInv
  <2>3. composed' \in Answer \cup {Nothing, Bare}
    BY <1>2, Zenon DEF Fail, GiveUp, TypeInv
  <2> QED
    BY <2>1, <2>2, <2>3, Zenon DEF TypeInv
<1>3. CASE Accept
  <2>1. composed' \in Answer \cup {Bare}
    BY <1>3, ComposesAnswer DEF Accept, RunFunction
  <2>2. Selects(recorded)'
    BY <1>3 DEF Accept, TypeInv, Selects
  <2>3. Holds(request)'
    BY <1>3 DEF Accept, End, Holds
  <2>4. /\ cluster' \in Cluster /\ release' \in Release /\ calls' \in 0 .. MaxCalls
        /\ previous' = NotAsked /\ gaveUp' \in BOOLEAN
        /\ changes' \in 0 .. MaxChanges /\ seen' \in 0 .. changes'
    <3>1. /\ UNCHANGED <<cluster, release, changes, seen>>
          /\ calls' = 0 /\ previous' = NotAsked /\ gaveUp' \in BOOLEAN
      BY <1>3, Zenon DEF Accept, End
    <3>2. 0 \in 0 .. MaxCalls
      BY CallsAssumption
    <3> QED
      BY <3>1, <3>2, Zenon DEF TypeInv
  <2>5. composed' \in Answer \cup {Nothing, Bare}
    BY <2>1
  <2> QED
    BY <2>2, <2>3, <2>4, <2>5, Zenon DEF TypeInv
<1>4. CASE CallAgain
  <2>1. Selects(Requires(request))
    BY RequiresSelects DEF TypeInv
  <2>2. /\ Selects(previous') /\ Holds(request') /\ DOMAIN request' = DOMAIN previous'
        /\ Selects(recorded')
    BY <1>4, <2>1, DeliverHolds DEF CallAgain, TypeInv
  <2>3. calls' \in 0 .. MaxCalls
    BY <1>4, CallsAssumption DEF CallAgain, TypeInv
  <2> QED
    BY <1>4, <2>2, <2>3 DEF CallAgain, TypeInv, Selects, Holds
<1>5. ASSUME Change, cluster' \in Cluster, release' \in Release, UNCHANGED pass
      PROVE  TypeInv'
  <2>1. changes' \in 0 .. MaxChanges /\ seen' \in 0 .. changes'
    BY <1>5, ChangesAssumption DEF Change, TypeInv
  <2> QED
    BY <1>5, <2>1 DEF pass, TypeInv, Selects, Holds
<1>6. CASE ChangeEnvironment
  BY <1>6, <1>5 DEF ChangeEnvironment, TypeInv, Cluster
<1>7. CASE MoveNamespace
  BY <1>7, <1>5 DEF MoveNamespace, TypeInv, Cluster
<1>8. CASE CreateOrDelete
  <2>1. PICK x \in Vpc \cup Kms \cup Zone :
          cluster' = [cluster EXCEPT !.exist =
                        IF x \in cluster.exist THEN @ \ {x} ELSE @ \cup {x}]
    BY <1>8 DEF CreateOrDelete
  <2>2. cluster' \in Cluster
    BY <2>1 DEF TypeInv, Cluster
  <2> QED
    BY <1>8, <1>5, <2>2 DEF CreateOrDelete, TypeInv
<1>9. CASE Upgrade
  BY <1>9, <1>5 DEF Upgrade, TypeInv, Release
<1>10. CASE UNCHANGED vars
  BY <1>10 DEF vars, pass, TypeInv, Selects, Holds
<1> QED
  BY <1>1, <1>2, <1>3, <1>4, <1>6, <1>7, <1>8, <1>9, <1>10 DEF Next

LEMMA TypeHolds == Spec => []TypeInv
<1>1. Init => TypeInv
  <2> SUFFICES ASSUME Init
               PROVE  TypeInv
    OBVIOUS
  <2>1. Selects(recorded) /\ Holds(request)
    BY DEF Init, Selects, Holds
  <2>2. calls \in 0 .. MaxCalls /\ changes \in 0 .. MaxChanges /\ seen \in 0 .. changes
    BY CallsAssumption, ChangesAssumption DEF Init
  <2>3. release \in Release
    BY DEF Init, Release
  <2> QED
    BY <2>1, <2>2, <2>3, Zenon DEF Init, TypeInv
<1>2. TypeInv /\ [Next]_vars => TypeInv'
  BY TypeStep
<1> QED
  BY <1>1, <1>2, PTL DEF Spec

\* The loop stays well typed; in particular what it requires of the VPC, the
\* key and the Zone has a name, whatever is missing (fn.go,
\* addRequiredResources).
THEOREM RequirementsTypeCorrect == Spec => []TypeOK
<1> QED
  BY TypeHolds, TypeInvIsStronger, PTL

--------------------------------------------------------------------------------
(***************************************************************************)
(* When a pass gives up.  The bound on the changes is a bound on the calls *)
(* so far, and it is spent by what a change leaves behind: a request that  *)
(* is out of date, or an answer that is.                                   *)
(***************************************************************************)

\* The request was fetched from an Environment or a Namespace that changed.
Outdated ==
  IF /\ Content("Environment", request) = cluster.env
     /\ Content("Namespace", request) = cluster.zone
    THEN 0 ELSE 1

\* The answer to it requires something else than the one before.
Unstable == IF Requires(request) = previous THEN 0 ELSE 1

ChangesInv ==
  /\ calls = 2 => seen >= Outdated
  /\ calls >= 3 => seen + 3 >= calls + Outdated + Unstable
  /\ GivesUpOnlyAmidChanges

\* What is required depends on the Environment and the Namespace alone.
LEMMA RequiresOfBoth ==
  ASSUME NEW a, NEW b,
         Content("Environment", a) = Content("Environment", b),
         Content("Namespace", a) = Content("Namespace", b)
  PROVE  Requires(a) = Requires(b)
<1>1. Asks(a) = Asks(b)
  BY DEF Asks
<1>2. ASSUME NEW k \in Asks(a)
      PROVE  SelectorOf(k, a) = SelectorOf(k, b)
  <2>1. k \in {"VPC", "KMSDataKey"} =>
          a["Environment"].content = b["Environment"].content
    BY <1>2 DEF Asks, Content
  <2>2. k = "Zone" => a["Namespace"].content = b["Namespace"].content
    BY <1>2 DEF Asks, Content
  <2> QED
    BY <2>1, <2>2 DEF SelectorOf
<1> QED
  BY <1>1, <1>2 DEF Requires

\* A call is made with what the cluster is then.  If the answer to it requires
\* something else than the answer that made it, that one was out of date.
LEMMA CallIsUpToDate ==
  ASSUME TypeInv, CallAgain
  PROVE  Outdated' = 0 /\ Unstable' <= Outdated
<1>1. {"Environment", "Namespace"} \subseteq DOMAIN Requires(request)
  BY DEF Requires, Asks
<1>2. /\ Content("Environment", request') = cluster.env
      /\ Content("Namespace", request') = cluster.zone
  BY <1>1 DEF CallAgain, Deliver, Fetched, Content
<1>3. Outdated' = 0
  BY <1>2 DEF CallAgain, Outdated, Content
<1>4. CASE Outdated = 0
  <2>1. Requires(request) = [k \in Asks(request') |-> SelectorOf(k, request')]
    BY <1>2, <1>4, RequiresOfBoth DEF Outdated, Requires
  <2>2. Requires(request)' = previous'
    BY <2>1 DEF CallAgain, Requires, Asks, SelectorOf, Content
  <2> QED
    BY <1>3, <1>4, <2>2 DEF Unstable
<1>5. CASE Outdated = 1
  BY <1>3, <1>5 DEF Unstable
<1> QED
  BY <1>4, <1>5 DEF Outdated

\* A change leaves one of the two behind, not both.
LEMMA ChangeLeavesOne ==
  ASSUME TypeInv, Change, UNCHANGED pass, UNCHANGED cluster \/ UNCHANGED release
  PROVE  Outdated' + Unstable' <= Outdated + Unstable + 1
<1>1. {Outdated, Outdated', Unstable, Unstable'} \subseteq {0, 1}
  BY DEF Outdated, Unstable
<1>2. UNCHANGED cluster => Outdated' = Outdated
  BY DEF pass, Outdated, Content
<1>3. UNCHANGED release => Unstable' = Unstable
  BY DEF pass, Unstable, Requires, Asks, SelectorOf, Content
<1> QED
  BY <1>1, <1>2, <1>3

\* The sums of the next lemma: a call spends what the last change left.
LEMMA CallSpends ==
  ASSUME NEW s \in Nat, NEW c \in Nat, NEW o \in 0 .. 1,
         NEW p \in 0 .. 1, NEW v \in 0 .. 1, p = 0, v <= o, c >= 1,
         c = 2 => s >= o,
         c >= 3 => s + 3 >= c + o + 1
  PROVE  c + 1 >= 3 => s + 3 >= (c + 1) + p + v
OBVIOUS

\* A change pays for what it leaves.
LEMMA ChangePays ==
  ASSUME NEW s \in Nat, NEW c \in Nat, NEW o \in 0 .. 1, NEW u \in 0 .. 1,
         NEW p \in 0 .. 1, NEW v \in 0 .. 1, p + v <= o + u + 1,
         c >= 3 => s + 3 >= c + o + u
  PROVE  c >= 3 => (s + 1) + 3 >= c + p + v
OBVIOUS

LEMMA ChangesStep ==
  ASSUME TypeInv, ChangesInv, [Next]_vars
  PROVE  ChangesInv'
<1>1. /\ calls \in Nat /\ seen \in Nat /\ MaxCalls \in Nat /\ MaxCalls >= 3
      /\ Outdated \in 0 .. 1 /\ Unstable \in 0 .. 1
      /\ Outdated' \in 0 .. 1 /\ Unstable' \in 0 .. 1
      /\ gaveUp \in BOOLEAN
  BY CallsAssumption, ChangesAssumption DEF TypeInv, Outdated, Unstable
<1>2. CASE Begin
  BY <1>2 DEF Begin, ChangesInv, GivesUpOnlyAmidChanges
<1>3. CASE Fail \/ Accept
  BY <1>3 DEF Fail, Accept, End, ChangesInv, GivesUpOnlyAmidChanges
<1>4. CASE CallAgain
  <2>1. calls \in 1 .. MaxCalls - 1 /\ calls' = calls + 1 /\ seen' = seen /\ gaveUp' = gaveUp
    BY <1>4 DEF CallAgain
  <2>2. Unstable = 1
    BY <1>4 DEF CallAgain, Unstable
  <2>3. Outdated' = 0 /\ Unstable' <= Outdated
    BY <1>4, CallIsUpToDate
  <2> QED
    <3>1. calls' = 2 => seen' >= Outdated'
      BY <1>1, <2>1, <2>3
    <3>2. calls' >= 3 => seen' + 3 >= calls' + Outdated' + Unstable'
      <4>1. calls >= 3 => seen + 3 >= calls + Outdated + 1
        BY <2>2 DEF ChangesInv
      <4>2. calls + 1 >= 3 => seen + 3 >= (calls + 1) + Outdated' + Unstable'
        <5>1. calls >= 1 /\ (calls = 2 => seen >= Outdated)
          BY <1>1, <2>1 DEF ChangesInv
        <5>2. Outdated' = 0 /\ Unstable' <= Outdated
          BY <2>3
        <5>3. /\ seen \in Nat /\ calls \in Nat /\ Outdated \in 0 .. 1
              /\ Outdated' \in 0 .. 1 /\ Unstable' \in 0 .. 1
          BY <1>1
        <5> QED
          BY <4>1, <5>1, <5>2, <5>3, CallSpends
      <4> QED
        BY <2>1, <4>2, Zenon
    <3> QED
      BY <2>1, <3>1, <3>2, Zenon DEF ChangesInv, GivesUpOnlyAmidChanges
<1>5. CASE GiveUp
  <2>1. Unstable = 1 /\ calls = MaxCalls /\ seen' = seen /\ calls' = 0
    BY <1>5 DEF GiveUp, End, Unstable
  <2>2. seen >= MaxCalls - 2
    BY <1>1, <2>1 DEF ChangesInv
  <2> QED
    BY <1>1, <2>1, <2>2 DEF ChangesInv, GivesUpOnlyAmidChanges
<1>6. ASSUME Change, UNCHANGED pass, UNCHANGED cluster \/ UNCHANGED release
      PROVE  ChangesInv'
  <2>1. calls' = calls /\ gaveUp' = gaveUp /\ seen' = IF calls = 0 THEN seen ELSE seen + 1
    BY <1>6 DEF Change, pass
  <2>2. Outdated' + Unstable' <= Outdated + Unstable + 1
    BY <1>6, ChangeLeavesOne
  <2> QED
    <3>1. calls' = 2 => seen' >= Outdated'
      BY <1>1, <2>1
    <3>2. calls' >= 3 => seen' + 3 >= calls' + Outdated' + Unstable'
      <4>1. CASE calls = 0
        BY <2>1, <4>1
      <4>2. CASE calls # 0
        <5>1. calls >= 3 => (seen + 1) + 3 >= calls + Outdated' + Unstable'
          BY <1>1, <2>2, ChangePays DEF ChangesInv
        <5>2. calls' = calls /\ seen' = seen + 1
          BY <2>1, <4>2
        <5> QED
          BY <5>1, <5>2, Zenon
      <4> QED
        BY <4>1, <4>2
    <3>3. GivesUpOnlyAmidChanges'
      BY <1>1, <2>1 DEF ChangesInv, GivesUpOnlyAmidChanges
    <3> QED
      BY <3>1, <3>2, <3>3, Zenon DEF ChangesInv
<1>7. CASE UNCHANGED vars
  <2>1. UNCHANGED <<Outdated, Unstable, calls, seen, gaveUp>>
    BY <1>7 DEF vars, pass, Outdated, Unstable, Requires, Asks, SelectorOf, Content
  <2> QED
    BY <2>1 DEF ChangesInv, GivesUpOnlyAmidChanges
<1> QED
  BY <1>2, <1>3, <1>4, <1>5, <1>6, <1>7
     DEF Next, ChangeEnvironment, MoveNamespace, CreateOrDelete, Upgrade

\* However many calls a pass may make, it gives up only if the cluster and the
\* function changed in it as often as it has calls to spare (fn.go,
\* addRequiredResources: nothing is asked for that depends on more than the
\* Environment and the Namespace).
THEOREM PassesStabilize == Spec => []GivesUpOnlyAmidChanges
<1>1. Init => ChangesInv
  BY DEF Init, ChangesInv, GivesUpOnlyAmidChanges
<1>2. TypeInv /\ ChangesInv /\ [Next]_vars => ChangesInv'
  BY ChangesStep
<1>3. ChangesInv => GivesUpOnlyAmidChanges
  BY DEF ChangesInv
<1> QED
  BY <1>1, <1>2, <1>3, TypeHolds, PTL DEF Spec
================================================================================
