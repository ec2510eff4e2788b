--------------------------- MODULE Composition_proofs --------------------------
(***************************************************************************)
(* Theorems about Composition, for every kind: for any names, handler,     *)
(* sequence, readiness and providers.                                      *)
(***************************************************************************)
EXTENDS Composition, TLAPS

\* What addDesiredComposedResources returns: some of what was generated, with
\* the generated manifests, and all of it that exists already.
LEMMA SequencedFacts ==
  ASSUME NEW steps, NEW generated, NEW observed
  PROVE  LET desired == Sequenced(steps, generated, observed)
         IN /\ DOMAIN desired \subseteq DOMAIN generated
            /\ DOMAIN generated \cap DOMAIN observed \subseteq DOMAIN desired
            /\ \A n \in DOMAIN desired : desired[n] = generated[n]
  BY DEF Sequenced

\* A map restricted to some of its names is a map.
LEMMA SequencedIsMap ==
  ASSUME NEW steps, NEW generated, NEW observed, NEW Value,
         IsMap(generated, Value)
  PROVE  IsMap(Sequenced(steps, generated, observed), Value)
  <1> DEFINE desired == Sequenced(steps, generated, observed)
  <1>1. desired \in [DOMAIN desired -> Value]
    <2>1. desired = [n \in DOMAIN desired |-> generated[n]]
      BY DEF Sequenced
    <2>2. \A n \in DOMAIN desired : generated[n] \in Value
      BY SequencedFacts DEF IsMap
    <2> HIDE DEF desired
    <2> QED BY <2>1, <2>2
  <1>2. DOMAIN desired \subseteq Name
    BY SequencedFacts DEF IsMap
  <1> QED BY <1>1, <1>2 DEF IsMap

--------------------------------------------------------------------------------
(***************************************************************************)
(* Type correctness.                                                       *)
(***************************************************************************)

LEMMA NoNamesIsMap ==
  ASSUME NEW Value
  PROVE  IsMap(NoNames, Value)
  BY DEF NoNames, IsMap

\* The passes, as TypeOK has them.
RunOK(r) ==
  /\ r \in [observed : {r.observed}, generated : {r.generated},
            desired : {r.desired}, steps : {r.steps}, todo : SUBSET Name]
  /\ IsMap(r.observed, Resource)
  /\ IsMap(r.generated, Manifest)
  /\ IsMap(r.desired, Manifest)

LEMMA NoRunOK == RunOK(NoRun)
  BY NoNamesIsMap DEF RunOK, NoRun

LEMMA PassOnOK ==
  ASSUME HandlerTypes, NEW c \in Composite, NEW observed,
         IsMap(observed, Resource)
  PROVE  RunOK(PassOn(c, observed))
  <1> DEFINE generated == Generate(c, observed)
             steps == Sequence(c)
             desired == Sequenced(steps, generated, observed)
             collected == {n \in DOMAIN observed \ DOMAIN desired :
                             ~observed[n].deleting}
             applied == {n \in DOMAIN desired :
                           n \in DOMAIN observed =>
                             \/ observed[n].manifest # desired[n]
                             \/ observed[n].deleting}
             pass == [observed |-> observed, generated |-> generated,
                      desired |-> desired, steps |-> steps,
                      todo |-> collected \cup applied]
  <1>1. PassOn(c, observed) =
          IF generated = Fatal \/ collected \cup applied = {} THEN NoRun ELSE pass
    BY DEF PassOn
  <1>2. CASE generated = Fatal \/ collected \cup applied = {}
    BY <1>1, <1>2, NoRunOK
  <1>3. CASE ~(generated = Fatal \/ collected \cup applied = {})
    <2>1. IsMap(generated, Manifest)
      BY <1>3 DEF HandlerTypes
    <2>2. IsMap(desired, Manifest)
      BY <2>1, SequencedIsMap
    <2>3. collected \cup applied \subseteq Name
      BY <2>2 DEF IsMap
    <2> HIDE DEF generated, steps, desired, collected, applied
    <2>4. RunOK(pass)
      BY <2>1, <2>2, <2>3 DEF RunOK
    <2> QED BY <1>1, <1>3, <2>4
  <1> QED BY <1>2, <1>3

LEMMA CalledOK ==
  ASSUME NEW n, RunOK(run)
  PROVE  RunOK(Called(n))
  BY NoRunOK DEF Called, RunOK

\* Changing one resource of a map leaves a map.
LEMMA WorldIsMap ==
  ASSUME NEW w, IsMap(w, Resource), NEW n \in Name, NEW r \in Resource
  PROVE  IsMap([w EXCEPT ![n] = r], Resource)
  BY DEF IsMap

LEMMA WasReadyOK ==
  ASSUME NEW w, IsMap(w, Resource), wasReady \subseteq Name, SetWorld(w)
  PROVE  IsMap(world', Resource) /\ wasReady' \subseteq Name
  BY DEF SetWorld, Ready, IsMap

\* Every step keeps the types.
LEMMA TypeStep ==
  ASSUME HandlerTypes, TypeOK, [Next]_vars
  PROVE  TypeOK'
  <1> USE DEF HandlerTypes
  <1>1. RunOK(run) /\ IsMap(world, Resource) /\ wasReady \subseteq Name
    BY DEF TypeOK, RunOK
  <1>2. CASE Reconcile
    <2>1. RunOK(run')
      BY <1>2, <1>1, PassOnOK DEF Reconcile, TypeOK
    <2> QED BY <1>2, <2>1 DEF Reconcile, TypeOK, RunOK
  <1>3. ASSUME NEW n \in Name, GarbageCollect(n)
        PROVE  TypeOK'
    <2>1. RunOK(run')
      BY <1>3, <1>1, CalledOK DEF GarbageCollect
    <2>2. CASE n \in DOMAIN world
      <3>1. [world[n] EXCEPT !.deleting = TRUE] \in Resource
        BY <2>2, <1>1 DEF IsMap, Resource
      <3>2. [world EXCEPT ![n].deleting = TRUE]
              = [world EXCEPT ![n] = [world[n] EXCEPT !.deleting = TRUE]]
        OBVIOUS
      <3>3. SetWorld([world EXCEPT ![n].deleting = TRUE])
        BY <1>3, <2>2 DEF GarbageCollect
      <3>4. IsMap([world EXCEPT ![n].deleting = TRUE], Resource)
        BY <3>1, <3>2, <1>1, WorldIsMap
      <3> QED BY <1>3, <2>1, <1>1, <3>3, <3>4, WasReadyOK
              DEF GarbageCollect, TypeOK, RunOK
    <2>3. CASE n \notin DOMAIN world
      <3>1. SetWorld(world)
        BY <1>3, <2>3 DEF GarbageCollect
      <3> QED BY <1>3, <2>1, <1>1, <3>1, WasReadyOK
              DEF GarbageCollect, TypeOK, RunOK
    <2> QED BY <2>2, <2>3
  <1>4. ASSUME NEW n \in Name, Apply(n)
        PROVE  TypeOK'
    <2>1. RunOK(run')
      BY <1>4, <1>1, CalledOK DEF Apply
    <2>2. run.desired[n] \in Manifest
      BY <1>4, <1>1 DEF Apply, RunOK, IsMap
    <2> DEFINE created == [manifest |-> run.desired[n], status |-> NewStatus,
                           deleting |-> FALSE]
               updated == [world[n] EXCEPT !.manifest = run.desired[n]]
               applied == [m \in DOMAIN world \cup {n} |->
                             CASE m # n -> world[m]
                               [] m = n /\ n \in DOMAIN world -> updated
                               [] OTHER -> created]
               r == IF n \in DOMAIN world THEN updated ELSE created
    <2>3. r \in Resource
      BY <2>2, <1>1, StatusAssumption DEF IsMap, Resource
    <2>4. applied = [m \in DOMAIN world \cup {n} |-> IF m = n THEN r ELSE world[m]]
      OBVIOUS
    <2>5. SetWorld(applied)
      BY <1>4 DEF Apply
    <2> HIDE DEF applied, r
    <2>6. IsMap(applied, Resource)
      <3>1. IsMap([m \in DOMAIN world \cup {n} |-> IF m = n THEN r ELSE world[m]],
                  Resource)
        BY <2>3, <1>1 DEF IsMap
      <3> QED BY <3>1, <2>4
    <2>7. IsMap(world', Resource) /\ wasReady' \subseteq Name
      BY <2>5, <2>6, <1>1, WasReadyOK
    <2> QED BY <1>4, <2>1, <2>7 DEF Apply, TypeOK, RunOK
  <1>5. ASSUME NEW n \in Name, n \in DOMAIN world, NEW s \in Status,
               SetWorld([world EXCEPT ![n].status = s])
        PROVE  IsMap(world', Resource) /\ wasReady' \subseteq Name
    <2>1. [world[n] EXCEPT !.status = s] \in Resource
      BY <1>5, <1>1 DEF IsMap, Resource
    <2>2. [world EXCEPT ![n].status = s]
            = [world EXCEPT ![n] = [world[n] EXCEPT !.status = s]]
      OBVIOUS
    <2>3. IsMap([world EXCEPT ![n].status = s], Resource)
      BY <2>1, <2>2, <1>1, WorldIsMap
    <2> QED BY <1>5, <2>3, <1>1, WasReadyOK
  <1>6. ASSUME NEW n \in Name, Report(n)
        PROVE  TypeOK'
    BY <1>6, <1>5, <1>1 DEF Report, TypeOK
  <1>7. ASSUME NEW n \in Name, Degrade(n)
        PROVE  TypeOK'
    BY <1>7, <1>5, <1>1, BoundAssumption DEF Degrade, Disrupt, TypeOK
  <1>8. ASSUME NEW n \in Name, Remove(n)
        PROVE  TypeOK'
    <2>1. IsMap([m \in DOMAIN world \ {n} |-> world[m]], Resource)
      BY <1>1 DEF IsMap
    <2> QED BY <1>8, <2>1, <1>1, WasReadyOK DEF Remove, TypeOK
  <1>9. ASSUME NEW n \in Name, Lose(n)
        PROVE  TypeOK'
    <2>1. [world[n] EXCEPT !.deleting = TRUE] \in Resource
      BY <1>9, <1>1 DEF Lose, IsMap, Resource
    <2>2. [world EXCEPT ![n].deleting = TRUE]
            = [world EXCEPT ![n] = [world[n] EXCEPT !.deleting = TRUE]]
      OBVIOUS
    <2>3. IsMap([world EXCEPT ![n].deleting = TRUE], Resource)
      BY <2>1, <2>2, <1>1, WorldIsMap
    <2>4. IsMap(world', Resource) /\ wasReady' \subseteq Name
      BY <1>9, <2>3, <1>1, WasReadyOK DEF Lose
    <2> QED BY <1>9, <2>4, BoundAssumption DEF Lose, Disrupt, TypeOK
  <1>10. CASE Edit
    BY <1>10, BoundAssumption DEF Edit, Disrupt, TypeOK
  <1>11. CASE Abort
    BY <1>11, NoRunOK, BoundAssumption DEF Abort, Disrupt, TypeOK, RunOK
  <1>12. CASE UNCHANGED vars
    BY <1>12 DEF vars, TypeOK
  <1> QED BY <1>2, <1>3, <1>4, <1>6, <1>7, <1>8, <1>9, <1>10, <1>11, <1>12 DEF Next

\* Whatever the kind, the controller's state stays well typed.
THEOREM TypeCorrect ==
  ASSUME HandlerTypes
  PROVE  Spec => []TypeOK
  <1>1. Init => TypeOK
    BY NoRunOK, NoNamesIsMap, StartAssumption, BoundAssumption
       DEF Init, TypeOK, RunOK
  <1>2. TypeOK /\ [Next]_vars => TypeOK'
    BY TypeStep
  <1> QED BY <1>1, <1>2, PTL DEF Spec

--------------------------------------------------------------------------------
(***************************************************************************)
(* Safety of the sequence.  PreviousStepWasReady is not inductive: it      *)
(* holds of a pass because what its reading saw ready is in the history,   *)
(* which is the strengthening.                                             *)
(***************************************************************************)

HasFields(r) ==
  r = [observed |-> r.observed, generated |-> r.generated,
       desired |-> r.desired, steps |-> r.steps, todo |-> r.todo]

\* A call leaves what its pass read and asks for, and is done with n.
LEMMA CalledFields ==
  ASSUME NEW n, HasFields(run)
  PROVE  \/ Called(n) = NoRun
         \/ /\ HasFields(Called(n))
            /\ Called(n).observed = run.observed
            /\ Called(n).generated = run.generated
            /\ Called(n).desired = run.desired
            /\ Called(n).todo = run.todo \ {n}
  BY DEF Called, HasFields

\* What a pass goes by: its reading, and the answer on it.
LEMMA PassOnFacts ==
  ASSUME NEW c, NEW observed
  PROVE  LET r == PassOn(c, observed)
         IN /\ HasFields(r)
            /\ \/ r = NoRun
               \/ /\ Generate(c, observed) # Fatal
                  /\ r.observed = observed
                  /\ r.generated = Generate(c, observed)
                  /\ r.desired = Sequenced(Sequence(c), r.generated, observed)
                  /\ r.todo \ DOMAIN r.desired
                       = {n \in DOMAIN observed \ DOMAIN r.desired : ~observed[n].deleting}
  <1> DEFINE r == PassOn(c, observed)
  <1>1. CASE r = NoRun
    BY <1>1 DEF NoRun, NoNames, HasFields
  <1>2. CASE r # NoRun
    BY <1>2 DEF PassOn, HasFields
  <1> QED BY <1>1, <1>2

SequenceInv ==
  /\ HasFields(run)
  /\ Ready(world) \subseteq wasReady
  /\ PreviousStepWasReady

\* The gate that PreviousStepWasReady asks of the creations of a pass r.
GateWasOpen(r, ready) ==
  \A n \in DOMAIN r.desired \ DOMAIN r.observed :
    (\E i \in DOMAIN r.steps : n \in r.steps[i]) =>
      \E i \in DOMAIN r.steps :
        /\ n \in r.steps[i]
        /\ \/ i = 1
           \/ r.steps[i - 1] \cap DOMAIN r.generated \subseteq ready

LEMMA NoRunGate ==
  ASSUME NEW ready
  PROVE  HasFields(NoRun) /\ GateWasOpen(NoRun, ready)
  BY DEF NoRun, NoNames, HasFields, GateWasOpen

\* The gate of a new pass was open for what it creates.
LEMMA PassOnGate ==
  ASSUME NEW c, NEW observed, NEW ready, Ready(observed) \subseteq ready
  PROVE  /\ HasFields(PassOn(c, observed))
         /\ GateWasOpen(PassOn(c, observed), ready)
  <1> DEFINE generated == Generate(c, observed)
             steps == Sequence(c)
             desired == Sequenced(steps, generated, observed)
             r == PassOn(c, observed)
  <1>1. CASE r = NoRun
    BY <1>1, NoRunGate
  <1>2. CASE r # NoRun
    <2>1. /\ r.observed = observed /\ r.generated = generated
          /\ r.desired = desired /\ r.steps = steps /\ HasFields(r)
      BY <1>2 DEF PassOn, HasFields
    <2>2. ASSUME NEW n \in DOMAIN desired, n \notin DOMAIN observed,
                 NEW j \in DOMAIN steps, n \in steps[j]
          PROVE  \E i \in DOMAIN steps :
                   n \in steps[i] /\ GateOpen(steps, i, generated, observed)
      BY <2>2 DEF Sequenced
    <2>3. ASSUME NEW i \in DOMAIN steps, i # 1,
                 GateOpen(steps, i, generated, observed)
          PROVE  steps[i - 1] \cap DOMAIN generated \subseteq ready
      BY <2>3 DEF GateOpen, StepReady, ReadyIn, Ready
    <2> HIDE DEF generated, steps, desired, r
    <2>4. GateWasOpen(r, ready)
      BY <2>1, <2>2, <2>3 DEF GateWasOpen
    <2> QED BY <2>1, <2>4 DEF r
  <1> QED BY <1>1, <1>2

\* A call keeps what its pass creates and the steps it goes by.
LEMMA CalledGate ==
  ASSUME NEW n, NEW ready, HasFields(run), GateWasOpen(run, ready)
  PROVE  HasFields(Called(n)) /\ GateWasOpen(Called(n), ready)
  <1>1. CASE run.todo = {n}
    BY <1>1, NoRunGate DEF Called
  <1>2. CASE run.todo # {n}
    <2> DEFINE r == [run EXCEPT !.todo = @ \ {n}]
    <2>1. /\ r.observed = run.observed /\ r.generated = run.generated
          /\ r.desired = run.desired /\ r.steps = run.steps /\ HasFields(r)
      BY DEF HasFields
    <2>2. Called(n) = r
      BY <1>2 DEF Called
    <2> HIDE DEF r
    <2> QED BY <2>1, <2>2 DEF GateWasOpen
  <1> QED BY <1>1, <1>2

LEMMA GateIsMonotonic ==
  ASSUME NEW r, NEW before, NEW after, before \subseteq after,
         GateWasOpen(r, before)
  PROVE  GateWasOpen(r, after)
  BY DEF GateWasOpen

LEMMA SequenceStep ==
  ASSUME SequenceInv, [Next]_vars
  PROVE  SequenceInv'
  <1>1. HasFields(run) /\ GateWasOpen(run, wasReady)
    BY DEF SequenceInv, PreviousStepWasReady, Creating, GateWasOpen
  <1>2. SUFFICES /\ HasFields(run')
                 /\ Ready(world') \subseteq wasReady'
                 /\ GateWasOpen(run', wasReady')
    BY DEF SequenceInv, PreviousStepWasReady, Creating, GateWasOpen, Ready,
           HasFields
  <1>3. /\ wasReady \subseteq wasReady'
        /\ Ready(world') \subseteq wasReady'
    <2>1. ASSUME NEW w, SetWorld(w)
          PROVE  wasReady \subseteq wasReady' /\ Ready(world') \subseteq wasReady'
      BY <2>1 DEF SetWorld
    <2>2. \/ \E w : SetWorld(w)
          \/ UNCHANGED <<world, wasReady>>
      BY DEF Next, vars, Reconcile, GarbageCollect, Apply, Report, Remove, Edit,
             Degrade, Lose, Abort
    <2> QED BY <2>1, <2>2 DEF SequenceInv
  <1>4. HasFields(run') /\ GateWasOpen(run', wasReady)
    <2>1. CASE Reconcile
      BY <2>1, PassOnGate DEF Reconcile, SequenceInv
    <2>2. ASSUME NEW n, run' = Called(n)
          PROVE  HasFields(run') /\ GateWasOpen(run', wasReady)
      BY <1>1, <2>2, CalledGate
    <2>3. CASE Abort
      BY <2>3, NoRunGate DEF Abort
    <2>4. CASE UNCHANGED run
      BY <1>1, <2>4
    <2>5. \/ Reconcile \/ Abort \/ UNCHANGED run
          \/ \E n \in Name : run' = Called(n)
      BY DEF Next, vars, GarbageCollect, Apply, Report, Remove, Edit, Degrade,
             Lose
    <2> QED BY <2>1, <2>2, <2>3, <2>4, <2>5
  <1> QED BY <1>3, <1>4, GateIsMonotonic

\* Whatever the kind and its sequence, and however the world moves under a
\* pass, what the function generated for the step before has been ready
\* before a resource of a step is created.
THEOREM SequenceIsRespected == Spec => []PreviousStepWasReady
  <1>1. Init => SequenceInv
    BY NoRunGate DEF Init, SequenceInv, PreviousStepWasReady, Creating,
       GateWasOpen, Ready, NoNames
  <1>2. SequenceInv /\ [Next]_vars => SequenceInv'
    BY SequenceStep
  <1>3. SequenceInv => PreviousStepWasReady
    BY DEF SequenceInv
  <1> QED BY <1>1, <1>2, <1>3, PTL DEF Spec

--------------------------------------------------------------------------------
(***************************************************************************)
(* What a step can do to the pass and to a composed resource.              *)
(***************************************************************************)

\* A pass is replaced by Reconcile only; otherwise it is over or goes on with
\* less to do.
LEMMA RunChange ==
  ASSUME HasFields(run), [Next]_vars
  PROVE  \/ Reconcile
         \/ run' = NoRun
         \/ /\ HasFields(run')
            /\ run'.observed = run.observed
            /\ run'.generated = run.generated
            /\ run'.desired = run.desired
            /\ run'.todo \subseteq run.todo
  <1>1. \/ Reconcile \/ Abort \/ UNCHANGED run
        \/ \E n \in Name : run' = Called(n)
    BY DEF Next, vars, GarbageCollect, Apply, Report, Remove, Edit, Degrade, Lose
  <1>2. CASE Abort
    BY <1>2 DEF Abort
  <1>3. CASE UNCHANGED run
    BY <1>3 DEF HasFields
  <1>4. ASSUME NEW n \in Name, run' = Called(n)
        PROVE  \/ run' = NoRun
               \/ /\ HasFields(run')
                  /\ run'.observed = run.observed
                  /\ run'.generated = run.generated
                  /\ run'.desired = run.desired
                  /\ run'.todo \subseteq run.todo
    BY <1>4, CalledFields
  <1> QED BY <1>1, <1>2, <1>3, <1>4

\* A composed resource is a record, whatever its handler and its providers say:
\* without that, nothing is known of what remains when one field is changed.
ResourcesHaveFields ==
  /\ world = [n \in DOMAIN world |-> world[n]]
  /\ \A n \in DOMAIN world :
       /\ world[n] = [manifest |-> world[n].manifest, status |-> world[n].status,
                      deleting |-> world[n].deleting]
       /\ world[n].deleting \in BOOLEAN

LEMMA FieldsInitially == Init => ResourcesHaveFields
  BY DEF Init, NoNames, ResourcesHaveFields

\* One that is still one after each of its fields may have changed.
IsRecord(r) ==
  /\ r = [manifest |-> r.manifest, status |-> r.status, deleting |-> r.deleting]
  /\ r.deleting \in BOOLEAN

LEMMA RecordChange ==
  ASSUME NEW r, IsRecord(r), NEW v
  PROVE  /\ IsRecord([r EXCEPT !.manifest = v])
         /\ IsRecord([r EXCEPT !.status = v])
         /\ IsRecord([r EXCEPT !.deleting = TRUE])
  <1> DEFINE Records(a, b) == [manifest : {a}, status : {b}, deleting : BOOLEAN]
  <1>1. r \in Records(r.manifest, r.status)
    BY DEF IsRecord
  <1>2. /\ [r EXCEPT !.manifest = v] \in Records(v, r.status)
        /\ [r EXCEPT !.status = v] \in Records(r.manifest, v)
        /\ [r EXCEPT !.deleting = TRUE] \in Records(r.manifest, r.status)
    BY <1>1
  <1>3. ASSUME NEW a, NEW b, NEW x \in Records(a, b)
        PROVE  IsRecord(x)
    BY DEF IsRecord
  <1> QED BY <1>2, <1>3

LEMMA FieldsStep ==
  ASSUME ResourcesHaveFields, [Next]_vars
  PROVE  ResourcesHaveFields'
  <1>1. /\ world = [n \in DOMAIN world |-> world[n]]
        /\ \A n \in DOMAIN world : IsRecord(world[n])
    BY DEF ResourcesHaveFields, IsRecord
  <1>2. SUFFICES /\ world' = [n \in DOMAIN world' |-> world'[n]]
                 /\ \A n \in DOMAIN world' : IsRecord(world'[n])
    BY DEF ResourcesHaveFields, IsRecord
  <1>3. ASSUME NEW n \in DOMAIN world, NEW r, IsRecord(r),
               world' = [world EXCEPT ![n] = r]
        PROVE  /\ world' = [m \in DOMAIN world' |-> world'[m]]
               /\ \A m \in DOMAIN world' : IsRecord(world'[m])
    BY <1>1, <1>3
  <1>4. ASSUME NEW n, GarbageCollect(n) \/ Lose(n) \/ Report(n) \/ Degrade(n)
        PROVE  \/ UNCHANGED world
               \/ n \in DOMAIN world /\ \E r : IsRecord(r) /\ world' = [world EXCEPT ![n] = r]
    <2>1. \/ UNCHANGED world
          \/ /\ n \in DOMAIN world
             /\ \/ world' = [world EXCEPT ![n] = [world[n] EXCEPT !.deleting = TRUE]]
                \/ \E s : world' = [world EXCEPT ![n] = [world[n] EXCEPT !.status = s]]
      BY <1>4 DEF GarbageCollect, Lose, Report, Degrade, SetWorld
    <2> QED BY <1>1, <2>1, RecordChange
  <1>5. ASSUME NEW n, Apply(n)
        PROVE  /\ world' = [m \in DOMAIN world' |-> world'[m]]
               /\ \A m \in DOMAIN world' : IsRecord(world'[m])
    <2>1. /\ world' = [m \in DOMAIN world' |-> world'[m]]
          /\ DOMAIN world' = DOMAIN world \cup {n}
          /\ \A m \in DOMAIN world' : m # n => world'[m] = world[m]
          /\ n \in DOMAIN world =>
               world'[n] = [world[n] EXCEPT !.manifest = run.desired[n]]
          /\ n \notin DOMAIN world =>
               world'[n] = [manifest |-> run.desired[n], status |-> NewStatus,
                            deleting |-> FALSE]
      BY <1>5 DEF Apply, SetWorld
    <2>2. IsRecord(world'[n])
      <3>1. IsRecord([manifest |-> run.desired[n], status |-> NewStatus,
                      deleting |-> FALSE])
        BY DEF IsRecord
      <3>2. CASE n \in DOMAIN world
        <4>1. IsRecord([world[n] EXCEPT !.manifest = run.desired[n]])
          BY <1>1, <3>2, RecordChange
        <4> QED BY <2>1, <3>2, <4>1
      <3> QED BY <2>1, <3>1, <3>2
    <2> QED BY <1>1, <2>1, <2>2
  <1>6. ASSUME NEW n, Remove(n)
        PROVE  /\ world' = [m \in DOMAIN world' |-> world'[m]]
               /\ \A m \in DOMAIN world' : IsRecord(world'[m])
    BY <1>1, <1>6 DEF Remove, SetWorld
  <1>7. CASE Reconcile \/ Edit \/ Abort \/ UNCHANGED vars
    BY <1>1, <1>7 DEF Reconcile, Edit, Abort, vars
  <1> QED BY <1>1, <1>3, <1>4, <1>5, <1>6, <1>7 DEF Next

LEMMA FieldsAlways == Spec => []ResourcesHaveFields
  <1>1. ResourcesHaveFields /\ [Next]_vars => ResourcesHaveFields'
    BY FieldsStep
  <1> QED BY <1>1, FieldsInitially, PTL DEF Spec

\* A composed resource is made or changed by a call of the pass, reported on,
\* or marked for deletion.
LEMMA ResourceChange ==
  ASSUME ResourcesHaveFields, [Next]_vars, NEW m \in DOMAIN world'
  PROVE  \/ /\ m \notin DOMAIN world
            /\ Apply(m)
            /\ world'[m].manifest = run.desired[m]
            /\ world'[m].status = NewStatus
         \/ /\ m \in DOMAIN world
            /\ world[m].deleting => world'[m].deleting
            /\ \/ world'[m].manifest = world[m].manifest
               \/ /\ Apply(m)
                  /\ world'[m].manifest = run.desired[m]
                  /\ world'[m].status = world[m].status
            /\ \/ world'[m].status = world[m].status
               \/ world'[m].status \in Reports(m, world) \cup Degrades(m, world)
  <1>1. CASE m \notin DOMAIN world
    <2>1. Apply(m)
      BY <1>1 DEF Next, vars, Reconcile, GarbageCollect, Apply, Report, Remove, Edit,
         Degrade, Lose, Abort, SetWorld
    <2>2. world'[m] = [manifest |-> run.desired[m], status |-> NewStatus,
                       deleting |-> FALSE]
      BY <1>1, <2>1 DEF Apply, SetWorld
    <2> QED BY <1>1, <2>1, <2>2
  <1>2. CASE m \in DOMAIN world
    <2>1. /\ world[m] = [manifest |-> world[m].manifest, status |-> world[m].status,
                         deleting |-> world[m].deleting]
          /\ world[m].deleting \in BOOLEAN
      BY <1>2 DEF ResourcesHaveFields
    <2>2. CASE world'[m] = world[m]
      BY <1>2, <2>2
    <2>3. CASE Apply(m)
      <3>1. world'[m] = [world[m] EXCEPT !.manifest = run.desired[m]]
        BY <1>2, <2>3 DEF Apply, SetWorld
      <3> QED BY <1>2, <2>1, <2>3, <3>1
    <2>4. CASE world'[m] = [world[m] EXCEPT !.deleting = TRUE]
      BY <1>2, <2>1, <2>4
    <2>5. ASSUME NEW s \in Reports(m, world) \cup Degrades(m, world),
                 world'[m] = [world[m] EXCEPT !.status = s]
          PROVE  /\ world[m].deleting => world'[m].deleting
                 /\ world'[m].manifest = world[m].manifest
                 /\ world'[m].status = s
      BY <1>2, <2>1, <2>5
    <2>6. \/ world'[m] = world[m]
          \/ Apply(m)
          \/ world'[m] = [world[m] EXCEPT !.deleting = TRUE]
          \/ \E s \in Reports(m, world) \cup Degrades(m, world) :
               world'[m] = [world[m] EXCEPT !.status = s]
      <3>1. ASSUME NEW n \in Name, GarbageCollect(n) \/ Lose(n)
            PROVE  \/ world'[m] = world[m]
                   \/ world'[m] = [world[m] EXCEPT !.deleting = TRUE]
        BY <3>1, <1>2 DEF GarbageCollect, Lose, SetWorld
      <3>2. ASSUME NEW n \in Name, Apply(n), n # m
            PROVE  world'[m] = world[m]
        BY <3>2, <1>2 DEF Apply, SetWorld
      <3>3. ASSUME NEW n \in Name, Report(n) \/ Degrade(n)
            PROVE  \/ world'[m] = world[m]
                   \/ \E s \in Reports(m, world) \cup Degrades(m, world) :
                        world'[m] = [world[m] EXCEPT !.status = s]
        BY <3>3, <1>2 DEF Report, Degrade, SetWorld
      <3>4. ASSUME NEW n \in Name, Remove(n)
            PROVE  world'[m] = world[m]
        BY <3>4, <1>2 DEF Remove, SetWorld
      <3>5. CASE Reconcile \/ Edit \/ Abort \/ UNCHANGED vars
        BY <3>5 DEF Reconcile, Edit, Abort, vars
      <3> QED BY <3>1, <3>2, <3>3, <3>4, <3>5 DEF Next
    <2> QED BY <1>2, <2>2, <2>3, <2>4, <2>5, <2>6
  <1> QED BY <1>1, <1>2

\* A pass with something left to collect makes and changes nothing yet.
LEMMA CollectionComesFirst ==
  ASSUME ResourcesHaveFields, [Next]_vars, NEW n \in run.todo \ DOMAIN run.desired,
         NEW m \in DOMAIN world'
  PROVE  /\ m \in DOMAIN world
         /\ world'[m].manifest = world[m].manifest
         /\ \/ world'[m].status = world[m].status
            \/ world'[m].status \in Reports(m, world) \cup Degrades(m, world)
  <1>1. ~Apply(m)
    BY DEF Apply
  <1> QED BY <1>1, ResourceChange

\* A deletion that begins with a call of the pass is one that the pass had to
\* begin.
LEMMA DeletedByPass ==
  ASSUME ResourcesHaveFields, [Next]_vars, NEW m \in DOMAIN world \cap DOMAIN world',
         ~world[m].deleting, world'[m].deleting, run' # run
  PROVE  m \in run.todo \ DOMAIN run.desired
  <1>1. world[m] = [manifest |-> world[m].manifest, status |-> world[m].status,
                    deleting |-> world[m].deleting]
    BY DEF ResourcesHaveFields
  <1>2. ASSUME NEW n \in Name, GarbageCollect(n)
        PROVE  m \in run.todo \ DOMAIN run.desired
    <2>1. m = n
      BY <1>2 DEF GarbageCollect, SetWorld
    <2> QED BY <1>2, <2>1 DEF GarbageCollect
  <1>3. ASSUME NEW n \in Name, Apply(n)
        PROVE  FALSE
    <2>1. world'[m] = world[m] \/ world'[m] = [world[m] EXCEPT !.manifest = run.desired[m]]
      BY <1>3 DEF Apply, SetWorld
    <2> QED BY <1>1, <2>1
  <1>4. (\E n \in Name : GarbageCollect(n)) \/ (\E n \in Name : Apply(n))
    <2>1. world' # world
      OBVIOUS
    <2> QED BY <2>1 DEF Next, vars, Reconcile, Report, Remove, Edit, Degrade,
                        Lose, Abort
  <1> QED BY <1>2, <1>3, <1>4

--------------------------------------------------------------------------------
(***************************************************************************)
(* What is generated is kept: garbage collection has names left to collect *)
(* only among those that the function did not generate.                    *)
(***************************************************************************)

CollectsUnwanted(r) ==
  (r.todo \ DOMAIN r.desired) \cap DOMAIN r.generated = {}

KeepInv == HasFields(run) /\ CollectsUnwanted(run)

LEMMA PassOnKeeps ==
  ASSUME NEW c, NEW observed
  PROVE  HasFields(PassOn(c, observed)) /\ CollectsUnwanted(PassOn(c, observed))
  <1> DEFINE generated == Generate(c, observed)
             desired == Sequenced(Sequence(c), generated, observed)
             r == PassOn(c, observed)
  <1>1. CASE r = NoRun
    BY <1>1 DEF NoRun, NoNames, HasFields, CollectsUnwanted
  <1>2. CASE r # NoRun
    <2>1. /\ r.generated = generated /\ r.desired = desired /\ HasFields(r)
          /\ r.todo \ DOMAIN desired \subseteq DOMAIN observed
      BY <1>2 DEF PassOn, HasFields
    <2>2. DOMAIN generated \cap DOMAIN observed \subseteq DOMAIN desired
      BY SequencedFacts
    <2> QED BY <2>1, <2>2 DEF CollectsUnwanted
  <1> QED BY <1>1, <1>2

LEMMA KeepStep ==
  ASSUME KeepInv, [Next]_vars
  PROVE  KeepInv'
  <1>1. CASE Reconcile
    BY <1>1, PassOnKeeps DEF Reconcile, KeepInv, CollectsUnwanted, HasFields
  <1>2. ASSUME NEW n \in Name, run' = Called(n)
        PROVE  KeepInv'
    <2>1. CASE run.todo = {n}
      BY <1>2, <2>1 DEF Called, NoRun, NoNames, KeepInv, HasFields,
                        CollectsUnwanted
    <2>2. CASE run.todo # {n}
      <3> DEFINE r == [run EXCEPT !.todo = @ \ {n}]
      <3>1. /\ r.generated = run.generated /\ r.desired = run.desired
            /\ r.todo = run.todo \ {n} /\ HasFields(r)
        BY DEF KeepInv, HasFields
      <3>2. run' = r
        BY <1>2, <2>2 DEF Called
      <3> HIDE DEF r
      <3>3. HasFields(run')
        BY <3>1, <3>2
      <3>4. CollectsUnwanted(run')
        BY <3>1, <3>2 DEF KeepInv, CollectsUnwanted
      <3> QED BY <3>3, <3>4 DEF KeepInv, HasFields, CollectsUnwanted
    <2> QED BY <2>1, <2>2
  <1>3. CASE Abort
    BY <1>3 DEF Abort, NoRun, NoNames, KeepInv, HasFields, CollectsUnwanted
  <1>4. CASE UNCHANGED run
    BY <1>4 DEF KeepInv, HasFields, CollectsUnwanted
  <1>5. \/ Reconcile \/ Abort \/ UNCHANGED run
        \/ \E n \in Name : run' = Called(n)
    BY DEF Next, vars, GarbageCollect, Apply, Report, Remove, Edit, Degrade,
           Lose
  <1> QED BY <1>1, <1>2, <1>3, <1>4, <1>5

\* The step that GeneratedIsKept allows.
KeepsGenerated ==
  \A n \in DOMAIN world \cap DOMAIN world' :
    (~world[n].deleting /\ world'[n].deleting /\ run' # run)
      => n \notin DOMAIN run.generated

LEMMA NextKeepsGenerated ==
  ASSUME ResourcesHaveFields, KeepInv, [Next]_vars
  PROVE  KeepsGenerated
  BY DeletedByPass DEF KeepsGenerated, KeepInv, CollectsUnwanted

\* Whatever the kind, the controller never deletes what the function generated
\* for the reading of its pass.
THEOREM GeneratedResourcesAreKept == Spec => GeneratedIsKept
  <1>1. Init => KeepInv
    BY DEF Init, KeepInv, HasFields, CollectsUnwanted, NoRun, NoNames
  <1>2. KeepInv /\ [Next]_vars => KeepInv'
    BY KeepStep
  <1>3. ResourcesHaveFields /\ KeepInv /\ [Next]_vars => [KeepsGenerated]_vars
    BY NextKeepsGenerated
  <1>4. [KeepsGenerated]_vars
          <=> [\A n \in DOMAIN world \cap DOMAIN world' :
                 (~world[n].deleting /\ world'[n].deleting /\ run' # run)
                   => n \notin DOMAIN run.generated]_vars
    BY DEF KeepsGenerated
  <1> QED BY <1>1, <1>2, <1>3, <1>4, FieldsAlways, PTL DEF Spec, GeneratedIsKept
================================================================================
