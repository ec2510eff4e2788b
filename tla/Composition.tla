------------------------------ MODULE Composition ------------------------------
(***************************************************************************)
(* One composite resource under the shared composition framework: the      *)
(* function's RunFunction (functions/common/base/fn.go), and around it the *)
(* Crossplane controller that calls the function and the providers that    *)
(* own the composed resources.                                             *)
(*                                                                         *)
(* A pass of the controller reads the composite and its composed           *)
(* resources, calls the function once its required resources have settled  *)
(* (see Requirements), deletes the observed resources the answer leaves    *)
(* out and applies the others, one API call at a time.  The function keeps *)
(* nothing between calls, so what it does is a pure function of what the   *)
(* controller read: Reconcile takes the reading and the call as one step.  *)
(* Users, providers and faults move between any two calls, so the pass     *)
(* acts on a reading that may be out of date.                              *)
(*                                                                         *)
(* What differs between the composite kinds is a parameter: Generate is    *)
(* the kind's ResourceHandler, Sequence its GetSequence, IsReady its       *)
(* GetReadyStatus, and Reports, Degrades and Removable its providers.      *)
(***************************************************************************)
EXTENDS Naturals, Sequences

CONSTANTS
  Name,             \* names of composed resources
  Composite,        \* what a composite and its required resources may say
  Start,            \* what a newly submitted composite may say
  Manifest,         \* what the function asks of a composed resource
  Status,           \* what a provider reports of a composed resource
  NewStatus,        \* the status of a resource no provider has touched yet
  Fatal,            \* the answer of a function that failed
  Generate(_, _),   \* composite, observed -> manifests by name, or Fatal
  Sequence(_),      \* composite -> the steps, each a set of names
  IsReady(_, _),    \* name, resource -> whether the function sees it ready
  Edits(_),         \* composite -> what a user may change it to
  Reports(_, _),    \* name, observed -> what its provider may report next
  Degrades(_, _),   \* name, observed -> what a fault may turn its status to
  Removable(_, _),  \* name, observed -> whether its provider can delete it
  Losable,          \* names that someone else may delete
  MaxDisruptions    \* bound on user edits, faults and aborted passes

VARIABLES
  composite,        \* what the composite says now
  world,            \* the composed resources that exist, by name
  run,              \* the controller's pass: what it read, what is left to do
  wasReady,         \* history: the names that have been ready at some time
  disruptions       \* how many disruptions have happened

vars == <<composite, world, run, wasReady, disruptions>>

Resource == [manifest : Manifest, status : Status, deleting : BOOLEAN]

\* f gives some names a value each.
IsMap(f, Value) == DOMAIN f \subseteq Name /\ f \in [DOMAIN f -> Value]

ASSUME StartAssumption == Start \subseteq Composite
ASSUME StatusAssumption == NewStatus \in Status
ASSUME BoundAssumption == MaxDisruptions \in Nat

NoNames == [n \in {} |-> n]

--------------------------------------------------------------------------------
(***************************************************************************)
(* The function.                                                           *)
(***************************************************************************)

\* addDesiredResource: a resource is ready only if it was observed, and then
\* if GetReadyStatus says so.
ReadyIn(n, observed) == n \in DOMAIN observed /\ IsReady(n, observed[n])

\* A step in which what was skipped does not count.
StepReadyOfObserved(steps, i, generated, observed) ==
  \A n \in steps[i] \cap DOMAIN generated \cap DOMAIN observed :
    IsReady(n, observed[n])

\* A step that is not ready when it generated nothing.
StepReadyUnlessEmpty(steps, i, generated, observed) ==
  /\ steps[i] \cap DOMAIN generated # {}
  /\ \A n \in steps[i] \cap DOMAIN generated : ReadyIn(n, observed)

\* addDesiredSequenceResources, currentStepAllReady after step i: every
\* generated resource of the step is ready.  One that was skipped, or added
\* without having been observed, is not.
StepReady(steps, i, generated, observed) ==
  \A n \in steps[i] \cap DOMAIN generated : ReadyIn(n, observed)

\* previousStepIsReady as step i begins.  It is assigned and not accumulated:
\* it speaks of step i - 1 alone, and a step that generated nothing is ready.
GateOpen(steps, i, generated, observed) ==
  \/ i = 1
  \/ StepReady(steps, i - 1, generated, observed)

\* A sequence that also withholds what exists already.
SequencedAnew(steps, generated, observed) ==
  LET asked(n) ==
        \/ \A i \in DOMAIN steps : n \notin steps[i]
        \/ \E i \in DOMAIN steps :
             n \in steps[i] /\ GateOpen(steps, i, generated, observed)
  IN [n \in {m \in DOMAIN generated : asked(m)} |-> generated[n]]

\* addDesiredComposedResources: a generated resource is asked for if it is
\* observed, if no step names it, or if the gate of a step that does is open.
Sequenced(steps, generated, observed) ==
  LET asked(n) ==
        \/ n \in DOMAIN observed
        \/ \A i \in DOMAIN steps : n \notin steps[i]
        \/ \E i \in DOMAIN steps :
             n \in steps[i] /\ GateOpen(steps, i, generated, observed)
  IN [n \in {m \in DOMAIN generated : asked(m)} |-> generated[n]]

--------------------------------------------------------------------------------
(***************************************************************************)
(* The controller.                                                         *)
(***************************************************************************)

NoRun == [observed |-> NoNames, generated |-> NoNames, desired |-> NoNames,
          steps |-> << >>, todo |-> {}]

\* What a pass on this reading has to do.  A call that would change nothing of
\* what was read is left out, and a pass without calls is over at once.
PassOn(c, observed) ==
  LET generated == Generate(c, observed)
      steps == Sequence(c)
      desired == Sequenced(steps, generated, observed)
      collected == {n \in DOMAIN observed \ DOMAIN desired :
                      ~observed[n].deleting}
      applied == {n \in DOMAIN desired :
                    n \in DOMAIN observed =>
                      \/ observed[n].manifest # desired[n]
                      \/ observed[n].deleting}
  IN IF generated = Fatal \/ collected \cup applied = {} THEN NoRun
     ELSE [observed |-> observed, generated |-> generated, desired |-> desired,
           steps |-> steps, todo |-> collected \cup applied]

\* The pass after its call for n: the last call ends it.
Called(n) ==
  IF run.todo = {n} THEN NoRun ELSE [run EXCEPT !.todo = @ \ {n}]

Ready(resources) == {n \in DOMAIN resources : IsReady(n, resources[n])}

\* The composed resources become w.
SetWorld(w) ==
  /\ world' = w
  /\ wasReady' = wasReady \cup Ready(w)

\* RunFunction on the composite and the composed resources as they are now.
\* A Fatal answer ends the pass with nothing changed.
Reconcile ==
  /\ run.todo = {}
  /\ run' = PassOn(composite, world)
  /\ UNCHANGED <<composite, world, wasReady, disruptions>>

\* Garbage collection of an observed resource that is not asked for.
GarbageCollect(n) ==
  /\ n \in run.todo \ DOMAIN run.desired
  /\ run' = Called(n)
  /\ SetWorld(IF n \in DOMAIN world
                THEN [world EXCEPT ![n].deleting = TRUE] ELSE world)
  /\ UNCHANGED <<composite, disruptions>>

\* Server-side apply, once garbage collection is over: it creates the
\* resource or updates its manifest, and does not stop a deletion under way.
Apply(n) ==
  /\ run.todo \subseteq DOMAIN run.desired
  /\ n \in run.todo
  /\ run' = Called(n)
  /\ SetWorld([m \in DOMAIN world \cup {n} |->
       CASE m # n -> world[m]
         [] m = n /\ n \in DOMAIN world ->
              [world[n] EXCEPT !.manifest = run.desired[n]]
         [] OTHER -> [manifest |-> run.desired[n], status |-> NewStatus,
                      deleting |-> FALSE]])
  /\ UNCHANGED <<composite, disruptions>>

--------------------------------------------------------------------------------
(***************************************************************************)
(* Providers, users and faults.                                            *)
(***************************************************************************)

\* A provider reports on its resource.
Report(n) ==
  /\ n \in DOMAIN world
  /\ \E s \in Reports(n, world) \ {world[n].status} :
       SetWorld([world EXCEPT ![n].status = s])
  /\ UNCHANGED <<composite, run, disruptions>>

\* A provider has deleted what its resource stands for: the finalizer goes.
Remove(n) ==
  /\ n \in DOMAIN world
  /\ world[n].deleting
  /\ Removable(n, world)
  /\ SetWorld([m \in DOMAIN world \ {n} |-> world[m]])
  /\ UNCHANGED <<composite, run, disruptions>>

Disrupt ==
  /\ disruptions < MaxDisruptions
  /\ disruptions' = disruptions + 1

\* The user changes the composite, or one of its required resources changes.
Edit ==
  /\ Disrupt
  /\ \E c \in Edits(composite) : composite' = c
  /\ UNCHANGED <<world, run, wasReady>>

\* A resource stops being what it was: it fails, or loses what it reported.
Degrade(n) ==
  /\ Disrupt
  /\ n \in DOMAIN world
  /\ \E s \in Degrades(n, world) : SetWorld([world EXCEPT ![n].status = s])
  /\ UNCHANGED <<composite, run>>

\* Someone other than the controller deletes a composed resource.
Lose(n) ==
  /\ Disrupt
  /\ n \in DOMAIN world
  /\ n \in Losable
  /\ ~world[n].deleting
  /\ SetWorld([world EXCEPT ![n].deleting = TRUE])
  /\ UNCHANGED <<composite, run>>

\* An API call fails or the controller restarts: the rest of the pass is lost.
Abort ==
  /\ Disrupt
  /\ run.todo # {}
  /\ run' = NoRun
  /\ UNCHANGED <<composite, world, wasReady>>

--------------------------------------------------------------------------------
Init ==
  /\ composite \in Start
  /\ world = NoNames
  /\ run = NoRun
  /\ wasReady = {}
  /\ disruptions = 0

Next ==
  \/ Reconcile
  \/ \E n \in Name : GarbageCollect(n)
  \/ \E n \in Name : Apply(n)
  \/ \E n \in Name : Report(n)
  \/ \E n \in Name : Remove(n)
  \/ Edit
  \/ \E n \in Name : Degrade(n)
  \/ \E n \in Name : Lose(n)
  \/ Abort

Spec == Init /\ [][Next]_vars

(***************************************************************************)
(* The controller requeues every composite (its poll interval), a pass in  *)
(* progress goes on, and every provider goes on reporting and deleting.    *)
(* Nobody has to edit, and no fault has to happen.                         *)
(***************************************************************************)
Fairness ==
  /\ WF_vars(Reconcile)
  /\ \A n \in Name : /\ WF_vars(GarbageCollect(n))
                     /\ WF_vars(Apply(n))
                     /\ WF_vars(Report(n))
                     /\ WF_vars(Remove(n))

FairSpec == Spec /\ Fairness

--------------------------------------------------------------------------------
(***************************************************************************)
(* Properties.                                                             *)
(***************************************************************************)

\* What a kind's handler, users and providers answer with: read by the
\* theorems of Composition_proofs.
HandlerTypes ==
  /\ \A c \in Composite : Edits(c) \subseteq Composite
  /\ \A c \in Composite : \A observed : IsMap(observed, Resource) =>
       \/ Generate(c, observed) = Fatal
       \/ IsMap(Generate(c, observed), Manifest)
  /\ \A n \in Name : \A observed : IsMap(observed, Resource) /\ n \in DOMAIN observed =>
       Reports(n, observed) \cup Degrades(n, observed) \subseteq Status

TypeOK ==
  /\ composite \in Composite
  /\ IsMap(world, Resource)
  /\ run \in [observed : {run.observed}, generated : {run.generated},
              desired : {run.desired}, steps : {run.steps},
              todo : SUBSET Name]
  /\ IsMap(run.observed, Resource)
  /\ IsMap(run.generated, Manifest)
  /\ IsMap(run.desired, Manifest)
  /\ wasReady \subseteq Name
  /\ disruptions \in 0 .. MaxDisruptions

\* The names the pass is about to create.
Creating == DOMAIN run.desired \ DOMAIN run.observed

\* A resource that some step names is created only when everything its pass
\* generated for the step before has been ready, however old the reading is
\* by the time of the call (fn.go, addDesiredSequenceResources).
PreviousStepWasReady ==
  \A n \in Creating :
    (\E i \in DOMAIN run.steps : n \in run.steps[i]) =>
      \E i \in DOMAIN run.steps :
        /\ n \in run.steps[i]
        /\ \/ i = 1
           \/ run.steps[i - 1] \cap DOMAIN run.generated \subseteq wasReady

\* A resource is created only when everything its pass generated for all the
\* steps before has been ready: "resources in later steps are only created
\* once earlier steps are ready" (functions/common/README.md, line 26).
EarlierStepsWereReady ==
  \A i, j \in DOMAIN run.steps :
    (j < i /\ run.steps[i] \cap Creating # {})
      => run.steps[j] \cap DOMAIN run.generated \subseteq wasReady

\* A resource is created only when everything its pass generated for the step
\* before has been reported on by its provider: "Resources in step N are only
\* created once all resources in step N-1 are ready"
\* (functions/common/README.md, line 129).
PreviousStepWasReported ==
  \A n \in Creating, i \in DOMAIN run.steps \ {1} :
    n \in run.steps[i] =>
      \A m \in run.steps[i - 1] \cap DOMAIN run.generated :
        /\ m \in DOMAIN run.observed
        /\ run.observed[m].status # NewStatus

\* The controller never deletes a resource that the function generated for
\* the reading of its pass, however far an earlier step has regressed.
GeneratedIsKept ==
  [][\A n \in DOMAIN world \cap DOMAIN world' :
       (~world[n].deleting /\ world'[n].deleting /\ run' # run)
         => n \notin DOMAIN run.generated]_vars

\* The composed resources are what the function generates for them, all
\* ready.
Settled ==
  LET generated == Generate(composite, world)
  IN /\ generated # Fatal
     /\ DOMAIN world = DOMAIN generated
     /\ \A n \in DOMAIN world : /\ world[n].manifest = generated[n]
                                /\ ReadyIn(n, world)
                                /\ ~world[n].deleting

\* Once the function stops failing and the disruptions are over, the composed
\* resources settle for good: no sequence waits for itself, nothing that is
\* no longer generated stays behind, and no two passes undo each other.
EventuallySettled ==
  <>[](Generate(composite, world) # Fatal) => <>[]Settled
================================================================================
