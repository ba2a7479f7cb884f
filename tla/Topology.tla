------------------------------ MODULE Topology ------------------------------
(***************************************************************************)
(* The compile-time composition of a ThreadingTopology: what the templates *)
(* of ThreadingComposition, StaticTopologyPlan, TopologyResourceLookup and *)
(* StaticTopologyResourceTypes accept, and what they compute. A topology   *)
(* is a record of its resources, in the order of declaration, and of the   *)
(* bindings the application passes: the thread identities they name.       *)
(*                                                                         *)
(*   facility  [kind, identity, records, callable, workers]                *)
(*   lease     [kind, identity, properties]                                *)
(*   thread    [kind, identity, properties]                                *)
(*                                                                         *)
(* workers is a sequence of property packs, and a property a record of its *)
(* kind and value. A static_assert is a conjunct of a Valid operator: a    *)
(* topology that violates one does not compile. Nothing here is recursive. *)
(***************************************************************************)
EXTENDS Integers, Sequences, FiniteSets, Functions

AnyProcessor == -1    \* ProcessorAffinity::Any()
Normal == 2           \* ThreadPriority::Normal, in the order of the enumeration
NotFound == 0         \* TopologyResourceNotFound; resources are counted from 1

Total(f) == FoldFunction(+, 0, f)

-----------------------------------------------------------------------------
(* Property packs *)

Property == [kind : STRING, value : Int]

\* ThreadingComposition.hpp, the property Types; AnyAffinity is an affinity property.
ExecutionProperty == {"stack", "priority", "affinity"}
StorageProperty   == {"records", "callable", "result"}

CountOf(kind, properties) ==
    Cardinality({i \in DOMAIN properties : properties[i].kind = kind})

\* Variant: a pack may name a property several times.
ValidWithDuplicates(properties) ==
    \A i \in DOMAIN properties : properties[i].kind \in ExecutionProperty

ValidExecutionResourceProperties(properties) ==
    /\ \A i \in DOMAIN properties : properties[i].kind \in ExecutionProperty
    /\ \A kind \in ExecutionProperty : CountOf(kind, properties) <= 1

\* What a property contributes to a kind: its own value, or the default of the kind.
ValueAs(kind, property) ==
    CASE property.kind = kind -> property.value
      [] property.kind # kind /\ kind = "priority" -> Normal
      [] property.kind # kind /\ kind = "affinity" -> AnyProcessor
      [] OTHER -> 0

SumOf(kind, properties) ==
    Total([i \in DOMAIN properties |-> ValueAs(kind, properties[i])])

\* ApplyPriority and ApplyAffinity run over the pack in order: the last one declared stays.
LastOf(kind, properties) ==
    LET declared == {i \in DOMAIN properties : properties[i].kind = kind}
    IN  IF declared = {}
        THEN ValueAs(kind, [kind |-> "none"])
        ELSE properties[CHOOSE i \in declared : \A j \in declared : j <= i].value

ResolvedExecutionResourceProperties(properties) ==
    [stack    |-> SumOf("stack", properties),
     priority |-> LastOf("priority", properties),
     affinity |-> LastOf("affinity", properties)]

ValidDedicatedWorkerStorage(properties) ==
    \A kind \in StorageProperty : CountOf(kind, properties) <= 1

ResolvedDedicatedWorkerStorage(properties) ==
    [kind \in StorageProperty |-> SumOf(kind, properties)]

-----------------------------------------------------------------------------
(* Resource declarations *)

ValidWorker(properties) == ValidExecutionResourceProperties(properties)

ValidTaskExecutionFacility(resource) ==
    /\ resource.records = 0 <=> Len(resource.workers) = 0
    /\ resource.records > 0 => resource.callable > 0
    /\ \A i \in DOMAIN resource.workers : ValidWorker(resource.workers[i])

ValidDedicatedWorkerLease(resource) ==
    LET properties == resource.properties
        storage == ResolvedDedicatedWorkerStorage(properties)
    IN  /\ \A i \in DOMAIN properties :
             properties[i].kind \in ExecutionProperty \cup StorageProperty
        /\ \A kind \in ExecutionProperty : CountOf(kind, properties) <= 1
        /\ ValidDedicatedWorkerStorage(properties)
        /\ storage["records"] > 0 /\ storage["callable"] > 0

ValidDedicatedThread(resource) ==
    ValidExecutionResourceProperties(resource.properties)

ValidResource(resource) ==
    \/ resource.kind = "facility" /\ ValidTaskExecutionFacility(resource)
    \/ resource.kind = "lease" /\ ValidDedicatedWorkerLease(resource)
    \/ resource.kind = "thread" /\ ValidDedicatedThread(resource)

IsTaskFacility(resource) == resource.kind = "facility"
IsDedicatedThread(resource) == resource.kind = "thread"
IsTaskExecutionResource(resource) == resource.kind \in {"facility", "lease"}

\* The property packs of the managed contexts of a resource, in the order of their indices.
PacksOf(resource) ==
    IF IsTaskFacility(resource) THEN resource.workers ELSE <<resource.properties>>

ManagedContextCount(resource) ==
    IF IsTaskFacility(resource) THEN Len(resource.workers) ELSE 1

\* What the parameter packs of the declarations can be instantiated with, valid or not.
IsDeclaration(t) ==
    /\ t.resources \in Seq(Range(t.resources))
    /\ t.bindings \in Seq(Range(t.bindings))
    /\ \A r \in DOMAIN t.resources :
          PacksOf(t.resources[r]) \in Seq(Seq(Property))

-----------------------------------------------------------------------------
(* The topology *)

ResourceIndices(t) == DOMAIN t.resources

\* Identities of different kinds of resource never conflict.
ResourceIdentityConflict(left, right) ==
    left.kind = right.kind /\ left.identity = right.identity

\* Variant: the check of the identities is missing.
AnyResourceIdentities(resources) == TRUE

UniqueResourceIdentities(resources) ==
    \A i, j \in DOMAIN resources :
        i < j => ~ResourceIdentityConflict(resources[i], resources[j])

\* TopologyProviderBase: a Dedicated Worker lease offers no TaskExecution.
Offers(t) ==
    {capability \in {"TaskExecution", "DedicatedThreadExecution"} :
        \E r \in ResourceIndices(t) :
            \/ capability = "TaskExecution" /\ IsTaskFacility(t.resources[r])
            \/ capability = "DedicatedThreadExecution" /\ IsDedicatedThread(t.resources[r])}

ManagedExecutionContextCount(t) ==
    Total([i \in ResourceIndices(t) |-> ManagedContextCount(t.resources[i])])

TopologyContextOffset(t, r) ==
    Total([i \in {j \in ResourceIndices(t) : j < r} |-> ManagedContextCount(t.resources[i])])

FirstContextIndex(t, r) == TopologyContextOffset(t, r)
EndContextIndex(t, r) == FirstContextIndex(t, r) + ManagedContextCount(t.resources[r])

\* FacilityWorkerDescriptor::ContextIndex; i counts the Workers of a resource from 0.
WorkerContextIndex(t, r, i) == FirstContextIndex(t, r) + i

ContextsOf(t, r) == {WorkerContextIndex(t, r, i) : i \in 0 .. ManagedContextCount(t.resources[r]) - 1}

Contexts(t) == UNION {ContextsOf(t, r) : r \in ResourceIndices(t)}

\* Variant: the range check includes the end of the range.
AnswersForOneMore(t, r, c) == FirstContextIndex(t, r) <= c /\ c <= EndContextIndex(t, r)

\* The range checks of the resources' IsContextInterrupted: who answers for a context.
AnswersFor(t, r, c) == FirstContextIndex(t, r) <= c /\ c < EndContextIndex(t, r)

\* StaticTopologyPlan's static_asserts.
ValidPlan(t) ==
    /\ \A r \in ResourceIndices(t) : EndContextIndex(t, r) <= ManagedExecutionContextCount(t)
    /\ TopologyContextOffset(t, Len(t.resources) + 1) = ManagedExecutionContextCount(t)

-----------------------------------------------------------------------------
(* Bindings of the Dedicated Threads *)

DedicatedThreadBindingCount(identity, bindings) ==
    Cardinality({b \in DOMAIN bindings : bindings[b] = identity})

\* DedicatedThreadBindingType: the first binding of the identity.
DedicatedThreadBinding(identity, bindings) ==
    CHOOSE b \in DOMAIN bindings :
        /\ bindings[b] = identity
        /\ \A c \in 1 .. b - 1 : bindings[c] # identity

\* Variant: one binding of the identity or several.
BoundAtLeastOnce(resource, bindings) ==
    IsDedicatedThread(resource) => DedicatedThreadBindingCount(resource.identity, bindings) >= 1

ResourceBindingIsValid(resource, bindings) ==
    IsDedicatedThread(resource) => DedicatedThreadBindingCount(resource.identity, bindings) = 1

BindingMatchesDeclaredThread(identity, resources) ==
    \E r \in DOMAIN resources :
        IsDedicatedThread(resources[r]) /\ resources[r].identity = identity

ValidDedicatedThreadBindings(t) ==
    /\ \A r \in ResourceIndices(t) : ResourceBindingIsValid(t.resources[r], t.bindings)
    /\ \A b \in DOMAIN t.bindings : BindingMatchesDeclaredThread(t.bindings[b], t.resources)

ValidTopology(t) ==
    /\ \A r \in ResourceIndices(t) : ValidResource(t.resources[r])
    /\ UniqueResourceIdentities(t.resources)
    /\ ValidPlan(t)
    /\ ValidDedicatedThreadBindings(t)

\* OwnedResourceType: the template arguments of the runtime that realises a resource.
OwnedResourceType(t, r) ==
    [kind     |-> t.resources[r].kind,
     first    |-> FirstContextIndex(t, r),
     contexts |-> [i \in 0 .. ManagedContextCount(t.resources[r]) - 1 |->
                     ResolvedExecutionResourceProperties(PacksOf(t.resources[r])[i + 1])],
     capacity |-> ManagedExecutionContextCount(t)]

\* ConstructOwnedResource: the binding whose callable a Dedicated Thread takes.
BindingTaken(t, r) == DedicatedThreadBinding(t.resources[r].identity, t.bindings)

-----------------------------------------------------------------------------
(* Requirements: [kind, identity, constraints], each constraint [kind, value]; *)
(* the value of an affinity constraint is the affinity property it names.      *)

\* IsTaskFacilityIdentity, IsDedicatedWorkerIdentity, IsDedicatedThreadIdentity.
MatchesIdentity(resource, requirement) ==
    resource.kind = requirement.kind /\ resource.identity = requirement.identity

RequirementSatisfied(t, requirement) ==
    \E r \in ResourceIndices(t) : MatchesIdentity(t.resources[r], requirement)

\* The search stops at the first property of the kind; a pack without one fails.
FirstOf(kind, properties) ==
    CHOOSE i \in DOMAIN properties :
        /\ properties[i].kind = kind
        /\ \A j \in 1 .. i - 1 : properties[j].kind # kind

HasMinimumStackCapacity(minimum, properties) ==
    /\ CountOf("stack", properties) > 0
    /\ properties[FirstOf("stack", properties)].value >= minimum

HasMinimumPriority(minimum, properties) ==
    /\ CountOf("priority", properties) > 0
    /\ properties[FirstOf("priority", properties)].value >= minimum

HasRequiredAffinity(affinity, properties) ==
    \E i \in DOMAIN properties : properties[i] = [kind |-> "affinity", value |-> affinity]

WorkerConstraintSatisfied(properties, constraint) ==
    \/ constraint.kind = "stack" /\ HasMinimumStackCapacity(constraint.value, properties)
    \/ constraint.kind = "priority" /\ HasMinimumPriority(constraint.value, properties)
    \/ constraint.kind = "affinity" /\ HasRequiredAffinity(constraint.value, properties)

EveryWorkerSatisfies(workers, constraint) ==
    \A i \in DOMAIN workers : WorkerConstraintSatisfied(workers[i], constraint)

\* A Dedicated Thread declares no concurrency: the unspecialised template says no.
ResourceConstraintSatisfied(resource, constraint) ==
    IF constraint.kind = "concurrency"
    THEN /\ IsTaskExecutionResource(resource)
         /\ ManagedContextCount(resource) >= constraint.value
    ELSE EveryWorkerSatisfies(PacksOf(resource), constraint)

ResourceSatisfiesRequirement(resource, requirement) ==
    /\ MatchesIdentity(resource, requirement)
    /\ \A constraint \in requirement.constraints :
          ResourceConstraintSatisfied(resource, constraint)

SatisfiesThreadingRequirement(t, requirement) ==
    \E r \in ResourceIndices(t) : ResourceSatisfiesRequirement(t.resources[r], requirement)

\* TopologyResourceIndex: the first resource the matcher accepts.
TopologyResourceIndex(t, requirement) ==
    IF ~RequirementSatisfied(t, requirement)
    THEN NotFound
    ELSE CHOOSE r \in ResourceIndices(t) :
            /\ MatchesIdentity(t.resources[r], requirement)
            /\ \A s \in 1 .. r - 1 : ~MatchesIdentity(t.resources[s], requirement)
=============================================================================
