--------------------------- MODULE CarrierAuthority ---------------------------
(***************************************************************************)
(* What an exact carrier class executes, and who says so: a definition     *)
(* with kernel packs (carriers/extension.py) or a declaration              *)
(* (carriers/operation_capability.py), fixed by the first look at the      *)
(* class; and the snapshots of the instances of a dependent class, which   *)
(* answer for the carriers an instance composes.                           *)
(*                                                                         *)
(* A registration that raises changes nothing, so the guards are those of  *)
(* the calls that succeed.                                                 *)
(***************************************************************************)
EXTENDS Naturals, Sequences, FiniteSets
LOCAL INSTANCE SequencesExt

CONSTANTS
    CarrierClass,   \* the independent classes
    Capability,
    Definition,     \* the definitions: [kernels |-> <<pattern, ...>>]
    Pack,           \* the packs: [class, identity, kernels], the identity a number
    Instance,       \* instances of a dependent class
    Composes,       \* Composes[i]: the class whose capabilities i passes on
    Address,        \* what id() returns
    Undecided            \* no authority, no answer, no address

ASSUME AuthorityAssumption ==
    /\ Composes \in [Instance -> CarrierClass] /\ \A k \in Pack : k.class \in CarrierClass
    /\ Undecided \notin Definition /\ Undecided \notin Address /\ Undecided \notin Instance

VARIABLES
    definitions,    \* _DEFINITIONS
    packs,          \* _PACKS
    observed,       \* _OBSERVED
    frozenKernels,  \* _FROZEN_KERNEL_PATTERNS
    declared,       \* _DECLARED
    snapshots,      \* _FROZEN: what each address maps to
    instances,      \* where each instance is, and what it has generated
    told,           \* history: the first answer of each class
    accepted        \* history: the packs whose registration returned

authorityVars == <<definitions, packs, observed, frozenKernels, declared, snapshots, instances, told, accepted>>
registryVars == <<definitions, packs, declared, accepted>>
-----------------------------------------------------------------------------
NoSnapshot == [reference |-> Undecided, entries |-> {}]

AuthorityInit ==
    /\ definitions = [c \in CarrierClass |-> Undecided] /\ declared = [c \in CarrierClass |-> Undecided]
    /\ packs = {} /\ accepted = {} /\ observed = {}
    /\ frozenKernels = [c \in CarrierClass |-> Undecided] /\ told = [c \in CarrierClass |-> Undecided]
    /\ snapshots = [a \in Address |-> NoSnapshot]
    /\ instances = [i \in Instance |-> [at |-> "none", address |-> Undecided, entries |-> {}]]

KernelsOf(s) == {s[n] : n \in 1 .. Len(s)}
KernelIds(s) == {pattern.id : pattern \in KernelsOf(s)}
Capabilities(s) == UNION {pattern.plans : pattern \in KernelsOf(s)}

(* The kernels of the definition, then those of the packs by identity.     *)
Ordered(kernels, ks) ==
    kernels \o FlattenSeq([n \in 1 .. Cardinality(ks) |->
                  (SetToSortSeq(ks, LAMBDA j, k : j.identity < k.identity)[n]).kernels])

FrozenBy(c) ==
    IF c \in DOMAIN definitions /\ definitions[c] # Undecided /\ frozenKernels[c] = Undecided
    THEN [frozenKernels EXCEPT ![c] = Ordered(definitions[c].kernels, {k \in packs : k.class = c})]
    ELSE frozenKernels
-----------------------------------------------------------------------------
RegisterDefinition(c, d) ==
    /\ declared[c] = Undecided /\ c \notin observed /\ definitions[c] = Undecided
    /\ definitions' = [definitions EXCEPT ![c] = d]
    /\ UNCHANGED <<packs, observed, frozenKernels, declared, snapshots, instances, told, accepted>>

(* Mutant: a class that has been looked at accepts a pack.                 *)
AttachableLate(k) ==
    /\ definitions[k.class] # Undecided
    /\ \A j \in packs : j.class = k.class => j.identity # k.identity

(* The conditions of register_kernel_pack.                                 *)
Attachable(k) ==
    /\ definitions[k.class] # Undecided /\ k.class \notin observed
    /\ LET others == {j \in packs : j.class = k.class}
       IN /\ \A j \in others : j.identity # k.identity
          /\ KernelIds(k.kernels) \intersect
                (KernelIds(definitions[k.class].kernels) \union UNION {KernelIds(j.kernels) : j \in others}) = {}

RegisterPack(k) ==
    /\ Attachable(k)
    /\ packs' = packs \union {k} /\ accepted' = accepted \union {k}
    /\ UNCHANGED <<definitions, observed, frozenKernels, declared, snapshots, instances, told>>

RegisterCapabilities(c, entries) ==
    /\ definitions[c] = Undecided /\ declared[c] = Undecided /\ c \notin observed
    /\ declared' = [declared EXCEPT ![c] = entries]
    /\ UNCHANGED <<definitions, packs, observed, frozenKernels, snapshots, instances, told, accepted>>

(* A construction, a route or a dispatch looks at the definition.          *)
LookAt(c) ==
    /\ c \notin observed
    /\ observed' = observed \union {c} /\ frozenKernels' = FrozenBy(c)
    /\ UNCHANGED <<registryVars, snapshots, instances, told>>
-----------------------------------------------------------------------------
(* _observed_capabilities: the answer is that of the kernels, or what is   *)
(* declared, or nothing, which is then declared.                           *)
Answer(c) == IF definitions[c] # Undecided THEN Capabilities(FrozenBy(c)[c])
             ELSE IF declared[c] # Undecided THEN declared[c] ELSE {}

Answered(c) ==
    /\ observed' = observed \union {c} /\ frozenKernels' = FrozenBy(c)
    /\ declared' = IF definitions[c] = Undecided /\ declared[c] = Undecided THEN [declared EXCEPT ![c] = {}] ELSE declared
    /\ told' = IF told[c] = Undecided THEN [told EXCEPT ![c] = Answer(c)] ELSE told
    /\ UNCHANGED <<definitions, packs, accepted>>

AskClass(c) == Answered(c) /\ UNCHANGED <<snapshots, instances>>
-----------------------------------------------------------------------------
(* The weak reference of a snapshot names an instance while it lives.      *)
Living(i) == instances[i].at \notin {"none", "collected", "forgotten"}
SnapshotOf(i) == snapshots[instances[i].address]
HasSnapshot(i) == SnapshotOf(i).reference = i

(* A new instance is at an address that no living one has.                 *)
ConstructInstance(i, a) ==
    /\ instances[i].at = "none" /\ \A j \in Instance : Living(j) => instances[j].address # a
    /\ instances' = [instances EXCEPT ![i] = [at |-> "built", address |-> a, entries |-> {}]]
    /\ UNCHANGED <<registryVars, observed, frozenKernels, snapshots, told>>

(* _freeze_instance_capabilities outside the lock: the carrier's own code  *)
(* asks what it composes.  One that raises has only asked.                 *)
GenerateInstance(i) ==
    /\ instances[i].at = "built" /\ ~HasSnapshot(i)
    /\ instances' = [instances EXCEPT ![i].at = "generated", ![i].entries = Answer(Composes[i])]
    /\ Answered(Composes[i]) /\ UNCHANGED snapshots

FreezeInstance(i) ==
    /\ instances[i].at = "generated" /\ ~HasSnapshot(i)
    /\ snapshots' = [snapshots EXCEPT ![instances[i].address] = [reference |-> i, entries |-> instances[i].entries]]
    /\ instances' = [instances EXCEPT ![i].at = "final"]
    /\ UNCHANGED <<registryVars, observed, frozenKernels, told>>

(* The collector reclaims an instance; the callback of its reference runs  *)
(* then or later, when another instance may have its address.              *)
ReclaimInstance(i) ==
    /\ Living(i)
    /\ instances' = [instances EXCEPT ![i].at = IF @ = "final" THEN "collected" ELSE "forgotten"]
    /\ UNCHANGED <<registryVars, observed, frozenKernels, snapshots, told>>

ForgetInstance(i) ==
    /\ instances[i].at = "collected"
    /\ instances' = [instances EXCEPT ![i].at = "forgotten"]
    /\ snapshots' = IF HasSnapshot(i) THEN [snapshots EXCEPT ![instances[i].address] = NoSnapshot] ELSE snapshots
    /\ UNCHANGED <<registryVars, observed, frozenKernels, told>>
-----------------------------------------------------------------------------
AuthorityNext ==
    \/ \E c \in CarrierClass :
          \/ \E d \in Definition : RegisterDefinition(c, d)
          \/ \E entries \in SUBSET Capability : RegisterCapabilities(c, entries)
          \/ LookAt(c)
          \/ AskClass(c)
    \/ \E k \in Pack : RegisterPack(k)
    \/ \E i \in Instance : \/ \E a \in Address : ConstructInstance(i, a)
                           \/ GenerateInstance(i)
                           \/ FreezeInstance(i)
                           \/ ReclaimInstance(i)
                           \/ ForgetInstance(i)

AuthoritySpec == AuthorityInit /\ [][AuthorityNext]_authorityVars
-----------------------------------------------------------------------------
AuthorityTypeOK ==
    /\ definitions \in [CarrierClass -> Definition \union {Undecided}]
    /\ declared \in [CarrierClass -> {Undecided} \union SUBSET Capability]
    /\ packs \subseteq Pack /\ accepted \subseteq Pack /\ observed \subseteq CarrierClass
    /\ \A i \in Instance : instances[i].at # "none" => instances[i].address \in Address

(* What a class has answered once stays its answer, whatever is registered *)
(* afterwards, and is that of one authority, in which every pack whose     *)
(* registration was accepted has its place; and an instance that has       *)
(* frozen its capabilities answers for the class it composes until it is   *)
(* collected, though its address has served before and the callbacks of    *)
(* those instances come late (extension.py, operation_capability.py).      *)
AnswersFinal ==
    /\ \A c \in CarrierClass :
          /\ told[c] # Undecided => Answer(c) = told[c]
          /\ definitions[c] = Undecided \/ declared[c] = Undecided
          /\ frozenKernels[c] # Undecided =>
                frozenKernels[c] = Ordered(definitions[c].kernels, {k \in accepted : k.class = c})
    /\ \A i \in Instance :
          instances[i].at = "final" =>
              HasSnapshot(i) /\ SnapshotOf(i).entries = Answer(Composes[i])
=============================================================================
