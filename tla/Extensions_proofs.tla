-------------------------- MODULE Extensions_proofs --------------------------
(***************************************************************************)
(* Proofs about what an extension adds and runs.                           *)
(*                                                                         *)
(* First, CarrierAuthority: the answers of a class and those of the        *)
(* instances that compose it are final, for any classes, definitions,      *)
(* packs, instances and addresses.  The invariant says what the sealing    *)
(* rests on.  The kernels are frozen only when the class has been looked   *)
(* at, and no registration is accepted after that; so the answer, computed *)
(* again from the registries at any time, is the one that was told.  An    *)
(* instance has asked the class that it composes before it has a snapshot, *)
(* and two living instances have different addresses, so that a late       *)
(* callback removes no other's.                                            *)
(*                                                                         *)
(* Then, ProviderTransaction: calls settle their operands, for any         *)
(* carriers, values, operands (which may share a carrier) and anything     *)
(* provider code does to them.                                             *)
(***************************************************************************)
EXTENDS CarrierAuthority, ProviderTransaction, SequenceTheorems, TLAPS

Stages == {"none", "built", "generated", "final", "collected", "forgotten"}

Shapes ==
    /\ definitions = [c \in CarrierClass |-> definitions[c]]
    /\ declared = [c \in CarrierClass |-> declared[c]]
    /\ told = [c \in CarrierClass |-> told[c]]
    /\ frozenKernels = [c \in CarrierClass |-> frozenKernels[c]]
    /\ snapshots = [a \in Address |-> [reference |-> snapshots[a].reference, entries |-> snapshots[a].entries]]
    /\ instances = [i \in Instance |-> [at |-> instances[i].at, address |-> instances[i].address,
                                        entries |-> instances[i].entries]]
    /\ \A i \in Instance : instances[i].at \in Stages /\ (instances[i].at # "none" => instances[i].address \in Address)
    /\ observed \subseteq CarrierClass
    /\ packs = accepted

(* The packs of a class, in the place that registration gives them.        *)
Places(c) == Ordered(definitions[c].kernels, {k \in accepted : k.class = c})

(* The kernels are frozen by a look at the class, and completely.          *)
Frozen ==
    \A c \in CarrierClass :
        /\ definitions[c] = Undecided \/ declared[c] = Undecided
        /\ frozenKernels[c] # Undecided =>
              c \in observed /\ definitions[c] # Undecided /\ frozenKernels[c] = Places(c)

(* The answer of a class by the registries alone.                          *)
Registered(c) == IF definitions[c] # Undecided THEN Capabilities(Places(c))
                 ELSE IF declared[c] # Undecided THEN declared[c] ELSE {}

Told == \A c \in CarrierClass : told[c] # Undecided => c \in observed /\ Registered(c) = told[c]

Snapshotted ==
    /\ \A i, j \in Instance : Living(i) /\ Living(j) /\ i # j => instances[i].address # instances[j].address
    /\ \A i \in Instance :
          /\ instances[i].at \in {"generated", "final"} =>
                Composes[i] \in observed /\ instances[i].entries = Registered(Composes[i])
          /\ instances[i].at = "final" =>
                HasSnapshot(i) /\ SnapshotOf(i).entries = Registered(Composes[i])

Sealed == Shapes /\ Frozen /\ Told /\ Snapshotted
-----------------------------------------------------------------------------
(* What is asked is what the registries say, frozen or not.                *)
LEMMA AnswerIsRegistered ==
    ASSUME Shapes, Frozen, NEW c \in CarrierClass PROVE Answer(c) = Registered(c)
<1>1. /\ frozenKernels = [d \in CarrierClass |-> frozenKernels[d]]
      /\ definitions = [d \in CarrierClass |-> definitions[d]]
      /\ packs = accepted
  BY DEF Shapes
<1>2. CASE definitions[c] # Undecided
  <2>1. FrozenBy(c)[c] = Places(c)
    BY <1>1, <1>2 DEF Frozen, FrozenBy, Places
  <2> QED BY <2>1, <1>2 DEF Answer, Registered
<1>3. CASE definitions[c] = Undecided
  BY <1>3 DEF Answer, Registered
<1> QED BY <1>2, <1>3
(* A look freezes the kernels of a class that has a definition, in place.  *)
LEMMA LookFreezes ==
    ASSUME Shapes, Frozen, NEW c \in CarrierClass
    PROVE  /\ FrozenBy(c) = [d \in CarrierClass |-> FrozenBy(c)[d]]
           /\ \A d \in CarrierClass : FrozenBy(c)[d] # Undecided =>
                 d \in observed \union {c} /\ definitions[d] # Undecided /\ FrozenBy(c)[d] = Places(d)
<1>1. /\ frozenKernels = [d \in CarrierClass |-> frozenKernels[d]]
      /\ definitions = [d \in CarrierClass |-> definitions[d]]
      /\ packs = accepted
  BY DEF Shapes
<1>2. CASE definitions[c] # Undecided /\ frozenKernels[c] = Undecided
  <2>1. FrozenBy(c) = [frozenKernels EXCEPT ![c] = Places(c)]
    BY <1>1, <1>2 DEF FrozenBy, Places
  <2> QED BY <2>1, <1>1, <1>2 DEF Frozen
<1>3. CASE ~(definitions[c] # Undecided /\ frozenKernels[c] = Undecided)
  <2>1. FrozenBy(c) = frozenKernels
    BY <1>1, <1>3 DEF FrozenBy
  <2> QED BY <2>1, <1>1 DEF Frozen
<1> QED BY <1>2, <1>3

(* What a step leaves of the registries: what has been looked at stays as  *)
(* it was.                                                                 *)
RegistriesKept ==
    /\ definitions' = [c \in CarrierClass |-> definitions'[c]]
    /\ declared' = [c \in CarrierClass |-> declared'[c]]
    /\ frozenKernels' = [c \in CarrierClass |-> frozenKernels'[c]]
    /\ observed \subseteq observed' /\ observed' \subseteq CarrierClass
    /\ packs' = accepted'
    /\ Frozen'
    /\ \A c \in observed : Registered(c)' = Registered(c)

(* The place of the packs of a class when its registrations are unchanged. *)
LEMMA PlacesKept ==
    ASSUME NEW c \in CarrierClass, definitions'[c] = definitions[c],
           {k \in accepted' : k.class = c} = {k \in accepted : k.class = c}
    PROVE  Places(c)' = Places(c)
  BY DEF Places

LEMMA DefinitionKept ==
    ASSUME Shapes, Frozen, NEW c \in CarrierClass, NEW d \in Definition, RegisterDefinition(c, d)
    PROVE  RegistriesKept
<1>1. /\ definitions' = [definitions EXCEPT ![c] = d] /\ declared[c] = Undecided /\ c \notin observed
      /\ UNCHANGED <<packs, accepted, observed, frozenKernels, declared>>
  BY DEF RegisterDefinition
<1>2. /\ definitions = [x \in CarrierClass |-> definitions[x]]
      /\ packs = accepted /\ observed \subseteq CarrierClass
      /\ declared = [x \in CarrierClass |-> declared[x]]
      /\ frozenKernels = [x \in CarrierClass |-> frozenKernels[x]]
  BY DEF Shapes
<1>3. \A x \in CarrierClass : x # c => definitions'[x] = definitions[x]
  BY <1>1, <1>2
<1>4. \A x \in CarrierClass : x # c => Places(x)' = Places(x)
  BY <1>1, <1>3, PlacesKept
<1>5. Frozen'
  BY <1>1, <1>2, <1>3, <1>4 DEF Frozen
<1>6. \A x \in observed : Registered(x)' = Registered(x)
  BY <1>1, <1>2, <1>3, <1>4 DEF Registered
<1>7. definitions' = [x \in CarrierClass |-> definitions'[x]]
  BY <1>1, <1>2
<1> QED BY <1>1, <1>2, <1>5, <1>6, <1>7 DEF RegistriesKept

LEMMA PackKept ==
    ASSUME Shapes, Frozen, NEW k \in Pack, RegisterPack(k)
    PROVE  RegistriesKept
<1>1. /\ packs' = packs \union {k} /\ accepted' = accepted \union {k} /\ k.class \notin observed
      /\ UNCHANGED <<definitions, observed, frozenKernels, declared>>
  BY DEF RegisterPack, Attachable
<1>2. /\ definitions = [x \in CarrierClass |-> definitions[x]]
      /\ packs = accepted /\ observed \subseteq CarrierClass
      /\ declared = [x \in CarrierClass |-> declared[x]]
      /\ frozenKernels = [x \in CarrierClass |-> frozenKernels[x]]
  BY DEF Shapes
<1>3. \A x \in CarrierClass : x # k.class => {j \in accepted' : j.class = x} = {j \in accepted : j.class = x}
  BY <1>1
<1>4. \A x \in CarrierClass : x # k.class => Places(x)' = Places(x)
  BY <1>1, <1>3, PlacesKept
<1>5. Frozen'
  BY <1>1, <1>2, <1>4 DEF Frozen
<1>6. \A x \in observed : Registered(x)' = Registered(x)
  BY <1>1, <1>2, <1>4 DEF Registered
<1> QED BY <1>1, <1>2, <1>5, <1>6 DEF RegistriesKept

LEMMA CapabilitiesKept ==
    ASSUME Shapes, Frozen, NEW c \in CarrierClass, NEW s \in SUBSET Capability, RegisterCapabilities(c, s)
    PROVE  RegistriesKept
<1>1. /\ declared' = [declared EXCEPT ![c] = s] /\ definitions[c] = Undecided /\ c \notin observed
      /\ UNCHANGED <<packs, accepted, observed, frozenKernels, definitions>>
  BY DEF RegisterCapabilities
<1>2. /\ definitions = [x \in CarrierClass |-> definitions[x]]
      /\ packs = accepted /\ observed \subseteq CarrierClass
      /\ declared = [x \in CarrierClass |-> declared[x]]
      /\ frozenKernels = [x \in CarrierClass |-> frozenKernels[x]]
  BY DEF Shapes
<1>3. \A x \in CarrierClass : x # c => declared'[x] = declared[x]
  BY <1>1, <1>2
<1>4. \A x \in CarrierClass : Places(x)' = Places(x)
  BY <1>1, PlacesKept
<1>5. Frozen'
  BY <1>1, <1>2, <1>3, <1>4 DEF Frozen
<1>6. \A x \in observed : Registered(x)' = Registered(x)
  BY <1>1, <1>2, <1>3, <1>4 DEF Registered
<1>7. declared' = [x \in CarrierClass |-> declared'[x]]
  BY <1>1, <1>2
<1> QED BY <1>1, <1>2, <1>5, <1>6, <1>7 DEF RegistriesKept

(* A look, and an answer, which may declare that nothing is executed.      *)
LEMMA LookKept ==
    ASSUME Shapes, Frozen, NEW c \in CarrierClass,
           observed' = observed \union {c}, frozenKernels' = FrozenBy(c),
           \/ declared' = declared
           \/ declared' = [declared EXCEPT ![c] = {}] /\ definitions[c] = Undecided /\ declared[c] = Undecided,
           UNCHANGED <<definitions, packs, accepted>>
    PROVE  RegistriesKept /\ Registered(c)' = Registered(c)
<1>2. /\ definitions = [x \in CarrierClass |-> definitions[x]]
      /\ packs = accepted /\ observed \subseteq CarrierClass
      /\ declared = [x \in CarrierClass |-> declared[x]]
  BY DEF Shapes
<1>3. \A x \in CarrierClass : \/ declared'[x] = declared[x]
                              \/ declared'[x] = {} /\ declared[x] = Undecided /\ definitions[x] = Undecided
  BY <1>2
<1>4. \A x \in CarrierClass : Places(x)' = Places(x)
  BY PlacesKept
<1>5. Frozen'
  BY <1>2, <1>3, <1>4, LookFreezes DEF Frozen
<1>6. \A x \in CarrierClass : Registered(x)' = Registered(x)
  BY <1>2, <1>3, <1>4 DEF Registered
<1>7. declared' = [x \in CarrierClass |-> declared'[x]]
  BY <1>2
<1>8. frozenKernels' = [x \in CarrierClass |-> frozenKernels'[x]]
  BY LookFreezes
<1> QED BY <1>2, <1>5, <1>6, <1>7, <1>8 DEF RegistriesKept
-----------------------------------------------------------------------------
(* The parts that a step of the registries alone leaves.                   *)
LEMMA ToldKept ==
    ASSUME Shapes, Told, RegistriesKept, told' = told
    PROVE  Told'
  BY DEF Told, RegistriesKept, Shapes

LEMMA SnapshottedKept ==
    ASSUME Snapshotted, RegistriesKept, UNCHANGED <<snapshots, instances>>
    PROVE  Snapshotted'
<1>1. \A i \in Instance : (HasSnapshot(i) <=> HasSnapshot(i)') /\ SnapshotOf(i)' = SnapshotOf(i) /\ (Living(i) <=> Living(i)')
  BY DEF HasSnapshot, SnapshotOf, Living
<1>2. ASSUME NEW i \in Instance, instances[i].at \in {"generated", "final"}
      PROVE  Composes[i] \in observed' /\ Registered(Composes[i])' = Registered(Composes[i])
  BY <1>2 DEF Snapshotted, RegistriesKept
<1> QED BY <1>1, <1>2 DEF Snapshotted

LEMMA ShapesKept ==
    ASSUME Shapes, RegistriesKept, UNCHANGED <<snapshots, instances>>, told' = [c \in CarrierClass |-> told'[c]]
    PROVE  Shapes'
<1>1. UNCHANGED <<snapshots, instances>>
  OBVIOUS
<1> QED BY <1>1 DEF Shapes, RegistriesKept

(* The answer that is told is the one of the registries, then and later.   *)
LEMMA AnsweredKept ==
    ASSUME Shapes, Frozen, Told, NEW c \in CarrierClass, Answered(c)
    PROVE  /\ RegistriesKept /\ Told' /\ told' = [d \in CarrierClass |-> told'[d]]
           /\ Registered(c)' = Answer(c) /\ c \in observed'
<1>1. /\ observed' = observed \union {c} /\ frozenKernels' = FrozenBy(c)
      /\ \/ declared' = declared
         \/ declared' = [declared EXCEPT ![c] = {}] /\ definitions[c] = Undecided /\ declared[c] = Undecided
      /\ UNCHANGED <<definitions, packs, accepted>>
      /\ told' = IF told[c] = Undecided THEN [told EXCEPT ![c] = Answer(c)] ELSE told
  BY DEF Answered
<1>2. RegistriesKept /\ Registered(c)' = Registered(c)
  BY <1>1, LookKept
<1>3. Answer(c) = Registered(c)
  BY AnswerIsRegistered
<1>4. told = [d \in CarrierClass |-> told[d]]
  BY DEF Shapes
<1>5. told' = [d \in CarrierClass |-> told'[d]]
  BY <1>1, <1>4
<1>6. ASSUME NEW d \in CarrierClass, told'[d] # Undecided
      PROVE  d \in observed' /\ Registered(d)' = told'[d]
  <2>1. CASE told[c] = Undecided /\ d = c
    <3>1. told'[d] = Answer(c)
      BY <2>1, <1>1, <1>4
    <3> QED BY <3>1, <2>1, <1>1, <1>2, <1>3
  <2>2. CASE ~(told[c] = Undecided /\ d = c)
    <3>1. told'[d] = told[d]
      BY <2>2, <1>1, <1>4
    <3> QED BY <3>1, <1>2, <1>6 DEF Told, RegistriesKept
  <2> QED BY <2>1, <2>2
<1>7. Told'
  BY <1>6 DEF Told
<1> QED BY <1>1, <1>2, <1>3, <1>5, <1>7
(* A step of an instance that leaves the registries as they are.           *)
registriesVars == <<definitions, packs, observed, frozenKernels, declared, accepted, told>>

LEMMA QuietKept ==
    ASSUME Shapes, Frozen, Told, UNCHANGED registriesVars
    PROVE  RegistriesKept /\ Told' /\ told' = [c \in CarrierClass |-> told'[c]]
<1>1. UNCHANGED <<definitions, packs, observed, frozenKernels, declared, accepted, told>>
  BY DEF registriesVars
<1> QED BY <1>1 DEF RegistriesKept, Shapes, Frozen, Told, Places, Registered

LEMMA GeneratedRecord ==
    ASSUME NEW x, NEW said, x = [at |-> x.at, address |-> x.address, entries |-> x.entries]
    PROVE  [x EXCEPT !.at = "generated", !.entries = said] = [at |-> "generated", address |-> x.address, entries |-> said]
<1> DEFINE y == [x EXCEPT !.at = "generated"]
<1>1. y = [at |-> "generated", address |-> x.address, entries |-> x.entries]
  OBVIOUS
<1>2. ASSUME NEW z, z = [at |-> z.at, address |-> z.address, entries |-> z.entries]
      PROVE  [z EXCEPT !.entries = said] = [at |-> z.at, address |-> z.address, entries |-> said]
  BY <1>2
<1>3. y = [at |-> y.at, address |-> y.address, entries |-> y.entries] /\ y.at = "generated" /\ y.address = x.address
  BY <1>1
<1>4. [x EXCEPT !.at = "generated", !.entries = said] = [y EXCEPT !.entries = said]
  OBVIOUS
<1> HIDE DEF y
<1> QED BY <1>2, <1>3, <1>4

(* One instance changes, to the record r.                                  *)
LEMMA InstanceChanges ==
    ASSUME Shapes, NEW i \in Instance, NEW r, r.at \in Stages, r = [at |-> r.at, address |-> r.address, entries |-> r.entries],
           r.at # "none" => r.address \in Address,
           instances' = [instances EXCEPT ![i] = r], RegistriesKept, told' = [c \in CarrierClass |-> told'[c]],
           \/ UNCHANGED snapshots
           \/ \E a \in Address : \E ref, es : snapshots' = [snapshots EXCEPT ![a] = [reference |-> ref, entries |-> es]]
    PROVE  /\ Shapes' /\ instances'[i] = r
           /\ \A j \in Instance : j # i => instances'[j] = instances[j]
<1>1. instances = [j \in Instance |-> [at |-> instances[j].at, address |-> instances[j].address,
                                        entries |-> instances[j].entries]]
  BY DEF Shapes
<1>2. instances'[i] = r /\ \A j \in Instance : j # i => instances'[j] = instances[j]
  BY <1>1
<1>3. instances' = [j \in Instance |-> [at |-> instances'[j].at, address |-> instances'[j].address,
                                        entries |-> instances'[j].entries]]
  BY <1>1, <1>2
<1>4. \A j \in Instance : instances'[j].at \in Stages /\ (instances'[j].at # "none" => instances'[j].address \in Address)
  BY <1>2 DEF Shapes
<1>5. snapshots' = [a \in Address |-> [reference |-> snapshots'[a].reference, entries |-> snapshots'[a].entries]]
  <2>1. snapshots = [a \in Address |-> [reference |-> snapshots[a].reference, entries |-> snapshots[a].entries]]
    BY DEF Shapes
  <2>2. CASE UNCHANGED snapshots
    BY <2>1, <2>2
  <2>3. ASSUME NEW a \in Address, NEW ref, NEW es, snapshots' = [snapshots EXCEPT ![a] = [reference |-> ref, entries |-> es]]
        PROVE  snapshots' = [b \in Address |-> [reference |-> snapshots'[b].reference, entries |-> snapshots'[b].entries]]
    <3>1. snapshots'[a] = [reference |-> ref, entries |-> es] /\ \A b \in Address : b # a => snapshots'[b] = snapshots[b]
      BY <2>1, <2>3
    <3> QED BY ONLY <2>1, <2>3, <3>1
  <2> QED BY <2>2, <2>3
<1> QED BY <1>2, <1>3, <1>4, <1>5 DEF Shapes, RegistriesKept

-----------------------------------------------------------------------------
(* The invariant holds whatever is registered, asked, composed and         *)
(* reclaimed, in any order.                                                *)
THEOREM SealedHolds == AuthoritySpec => []Sealed
<1>1. AuthorityInit => Sealed
  <2> SUFFICES ASSUME AuthorityInit PROVE Sealed
    OBVIOUS
  <2>1. Shapes
    BY DEF AuthorityInit, Shapes, Stages, NoSnapshot
  <2>2. Frozen /\ Told /\ Snapshotted
    BY DEF AuthorityInit, Frozen, Told, Snapshotted, Living
  <2> QED BY <2>1, <2>2 DEF Sealed
<1>2. Sealed /\ [AuthorityNext]_authorityVars => Sealed'
  <2> SUFFICES ASSUME Sealed, [AuthorityNext]_authorityVars PROVE Sealed'
    OBVIOUS
  <2>0. Shapes /\ Frozen /\ Told /\ Snapshotted
    BY DEF Sealed
  <2>1. ASSUME RegistriesKept, UNCHANGED <<snapshots, instances, told>>
        PROVE  Sealed'
    <3>1. told' = [c \in CarrierClass |-> told'[c]]
      BY <2>0, <2>1 DEF Shapes
    <3>2. Shapes' /\ Told' /\ Snapshotted'
      BY <2>0, <2>1, <3>1, ShapesKept, ToldKept, SnapshottedKept
    <3> QED BY <3>2, <2>1 DEF Sealed, RegistriesKept
  <2>2. ASSUME NEW c \in CarrierClass, NEW d \in Definition, RegisterDefinition(c, d)
        PROVE  Sealed'
    BY <2>0, <2>1, <2>2, DefinitionKept DEF RegisterDefinition
  <2>3. ASSUME NEW c \in CarrierClass, NEW s \in SUBSET Capability, RegisterCapabilities(c, s)
        PROVE  Sealed'
    BY <2>0, <2>1, <2>3, CapabilitiesKept DEF RegisterCapabilities
  <2>4. ASSUME NEW k \in Pack, RegisterPack(k)
        PROVE  Sealed'
    BY <2>0, <2>1, <2>4, PackKept DEF RegisterPack
  <2>5. ASSUME NEW c \in CarrierClass, LookAt(c)
        PROVE  Sealed'
    BY <2>0, <2>1, <2>5, LookKept DEF LookAt, registryVars
  <2>6. ASSUME NEW c \in CarrierClass, AskClass(c)
        PROVE  Sealed'
    <3>1. Answered(c) /\ UNCHANGED <<snapshots, instances>>
      BY <2>6 DEF AskClass
    <3>2. RegistriesKept /\ Told' /\ told' = [d \in CarrierClass |-> told'[d]]
      BY <3>1, <2>0, AnsweredKept
    <3>3. Shapes' /\ Snapshotted'
      BY <2>0, <3>1, <3>2, ShapesKept, SnapshottedKept
    <3> QED BY <3>2, <3>3 DEF Sealed, RegistriesKept
  <2>7. CASE UNCHANGED authorityVars
    <3>1. UNCHANGED registriesVars /\ UNCHANGED <<snapshots, instances, told>>
      BY <2>7 DEF authorityVars, registriesVars
    <3>2. RegistriesKept
      BY <3>1, <2>0, QuietKept
    <3> QED BY <3>1, <3>2, <2>1
  <2>8. ASSUME NEW i \in Instance, NEW a \in Address, ConstructInstance(i, a)
        PROVE  Sealed'
    <3> DEFINE r == [at |-> "built", address |-> a, entries |-> {}]
    <3>1. /\ instances' = [instances EXCEPT ![i] = r] /\ UNCHANGED snapshots
          /\ UNCHANGED registriesVars
          /\ instances[i].at = "none" /\ \A j \in Instance : Living(j) => instances[j].address # a
      BY <2>8 DEF ConstructInstance, registryVars, registriesVars
    <3>2. RegistriesKept /\ Told' /\ told' = [c \in CarrierClass |-> told'[c]]
      BY <2>0, <3>1, QuietKept
    <3>3. /\ Shapes' /\ instances'[i] = r
          /\ \A j \in Instance : j # i => instances'[j] = instances[j]
      <4>1. r.at \in Stages /\ r.address \in Address /\ r = [at |-> r.at, address |-> r.address, entries |-> r.entries]
        BY DEF Stages
      <4> HIDE DEF r
      <4> QED BY <2>0, <3>1, <3>2, <4>1, InstanceChanges
    <3>4. \A j \in Instance : j # i => (Living(j)' <=> Living(j)) /\ SnapshotOf(j)' = SnapshotOf(j) /\ (HasSnapshot(j)' <=> HasSnapshot(j))
      BY <3>1, <3>3 DEF Living, SnapshotOf, HasSnapshot
    <3>5. instances'[i].at = "built" /\ instances'[i].address = a
      BY <3>3
    <3>6. \A j, l \in Instance : Living(j)' /\ Living(l)' /\ j # l => instances'[j].address # instances'[l].address
      BY <2>0, <3>1, <3>3, <3>4, <3>5 DEF Snapshotted
    <3>7. \A j \in Instance :
             /\ instances'[j].at \in {"generated", "final"} =>
                  Composes[j] \in observed' /\ instances'[j].entries = Registered(Composes[j])'
             /\ instances'[j].at = "final" =>
                  HasSnapshot(j)' /\ SnapshotOf(j)'.entries = Registered(Composes[j])'
      BY <2>0, <3>2, <3>3, <3>4, <3>5 DEF Snapshotted, RegistriesKept
    <3>8. Snapshotted'
      BY <3>6, <3>7 DEF Snapshotted
    <3> QED BY <3>2, <3>3, <3>8 DEF Sealed, RegistriesKept
  <2>9. ASSUME NEW i \in Instance, GenerateInstance(i)
        PROVE  Sealed'
    <3> DEFINE r == [instances[i] EXCEPT !.at = "generated", !.entries = Answer(Composes[i])]
    <3>1. /\ instances' = [instances EXCEPT ![i] = r] /\ UNCHANGED snapshots
          /\ instances[i].at = "built" /\ Answered(Composes[i]) /\ Composes[i] \in CarrierClass
      BY <2>9, AuthorityAssumption DEF GenerateInstance
    <3>2. /\ RegistriesKept /\ Told' /\ told' = [c \in CarrierClass |-> told'[c]]
          /\ Registered(Composes[i])' = Answer(Composes[i]) /\ Composes[i] \in observed'
      BY <2>0, <3>1, AnsweredKept
    <3>0. instances[i] = [at |-> instances[i].at, address |-> instances[i].address, entries |-> instances[i].entries]
      BY <2>0 DEF Shapes
    <3>9. r = [at |-> "generated", address |-> instances[i].address, entries |-> Answer(Composes[i])]
      BY <3>0, GeneratedRecord
    <3>3. /\ Shapes' /\ instances'[i] = r
          /\ \A j \in Instance : j # i => instances'[j] = instances[j]
      <4>1. r.at \in Stages /\ r.address \in Address /\ r = [at |-> r.at, address |-> r.address, entries |-> r.entries]
        BY <2>0, <3>1, <3>9 DEF Stages, Shapes
      <4> HIDE DEF r
      <4> QED BY <2>0, <3>1, <3>2, <4>1, InstanceChanges
    <3>4. \A j \in Instance : j # i => (Living(j)' <=> Living(j)) /\ SnapshotOf(j)' = SnapshotOf(j) /\ (HasSnapshot(j)' <=> HasSnapshot(j))
      BY <3>1, <3>3 DEF Living, SnapshotOf, HasSnapshot
    <3>5. /\ instances'[i].at = "generated" /\ instances'[i].address = instances[i].address /\ Living(i)
          /\ instances'[i].entries = Answer(Composes[i])
      BY <3>1, <3>3, <3>9 DEF Living
    <3> HIDE DEF r
    <3>6. \A j, l \in Instance : Living(j)' /\ Living(l)' /\ j # l => instances'[j].address # instances'[l].address
      BY <2>0, <3>3, <3>4, <3>5 DEF Snapshotted
    <3>7. \A j \in Instance :
             /\ instances'[j].at \in {"generated", "final"} =>
                  Composes[j] \in observed' /\ instances'[j].entries = Registered(Composes[j])'
             /\ instances'[j].at = "final" =>
                  HasSnapshot(j)' /\ SnapshotOf(j)'.entries = Registered(Composes[j])'
      BY <2>0, <3>2, <3>3, <3>4, <3>5 DEF Snapshotted, RegistriesKept
    <3>8. Snapshotted'
      BY <3>6, <3>7 DEF Snapshotted
    <3> QED BY <3>2, <3>3, <3>8 DEF Sealed, RegistriesKept
  <2>10. ASSUME NEW i \in Instance, FreezeInstance(i)
         PROVE  Sealed'
    <3> DEFINE r == [instances[i] EXCEPT !.at = "final"]
               s == [reference |-> i, entries |-> instances[i].entries]
    <3>1. /\ instances' = [instances EXCEPT ![i] = r]
          /\ snapshots' = [snapshots EXCEPT ![instances[i].address] = s]
          /\ UNCHANGED registriesVars
          /\ instances[i].at = "generated"
      BY <2>10 DEF FreezeInstance, registryVars, registriesVars
    <3>2. RegistriesKept /\ Told' /\ told' = [c \in CarrierClass |-> told'[c]]
      BY <2>0, <3>1, QuietKept
    <3>0. /\ instances[i] = [at |-> instances[i].at, address |-> instances[i].address, entries |-> instances[i].entries]
          /\ instances[i].address \in Address
      BY <2>0, <3>1 DEF Shapes
    <3>9. r = [at |-> "final", address |-> instances[i].address, entries |-> instances[i].entries]
      BY ONLY <3>0
    <3>3. /\ Shapes' /\ instances'[i] = r
          /\ \A j \in Instance : j # i => instances'[j] = instances[j]
      <4>1. r.at \in Stages /\ r.address \in Address /\ r = [at |-> r.at, address |-> r.address, entries |-> r.entries]
        BY <3>0, <3>9 DEF Stages
      <4> HIDE DEF r
      <4> QED BY <2>0, <3>0, <3>1, <3>2, <4>1, InstanceChanges
    <3>5. /\ instances'[i].at = "final" /\ instances'[i].address = instances[i].address
          /\ instances'[i].entries = instances[i].entries /\ Living(i)
      BY <3>1, <3>3, <3>9 DEF Living
    <3> HIDE DEF r
    <3>11. /\ snapshots'[instances[i].address] = s
           /\ \A a \in Address : a # instances[i].address => snapshots'[a] = snapshots[a]
      <4>1. DOMAIN snapshots = Address
        BY <2>0 DEF Shapes
      <4> QED BY ONLY <4>1, <3>1, <3>0
    <3>12. HasSnapshot(i)' /\ SnapshotOf(i)'.entries = instances[i].entries
      BY <3>5, <3>11 DEF HasSnapshot, SnapshotOf
    <3> HIDE DEF s
    <3>4. \A j \in Instance : j # i => (Living(j)' <=> Living(j))
      BY <3>3 DEF Living
    <3>13. \A j \in Instance : j # i /\ instances[j].at = "final" =>
               SnapshotOf(j)' = SnapshotOf(j) /\ (HasSnapshot(j)' <=> HasSnapshot(j))
      <4> SUFFICES ASSUME NEW j \in Instance, j # i, instances[j].at = "final"
                   PROVE  SnapshotOf(j)' = SnapshotOf(j) /\ (HasSnapshot(j)' <=> HasSnapshot(j))
        OBVIOUS
      <4>1. instances[j].address # instances[i].address /\ instances[j].address \in Address
        BY <2>0, <3>5 DEF Snapshotted, Living, Shapes
      <4> QED BY <4>1, <3>3, <3>11 DEF SnapshotOf, HasSnapshot
    <3>6. \A j, l \in Instance : Living(j)' /\ Living(l)' /\ j # l => instances'[j].address # instances'[l].address
      BY <2>0, <3>3, <3>4, <3>5 DEF Snapshotted
    <3>7. \A j \in Instance :
             /\ instances'[j].at \in {"generated", "final"} =>
                  Composes[j] \in observed' /\ instances'[j].entries = Registered(Composes[j])'
             /\ instances'[j].at = "final" =>
                  HasSnapshot(j)' /\ SnapshotOf(j)'.entries = Registered(Composes[j])'
      BY <2>0, <3>1, <3>2, <3>3, <3>12, <3>13, <3>5 DEF Snapshotted, RegistriesKept
    <3>8. Snapshotted'
      BY <3>6, <3>7 DEF Snapshotted
    <3> QED BY <3>2, <3>3, <3>8 DEF Sealed, RegistriesKept
  <2>11. ASSUME NEW i \in Instance, ReclaimInstance(i)
         PROVE  Sealed'
    <3> DEFINE to == IF instances[i].at = "final" THEN "collected" ELSE "forgotten"
               r == [instances[i] EXCEPT !.at = to]
    <3>1. /\ instances' = [instances EXCEPT ![i] = r] /\ UNCHANGED snapshots
          /\ UNCHANGED registriesVars /\ Living(i)
      BY <2>11 DEF ReclaimInstance, registryVars, registriesVars
    <3>2. RegistriesKept /\ Told' /\ told' = [c \in CarrierClass |-> told'[c]]
      BY <2>0, <3>1, QuietKept
    <3>0. /\ instances[i] = [at |-> instances[i].at, address |-> instances[i].address, entries |-> instances[i].entries]
          /\ instances[i].address \in Address
      BY <2>0, <3>1 DEF Shapes, Living
    <3>9. r = [at |-> to, address |-> instances[i].address, entries |-> instances[i].entries]
      BY ONLY <3>0
    <3>10. to \in {"collected", "forgotten"}
      OBVIOUS
    <3> HIDE DEF to
    <3>3. /\ Shapes' /\ instances'[i] = r
          /\ \A j \in Instance : j # i => instances'[j] = instances[j]
      <4>1. r.at \in Stages /\ r.address \in Address /\ r = [at |-> r.at, address |-> r.address, entries |-> r.entries]
        BY <3>0, <3>9, <3>10 DEF Stages
      <4> HIDE DEF r
      <4> QED BY <2>0, <3>1, <3>2, <4>1, InstanceChanges
    <3>4. \A j \in Instance : j # i => (Living(j)' <=> Living(j)) /\ SnapshotOf(j)' = SnapshotOf(j) /\ (HasSnapshot(j)' <=> HasSnapshot(j))
      BY <3>1, <3>3 DEF Living, SnapshotOf, HasSnapshot
    <3>5. instances'[i].at \in {"collected", "forgotten"} /\ ~Living(i)'
      BY <3>3, <3>9, <3>10 DEF Living
    <3> HIDE DEF r
    <3>6. \A j, l \in Instance : Living(j)' /\ Living(l)' /\ j # l => instances'[j].address # instances'[l].address
      BY <2>0, <3>3, <3>4, <3>5 DEF Snapshotted
    <3>7. \A j \in Instance :
             /\ instances'[j].at \in {"generated", "final"} =>
                  Composes[j] \in observed' /\ instances'[j].entries = Registered(Composes[j])'
             /\ instances'[j].at = "final" =>
                  HasSnapshot(j)' /\ SnapshotOf(j)'.entries = Registered(Composes[j])'
      BY <2>0, <3>2, <3>3, <3>4, <3>5 DEF Snapshotted, RegistriesKept
    <3>8. Snapshotted'
      BY <3>6, <3>7 DEF Snapshotted
    <3> QED BY <3>2, <3>3, <3>8 DEF Sealed, RegistriesKept
  <2>12. ASSUME NEW i \in Instance, ForgetInstance(i)
         PROVE  Sealed'
    <3> DEFINE r == [instances[i] EXCEPT !.at = "forgotten"]
    <3>1. /\ instances' = [instances EXCEPT ![i] = r]
          /\ snapshots' = IF HasSnapshot(i) THEN [snapshots EXCEPT ![instances[i].address] = NoSnapshot] ELSE snapshots
          /\ UNCHANGED registriesVars /\ instances[i].at = "collected"
      BY <2>12 DEF ForgetInstance, registryVars, registriesVars
    <3>2. RegistriesKept /\ Told' /\ told' = [c \in CarrierClass |-> told'[c]]
      BY <2>0, <3>1, QuietKept
    <3>0. /\ instances[i] = [at |-> instances[i].at, address |-> instances[i].address, entries |-> instances[i].entries]
          /\ instances[i].address \in Address
      BY <2>0, <3>1 DEF Shapes
    <3>9. r = [at |-> "forgotten", address |-> instances[i].address, entries |-> instances[i].entries]
      BY ONLY <3>0
    <3>3. /\ Shapes' /\ instances'[i] = r
          /\ \A j \in Instance : j # i => instances'[j] = instances[j]
      <4>1. r.at \in Stages /\ r.address \in Address /\ r = [at |-> r.at, address |-> r.address, entries |-> r.entries]
        BY <3>0, <3>9 DEF Stages
      <4>2. \/ UNCHANGED snapshots
            \/ \E a \in Address : \E ref, es : snapshots' = [snapshots EXCEPT ![a] = [reference |-> ref, entries |-> es]]
        BY <3>1, <3>0 DEF NoSnapshot
      <4> HIDE DEF r
      <4> QED BY <2>0, <3>1, <3>2, <4>1, <4>2, InstanceChanges
    <3>5. instances'[i].at = "forgotten" /\ ~Living(i)'
      BY <3>3, <3>9 DEF Living
    <3> HIDE DEF r
    <3>4. \A j \in Instance : j # i => (Living(j)' <=> Living(j))
      BY <3>3 DEF Living
    <3>13. ASSUME NEW j \in Instance, j # i, HasSnapshot(j), instances[j].address \in Address
           PROVE  SnapshotOf(j)' = SnapshotOf(j) /\ HasSnapshot(j)'
      <4>1. DOMAIN snapshots = Address
        BY <2>0 DEF Shapes
      <4>2. snapshots'[instances[j].address] = snapshots[instances[j].address]
        <5>1. CASE ~HasSnapshot(i)
          BY <5>1, <3>1
        <5>2. CASE HasSnapshot(i)
          <6>1. instances[j].address # instances[i].address
            BY <5>2, <3>13 DEF HasSnapshot, SnapshotOf
          <6> QED BY <6>1, <5>2, <4>1, <3>1, <3>13
        <5> QED BY <5>1, <5>2
      <4> QED BY <4>2, <3>3, <3>13 DEF SnapshotOf, HasSnapshot
    <3>6. \A j, l \in Instance : Living(j)' /\ Living(l)' /\ j # l => instances'[j].address # instances'[l].address
      BY <2>0, <3>3, <3>4, <3>5 DEF Snapshotted
    <3>14. \A j \in Instance : instances[j].at = "final" => instances[j].address \in Address
      BY <2>0 DEF Shapes
    <3>7. \A j \in Instance :
             /\ instances'[j].at \in {"generated", "final"} =>
                  Composes[j] \in observed' /\ instances'[j].entries = Registered(Composes[j])'
             /\ instances'[j].at = "final" =>
                  HasSnapshot(j)' /\ SnapshotOf(j)'.entries = Registered(Composes[j])'
      BY <2>0, <3>2, <3>3, <3>13, <3>14, <3>5 DEF Snapshotted, RegistriesKept
    <3>8. Snapshotted'
      BY <3>6, <3>7 DEF Snapshotted
    <3> QED BY <3>2, <3>3, <3>8 DEF Sealed, RegistriesKept
  <2> QED BY <2>2, <2>3, <2>4, <2>5, <2>6, <2>7, <2>8, <2>9, <2>10, <2>11, <2>12 DEF AuthorityNext
<1> QED BY <1>1, <1>2, PTL DEF AuthoritySpec

(* The types: a class has a definition or a declaration of capabilities,   *)
(* and an instance that has been made has an address.                      *)
THEOREM AuthorityTyped == AuthoritySpec => []AuthorityTypeOK
<1> DEFINE Registries == /\ definitions \in [CarrierClass -> Definition \union {Undecided}]
                         /\ declared \in [CarrierClass -> {Undecided} \union SUBSET Capability]
                         /\ accepted \subseteq Pack
<1>1. AuthorityInit => Registries
  BY DEF AuthorityInit
<1>2. Registries /\ [AuthorityNext]_authorityVars => Registries'
  <2> SUFFICES ASSUME Registries, [AuthorityNext]_authorityVars PROVE Registries'
    OBVIOUS
  <2>1. ASSUME NEW c \in CarrierClass, NEW d \in Definition, RegisterDefinition(c, d) PROVE Registries'
    BY <2>1 DEF RegisterDefinition
  <2>2. ASSUME NEW c \in CarrierClass, NEW entries \in SUBSET Capability, RegisterCapabilities(c, entries)
        PROVE  Registries'
    BY <2>2 DEF RegisterCapabilities
  <2>3. ASSUME NEW k \in Pack, RegisterPack(k) PROVE Registries'
    BY <2>3 DEF RegisterPack
  <2>4. ASSUME NEW c, Answered(c) PROVE Registries'
    <3>1. declared' = declared \/ declared' = [declared EXCEPT ![c] = {}]
      BY <2>4 DEF Answered
    <3> QED BY <2>4, <3>1 DEF Answered
  <2>5. CASE UNCHANGED registryVars
    BY <2>5 DEF registryVars
  <2>6. ASSUME NEW i \in Instance,
               (\E a \in Address : ConstructInstance(i, a)) \/ FreezeInstance(i) \/ ReclaimInstance(i) \/ ForgetInstance(i)
        PROVE  UNCHANGED registryVars
    BY <2>6 DEF ConstructInstance, FreezeInstance, ReclaimInstance, ForgetInstance
  <2>7. ASSUME NEW i \in Instance, GenerateInstance(i) PROVE Registries'
    BY <2>4, <2>7 DEF GenerateInstance
  <2>8. ASSUME NEW c \in CarrierClass, LookAt(c) \/ AskClass(c) PROVE Registries'
    BY <2>4, <2>5, <2>8 DEF LookAt, AskClass
  <2>9. CASE UNCHANGED authorityVars
    BY <2>9 DEF authorityVars
  <2> HIDE DEF Registries
  <2> QED BY <2>1, <2>2, <2>3, <2>5, <2>6, <2>7, <2>8, <2>9 DEF AuthorityNext
<1>3. Sealed /\ Registries => AuthorityTypeOK
  BY DEF Sealed, Shapes, AuthorityTypeOK
<1> HIDE DEF Registries
<1> QED BY <1>1, <1>2, <1>3, SealedHolds, PTL DEF AuthoritySpec

(* What a class has answered once stays its answer, and is that of one     *)
(* authority in which every accepted pack has its place; an instance that  *)
(* has frozen its capabilities answers for the class it composes until it  *)
(* is collected.                                                           *)
THEOREM AnswersStayFinal == AuthoritySpec => []AnswersFinal
<1>1. Sealed => AnswersFinal
  <2> SUFFICES ASSUME Sealed PROVE AnswersFinal
    OBVIOUS
  <2>1. Shapes /\ Frozen /\ Told /\ Snapshotted
    BY DEF Sealed
  <2>2. \A c \in CarrierClass : Answer(c) = Registered(c)
    BY <2>1, AnswerIsRegistered
  <2>3. \A i \in Instance : Composes[i] \in CarrierClass
    BY AuthorityAssumption
  <2> QED BY <2>1, <2>2, <2>3 DEF AnswersFinal, Frozen, Told, Snapshotted, Places
<1> QED BY <1>1, SealedHolds, PTL
-----------------------------------------------------------------------------
(* The transaction around a provider's call.                               *)

Calling == {"resolve", "prepare", "submit"}
CallPlaces == Calling \union {"idle", "commit", "rollback", "done", "raised"}
Blames == {"none", "mutated", "unsupported", "conflicts", "raised", "unauthorized"}

Runs == [at : CallPlaces, operands : Seq(Backing), mutated : SUBSET Nat, patterns : Nat,
         pos : Nat \ {0}, lost : SUBSET Backing]

(* The carriers whose snapshot has been dealt with.                        *)
Passed(c) == \E i \in 1 .. run.pos - 1 : run.operands[i] = c

Committed(c) == IF Authorized(c) THEN cells[c] = [saved[c] EXCEPT !.val = cells[c].val, !.version = @ + 1]
                ELSE cells[c] = saved[c]
Restored(c) == [cells[c] EXCEPT !.owned = saved[c].owned] = saved[c]

CallShapes ==
    /\ cells \in [Backing -> Cells] /\ saved \in [Backing -> Cells]
    /\ run \in Runs /\ acts \in 0 .. MaxActs /\ blame \in Blames
    /\ \A c \in Backing : saved[c].version = 0
    /\ run.at \in Calling \union {"idle"} => \A c \in Backing : cells[c].version <= acts
    /\ run.at = "idle" => acts = 0
    /\ run.at # "idle" => run.operands # <<>>
    /\ run.at \in {"commit", "rollback"} => run.pos <= Len(run.operands)

(* What is no operand is not touched; a commit and a rollback have dealt   *)
(* with the carriers they have passed, and at their end with all.          *)
Progress ==
    /\ run.at # "idle" => \A c \in Backing : Indices(c) = {} => cells[c] = saved[c]
    /\ run.at = "commit" => \A c \in Backing : Passed(c) => Committed(c)
    /\ run.at = "rollback" => \A c \in Backing \ run.lost : Passed(c) => Restored(c)
    /\ run.at = "done" => \A c \in Backing : Indices(c) # {} => Committed(c)
    /\ run.at = "raised" => \A c \in Backing \ run.lost : Restored(c)

Ledger == CallShapes /\ Progress

(* Two cells are equal when their fields are.                              *)
LEMMA CellsEqual ==
    ASSUME NEW x \in Cells, NEW y \in Cells, x.val = y.val, x.version = y.version,
           x.released = y.released, x.owned = y.owned
    PROVE  x = y
  BY DEF Cells

(* What one update of a cell gives.                                        *)
LEMMA ValUpdate ==
    ASSUME NEW x \in Cells, NEW v \in Element \union {Empty}
    PROVE  [x EXCEPT !.val = v] \in Cells /\ [x EXCEPT !.val = v].version = x.version
  BY DEF Cells

LEMMA FlagUpdates ==
    ASSUME NEW x \in Cells
    PROVE  /\ [x EXCEPT !.owned = TRUE] \in Cells /\ [x EXCEPT !.owned = TRUE].version = x.version
           /\ [x EXCEPT !.val = Empty, !.released = TRUE] \in Cells
           /\ [x EXCEPT !.val = Empty, !.released = TRUE].version = x.version
  BY DEF Cells

LEMMA CellVersion == ASSUME NEW x \in Cells PROVE x.version \in Nat
  BY ProviderAssumption DEF Cells

LEMMA SameKept == ASSUME NEW c \in Backing, CallShapes, cells[c] = saved[c] PROVE Restored(c)
<1>1. saved[c] \in Cells
  BY DEF CallShapes
<1>2. [saved[c] EXCEPT !.owned = saved[c].owned] = saved[c]
  BY <1>1 DEF Cells
<1> QED BY <1>2 DEF Restored

LEMMA Unchanged ==
    ASSUME CallShapes, NEW c \in Backing, ~HasChanged(c)
    PROVE  cells[c] = saved[c]
<1>1. cells[c] \in Cells /\ saved[c] \in Cells
  BY DEF CallShapes
<1>2. /\ cells[c].version = saved[c].version /\ cells[c].released = saved[c].released
      /\ cells[c].owned = saved[c].owned /\ cells[c].val = saved[c].val
  BY <1>1 DEF HasChanged, Moved, SameValue, Cells
<1> QED BY <1>1, <1>2, CellsEqual

LEMMA OperandFacts ==
    ASSUME CallShapes, NEW i \in 1 .. Len(run.operands)
    PROVE  run.operands[i] \in Backing /\ Len(run.operands) \in Nat
  BY ElementOfSeq, LenProperties DEF CallShapes, Runs

(* Steps that only move the run on.                                        *)
LEMMA ProceedsTo ==
    ASSUME CallShapes, NEW at \in CallPlaces, Proceeds(at)
    PROVE  /\ run' \in Runs /\ run'.at = at /\ run'.pos = 1
           /\ run'.operands = run.operands /\ run'.mutated = run.mutated /\ run'.lost = run.lost
<1>1. run \in Runs /\ run' = [run EXCEPT !.at = at, !.pos = 1]
  BY DEF CallShapes, Proceeds
<1>2. 1 \in Nat \ {0}
  OBVIOUS
<1> QED BY <1>1, <1>2 DEF Runs

LEMMA CallLedger ==
    ASSUME Ledger, NEW operands, NEW mutated, NEW n \in 1 .. MaxOperands,
           operands \in [1 .. n -> Backing], mutated \subseteq 1 .. MaxOperands,
           CallProvider(operands, mutated)
    PROVE  Ledger'
<1>1. operands \in Seq(Backing) /\ operands # <<>> /\ mutated \in SUBSET Nat
  <2>1. n \in Nat /\ n # 0
    BY ProviderAssumption
  <2>2. operands \in Seq(Backing)
    BY <2>1, SeqDef
  <2>3. DOMAIN operands = 1 .. n
    OBVIOUS
  <2>4. operands # <<>>
    BY <2>1, <2>3
  <2> QED BY <2>2, <2>4, ProviderAssumption
<1>2. PICK at \in {"resolve", "prepare"} :
         run' = [run EXCEPT !.at = at, !.operands = operands, !.mutated = mutated,
                            !.patterns = IF at = "resolve" THEN 1 ELSE Patterns]
  BY DEF CallProvider
<1>3. run \in Runs /\ run.at = "idle"
  BY DEF Ledger, CallShapes, CallProvider
<1>4. run' \in Runs /\ run'.at \in Calling /\ run'.operands = operands
  BY <1>1, <1>2, <1>3, ProviderAssumption DEF Runs, CallPlaces, Calling
<1>5. UNCHANGED <<cells, blame, acts>> /\ saved' = cells
  BY DEF CallProvider
<1>6. \A c \in Backing : cells[c].version = 0
  <2>1. ASSUME NEW c \in Backing PROVE cells[c].version = 0
    <3>1. acts = 0 /\ cells[c].version <= acts /\ cells[c] \in Cells
      BY <1>3 DEF Ledger, CallShapes
    <3>2. cells[c].version \in Nat
      BY <3>1, CellVersion
    <3> QED BY <3>1, <3>2
  <2> QED BY <2>1
<1>7. CallShapes'
  BY <1>1, <1>3, <1>4, <1>5, <1>6 DEF Ledger, CallShapes, Calling
<1> QED BY <1>4, <1>5, <1>7 DEF Ledger, Progress, Calling

LEMMA ActsLedger ==
    ASSUME Ledger, NEW i \in 1 .. Len(run.operands), ProviderActs(i)
    PROVE  Ledger'
<1> DEFINE c == run.operands[i]
<1>1. c \in Backing /\ run.at \in Calling /\ acts < MaxActs /\ acts' = acts + 1
      /\ UNCHANGED <<saved, run, blame>>
  BY OperandFacts DEF Ledger, ProviderActs, Calling
<1>2. /\ cells \in [Backing -> Cells] /\ acts \in Nat /\ acts' \in 0 .. MaxActs /\ MaxActs \in Nat
      /\ \A d \in Backing : cells[d].version <= acts
  BY <1>1, ProviderAssumption DEF Ledger, CallShapes
<1> DEFINE Sets == \E x \in Cells : cells' = [cells EXCEPT ![c] = x] /\ x.version <= acts'
<1> HIDE DEF c
<1>3. Sets
  <2>1. cells[c] \in Cells /\ cells[c].version \in Nat /\ cells[c].version <= acts
    BY <1>1, <1>2, CellVersion
  <2>2. ASSUME NEW x \in Cells, cells' = [cells EXCEPT ![c] = x], x.version <= acts' PROVE Sets
    BY <2>2
  <2> HIDE DEF Sets
  <2>3. ASSUME NEW x \in Cells, x.version = cells[c].version, cells' = [cells EXCEPT ![c] = x] PROVE Sets
    <3>1. x.version <= acts'
      BY <1>1, <1>2, <2>1, <2>3
    <3> QED BY <2>2, <2>3, <3>1
  <2>4. ASSUME NEW v \in Element \union {Empty}, cells' = [cells EXCEPT ![c].val = v] PROVE Sets
    <3> DEFINE x == [cells[c] EXCEPT !.val = v]
    <3>1. cells' = [cells EXCEPT ![c] = x]
      BY <2>4
    <3>2. x \in Cells /\ x.version = cells[c].version
      BY <2>1, ValUpdate
    <3> HIDE DEF x
    <3> QED BY <2>3, <3>1, <3>2
  <2>5. ASSUME NEW v \in Element, cells' = [cells EXCEPT ![c].val = v, ![c].version = @ + 1] PROVE Sets
    <3> DEFINE n == cells[c].version + 1
               x == [cells[c] EXCEPT !.val = v, !.version = n]
    <3>1. cells' = [cells EXCEPT ![c] = x]
      BY <1>1, <1>2, <2>5
    <3>2. n \in 0 .. MaxActs + 1 /\ n <= acts'
      BY <1>1, <1>2, <2>1
    <3>3. x \in Cells /\ x.version = n
      <4> HIDE DEF n
      <4>1. v \in Element \union {Empty}
        OBVIOUS
      <4> QED BY ONLY <2>1, <3>2, <4>1 DEF Cells
    <3> HIDE DEF n, x
    <3> QED BY <2>2, <3>1, <3>2, <3>3
  <2>6. ASSUME cells' = [cells EXCEPT ![c].val = Empty, ![c].released = TRUE] PROVE Sets
    <3> DEFINE x == [cells[c] EXCEPT !.val = Empty, !.released = TRUE]
    <3>1. cells' = [cells EXCEPT ![c] = x]
      BY <1>1, <1>2, <2>6
    <3>2. x \in Cells /\ x.version = cells[c].version
      BY <2>1, FlagUpdates
    <3> HIDE DEF x
    <3> QED BY <2>3, <3>1, <3>2
  <2>7. ASSUME cells' = [cells EXCEPT ![c].owned = TRUE] PROVE Sets
    <3> DEFINE x == [cells[c] EXCEPT !.owned = TRUE]
    <3>1. cells' = [cells EXCEPT ![c] = x]
      BY <2>7
    <3>2. x \in Cells /\ x.version = cells[c].version
      BY <2>1, FlagUpdates
    <3> HIDE DEF x
    <3> QED BY <2>3, <3>1, <3>2
  <2>8. c = run.operands[i]
    BY DEF c
  <2> QED BY <2>4, <2>5, <2>6, <2>7, <2>8 DEF ProviderActs
<1>4. PICK x \in Cells : cells' = [cells EXCEPT ![c] = x] /\ x.version <= acts'
  BY <1>3
<1>5. i \in Indices(c)
  BY DEF Indices, c
<1>6. cells' \in [Backing -> Cells]
  BY <1>1, <1>2, <1>4
<1>7. ASSUME NEW d \in Backing
      PROVE  cells'[d].version <= acts' /\ (Indices(d) = {} => cells'[d] = cells[d])
  <2>1. CASE d = c
    BY <1>1, <1>2, <1>4, <1>5, <2>1
  <2>2. CASE d # c
    <3>1. cells'[d] = cells[d] /\ cells[d].version \in Nat /\ cells[d].version <= acts
      BY <1>1, <1>2, <1>4, <2>2 DEF Cells
    <3> QED BY <1>1, <1>2, <3>1
  <2> QED BY <2>1, <2>2
<1>8. CallShapes'
  BY <1>1, <1>2, <1>6, <1>7 DEF Ledger, CallShapes, Calling
<1> QED BY <1>1, <1>7, <1>8 DEF Ledger, Progress, Calling, Indices

(* Provider code has returned, or raised.                                  *)
LEMMA ReturnsLedger ==
    ASSUME Ledger, run.at \in Calling, UNCHANGED <<cells, saved, acts>>, blame' \in Blames,
           \/ \E at \in {"prepare", "submit", "commit", "rollback"} : Proceeds(at)
           \/ run' = [run EXCEPT !.patterns = @ - 1] /\ run.patterns > 1
    PROVE  Ledger'
<1>a. CallShapes /\ run \in Runs
  BY DEF Ledger, CallShapes
<1>1. ASSUME NEW at \in {"prepare", "submit", "commit", "rollback"}, Proceeds(at) PROVE Ledger'
  <2>1. /\ run' \in Runs /\ run'.at = at /\ run'.pos = 1 /\ run'.operands = run.operands
    BY <1>a, <1>1, ProceedsTo DEF CallPlaces, Calling
  <2>2. Len(run.operands) \in Nat \ {0}
    BY EmptySeq DEF Ledger, CallShapes, Runs, Calling
  <2>3. CallShapes'
    BY <1>a, <2>1, <2>2 DEF CallShapes, Calling
  <2>4. \A c \in Backing : ~Passed(c)'
    BY <2>1 DEF Passed
  <2> QED BY <2>1, <2>3, <2>4 DEF Ledger, Progress, Indices, Calling
<1>2. CASE run' = [run EXCEPT !.patterns = @ - 1] /\ run.patterns > 1
  <2>1. /\ run' \in Runs /\ run'.at = run.at /\ run'.pos = run.pos /\ run'.operands = run.operands
    BY <1>a, <1>2 DEF Runs
  <2>2. CallShapes'
    BY <1>a, <2>1 DEF CallShapes, Calling
  <2> QED BY <2>1, <2>2 DEF Ledger, Progress, Indices, Calling
<1> QED BY <1>1, <1>2

(* The first use of a carrier comes before its other uses.                 *)
LEMMA PassedNext ==
    ASSUME CallShapes, run.pos <= Len(run.operands), NEW c \in Backing
    PROVE  /\ (\E i \in 1 .. run.pos : run.operands[i] = c) <=> Passed(c) \/ c = run.operands[run.pos]
           /\ c = run.operands[run.pos] => (FirstUse(run.pos) <=> ~Passed(c))
<1>1. run.pos \in Nat \ {0}
  BY DEF CallShapes, Runs
<1> QED BY <1>1 DEF Passed, FirstUse

LEMMA CommitLedger == ASSUME Ledger, Commit PROVE Ledger'
<1>a. /\ CallShapes /\ run \in Runs /\ run.at = "commit" /\ run.pos \in 1 .. Len(run.operands)
      /\ UNCHANGED <<saved, acts>>
  BY DEF Ledger, CallShapes, Runs, Commit
<1>b. run.operands[run.pos] \in Backing /\ Len(run.operands) \in Nat
  BY <1>a, OperandFacts
<1>p. PICK c \in Backing : c = run.operands[run.pos]
  BY <1>b
<1>c. cells \in [Backing -> Cells] /\ saved[c] \in Cells /\ saved[c].version = 0 /\ cells[c] \in Cells
  BY <1>p, <1>a, <1>b DEF CallShapes
<1>1. CASE RollsBack("unauthorized") /\ UNCHANGED cells
  <2>1. /\ run' \in Runs /\ run'.at = "rollback" /\ run'.pos = 1 /\ run'.operands = run.operands
        /\ blame' \in Blames
    BY <1>p, <1>a, <1>1, ProceedsTo DEF RollsBack, CallPlaces, Blames
  <2>2. CallShapes'
    BY <1>p, <1>a, <1>1, <2>1 DEF CallShapes, Calling
  <2>3. \A d \in Backing : ~Passed(d)'
    BY <1>p, <2>1 DEF Passed
  <2> QED BY <1>p, <1>a, <1>1, <2>1, <2>2, <2>3 DEF Ledger, Progress, Indices
<1>2. CASE /\ FirstUse(run.pos) => ~Refused(c)
           /\ cells' = IF FirstUse(run.pos) /\ Authorized(c)
                       THEN [cells EXCEPT ![c].version = saved[c].version + 1] ELSE cells
           /\ Steps("done") /\ UNCHANGED blame
  <2> DEFINE x == [cells[c] EXCEPT !.version = saved[c].version + 1]
  <2>1. /\ x \in Cells /\ x.version = 1 /\ x.val = cells[c].val /\ x.released = cells[c].released
        /\ x.owned = cells[c].owned
    <3>1. 1 \in 0 .. MaxActs + 1
      BY ProviderAssumption
    <3> QED BY <1>p, <1>c, <3>1 DEF Cells
  <2>2. cells' = IF FirstUse(run.pos) /\ Authorized(c) THEN [cells EXCEPT ![c] = x] ELSE cells
    BY <1>p, <1>2
  <2>3. /\ run' \in Runs /\ run'.operands = run.operands /\ run'.mutated = run.mutated
        /\ \/ run'.at = "commit" /\ run'.pos = run.pos + 1 /\ run.pos < Len(run.operands)
           \/ run'.at = "done" /\ run.pos = Len(run.operands)
    <3>1. \/ run' = [run EXCEPT !.pos = run.pos + 1] /\ run.pos < Len(run.operands)
          \/ run' = [run EXCEPT !.at = "done"] /\ ~(run.pos < Len(run.operands))
      BY <1>p, <1>2 DEF Steps
    <3>2. run.pos \in Nat \ {0} /\ run.pos + 1 \in Nat \ {0} /\ "done" \in CallPlaces
          /\ (~(run.pos < Len(run.operands)) => run.pos = Len(run.operands))
      BY <1>p, <1>a, <1>b DEF CallPlaces
    <3> QED BY ONLY <1>p, <1>a, <3>1, <3>2 DEF Runs
  <2> HIDE DEF x
  <2>4. cells' \in [Backing -> Cells] /\ \A d \in Backing \ {c} : cells'[d] = cells[d]
    BY <1>p, <1>b, <1>c, <2>1, <2>2
  <2>5. CallShapes'
    BY <1>p, <1>a, <1>b, <1>2, <2>3, <2>4 DEF CallShapes, Calling
  <2>6. \A d \in Backing : Indices(d)' = Indices(d) /\ (Authorized(d)' <=> Authorized(d))
    BY <1>p, <2>3 DEF Indices, Authorized
  (* The snapshot at this position is dealt with.                          *)
  <2>7. Committed(c)'
    <3>1. CASE ~FirstUse(run.pos)
      <4>1. Passed(c) /\ cells' = cells
        BY <1>p, <1>a, <1>b, <2>2, <3>1, PassedNext
      <4>2. Committed(c)
        BY <1>p, <1>a, <1>b, <4>1 DEF Ledger, Progress
      <4> QED BY ONLY <1>p, <1>a, <1>b, <2>6, <4>1, <4>2 DEF Committed
    <3>2. CASE FirstUse(run.pos) /\ Authorized(c)
      <4>1. cells'[c] = x /\ ~Moved(c)
        BY <1>p, <1>b, <1>c, <1>2, <2>2, <3>2 DEF Refused
      <4>2. x.released = saved[c].released /\ x.owned = saved[c].owned
        BY <1>p, <2>1, <4>1 DEF Moved
      <4> DEFINE y == [saved[c] EXCEPT !.val = x.val, !.version = 1]
      <4>3. /\ y \in Cells /\ y.val = x.val /\ y.version = 1 /\ y.released = saved[c].released
            /\ y.owned = saved[c].owned
        <5>1. x.val \in Element \union {Empty} /\ 1 \in 0 .. MaxActs + 1
          BY <1>p, <2>1, ProviderAssumption DEF Cells
        <5> DEFINE n == 1
                   v == x.val
        <5>2. n \in 0 .. MaxActs + 1 /\ v \in Element \union {Empty} /\ saved[c] \in Cells
          BY <1>c, <1>p, <5>1
        <5> HIDE DEF n, v
        <5>3. LET z == [saved[c] EXCEPT !.val = v, !.version = n]
              IN  /\ z \in Cells /\ z.version = n /\ z.val = v /\ z.released = saved[c].released
                  /\ z.owned = saved[c].owned
          BY ONLY <5>2 DEF Cells
        <5> QED BY <5>3 DEF n, v
      <4>4. x = [saved[c] EXCEPT !.val = x.val, !.version = @ + 1]
        <5>1. y = [saved[c] EXCEPT !.val = x.val, !.version = @ + 1]
          BY <1>p, <1>c
        <5> HIDE DEF y
        <5>2. x = y
          BY <1>p, <2>1, <4>2, <4>3, CellsEqual
        <5> QED BY <5>1, <5>2
      <4> QED BY <1>p, <1>a, <1>b, <2>6, <3>2, <4>1, <4>4 DEF Committed
    <3>3. CASE FirstUse(run.pos) /\ ~Authorized(c)
      <4>1. ~HasChanged(c) /\ cells' = cells
        BY <1>p, <1>2, <2>2, <3>3 DEF Refused
      <4> QED BY <1>p, <1>a, <1>b, <2>6, <3>3, <4>1, Unchanged DEF Committed
    <3> QED BY <1>p, <3>1, <3>2, <3>3
  <2>8. \A d \in Backing : Passed(d) => Committed(d)'
    BY <1>p, <1>a, <2>4, <2>6, <2>7 DEF Ledger, Progress, Committed
  <2>9. \A d \in Backing : (\E i \in 1 .. run.pos : run.operands[i] = d) => Committed(d)'
    BY <1>p, <1>a, <2>7, <2>8, PassedNext
  <2>10. \A d \in Backing : Indices(d) = {} => cells'[d] = saved[d]
    <3>1. Indices(c) # {}
      BY <1>p, <1>a DEF Indices
    <3> QED BY <1>p, <1>a, <2>4, <3>1 DEF Ledger, Progress
  <2>11. CASE run'.at = "commit" /\ run'.pos = run.pos + 1
    <3>1. \A d \in Backing : Passed(d)' => \E i \in 1 .. run.pos : run.operands[i] = d
      BY <1>p, <1>a, <2>3, <2>11 DEF Passed, Runs
    <3> QED BY <1>p, <1>a, <2>5, <2>6, <2>9, <2>10, <2>11, <3>1 DEF Ledger, Progress
  <2>12. CASE run'.at = "done" /\ run.pos = Len(run.operands)
    <3>1. \A d \in Backing : Indices(d) # {} => \E i \in 1 .. run.pos : run.operands[i] = d
      BY <1>p, <2>12 DEF Indices
    <3> QED BY <1>p, <1>a, <2>5, <2>6, <2>9, <2>10, <2>12, <3>1 DEF Ledger, Progress
  <2> QED BY <1>p, <2>3, <2>11, <2>12
<1> QED BY <1>p, <1>1, <1>2 DEF Commit

LEMMA RollbackLedger == ASSUME Ledger, Rollback PROVE Ledger'
<1>a. /\ CallShapes /\ run \in Runs /\ run.at = "rollback" /\ run.pos \in 1 .. Len(run.operands)
      /\ UNCHANGED <<saved, blame, acts>>
  BY DEF Ledger, CallShapes, Runs, Rollback
<1>b. run.operands[run.pos] \in Backing /\ Len(run.operands) \in Nat
  BY <1>a, OperandFacts
<1>p. PICK c \in Backing : c = run.operands[run.pos]
  BY <1>b
<1>c. cells \in [Backing -> Cells] /\ saved[c] \in Cells /\ cells[c] \in Cells
  BY <1>p, <1>a, <1>b DEF CallShapes
<1> DEFINE back == [saved[c] EXCEPT !.owned = cells[c].owned]
           gone == [cells[c] EXCEPT !.val = Empty]
<1>d. back \in Cells /\ gone \in Cells /\ [back EXCEPT !.owned = saved[c].owned] = saved[c]
  <2>1. back \in Cells /\ gone \in Cells
    BY <1>p, <1>c DEF Cells
  <2>2. [back EXCEPT !.owned = saved[c].owned] \in Cells
    BY <1>p, <1>c, <2>1 DEF Cells
  <2>3. /\ [back EXCEPT !.owned = saved[c].owned].val = saved[c].val
        /\ [back EXCEPT !.owned = saved[c].owned].version = saved[c].version
        /\ [back EXCEPT !.owned = saved[c].owned].released = saved[c].released
        /\ [back EXCEPT !.owned = saved[c].owned].owned = saved[c].owned
    BY <1>p, <1>c DEF Cells
  <2> QED BY <1>p, <1>c, <2>1, <2>2, <2>3, CellsEqual
<1> DEFINE Did(lost) ==
         /\ AfterRestore(lost)
         /\ \/ cells' = [cells EXCEPT ![c] = back] /\ lost = {}
            \/ cells' = [cells EXCEPT ![c] = gone] /\ lost = {c}
            \/ cells' = cells /\ lost = {c}
            \/ cells' = cells /\ lost = {} /\ ~(FirstUse(run.pos) /\ HasChanged(c))
<1>1. PICK lost \in SUBSET {c} : Did(lost)
  <2>1. cells' = [cells EXCEPT ![c].val = Empty] => cells' = [cells EXCEPT ![c] = gone]
    OBVIOUS
  <2>2. \/ AfterRestore({}) /\ cells' = [cells EXCEPT ![c] = back]
        \/ AfterRestore({c}) /\ (cells' = cells \/ cells' = [cells EXCEPT ![c] = gone])
        \/ AfterRestore({}) /\ cells' = cells /\ ~(FirstUse(run.pos) /\ HasChanged(c))
    BY <1>p, <2>1 DEF Rollback
  <2>3. CASE AfterRestore({}) /\ (cells' = [cells EXCEPT ![c] = back]
                                  \/ (cells' = cells /\ ~(FirstUse(run.pos) /\ HasChanged(c))))
    <3>1. Did({})
      BY <2>3
    <3> QED BY <3>1
  <2>4. CASE AfterRestore({c}) /\ (cells' = cells \/ cells' = [cells EXCEPT ![c] = gone])
    <3>1. Did({c})
      BY <2>4
    <3> QED BY <3>1
  <2> QED BY <2>2, <2>3, <2>4
<1>2. /\ run' \in Runs /\ run'.operands = run.operands /\ run'.lost = run.lost \union lost
      /\ \/ run'.at = "rollback" /\ run'.pos = run.pos + 1 /\ run.pos < Len(run.operands)
         \/ run'.at = "raised" /\ run.pos = Len(run.operands)
  <2>1. \/ /\ run' = [run EXCEPT !.lost = run.lost \union lost, !.pos = run.pos + 1, !.at = run.at]
           /\ run.pos < Len(run.operands)
        \/ /\ run' = [run EXCEPT !.lost = run.lost \union lost, !.pos = run.pos, !.at = "raised"]
           /\ ~(run.pos < Len(run.operands))
    BY <1>p, <1>1 DEF AfterRestore
  <2>2. /\ run.pos \in Nat \ {0} /\ run.pos + 1 \in Nat \ {0} /\ "raised" \in CallPlaces
        /\ (~(run.pos < Len(run.operands)) => run.pos = Len(run.operands))
        /\ run.lost \union lost \in SUBSET Backing
    BY <1>p, <1>a, <1>b DEF CallPlaces, Runs
  <2> QED BY ONLY <1>p, <1>a, <2>1, <2>2 DEF Runs
<1> HIDE DEF back, gone
<1>3. cells' \in [Backing -> Cells] /\ \A d \in Backing \ {c} : cells'[d] = cells[d]
  BY <1>p, <1>b, <1>c, <1>d, <1>1
<1>4. CallShapes'
  BY <1>p, <1>a, <1>b, <1>2, <1>3 DEF CallShapes, Calling
<1>5. c \notin run'.lost => Restored(c)'
  <2>1. CASE cells' = [cells EXCEPT ![c] = back]
    <3>1. cells'[c] = back /\ saved'[c] = saved[c]
      BY <1>p, <1>a, <1>b, <1>c, <2>1
    <3> QED BY <1>p, <1>d, <3>1 DEF Restored
  <2>2. CASE lost = {c}
    BY <1>p, <1>2, <2>2
  <2>3. CASE cells' = cells /\ ~(FirstUse(run.pos) /\ HasChanged(c))
    <3>1. CASE FirstUse(run.pos)
      <4>1. Restored(c)
        BY <1>p, <1>a, <1>b, <2>3, <3>1, Unchanged, SameKept
      <4>2. cells'[c] = cells[c] /\ saved'[c] = saved[c]
        BY <1>p, <1>a, <2>3
      <4> QED BY ONLY <4>1, <4>2 DEF Restored
    <3>2. CASE ~FirstUse(run.pos)
      <4>1. Passed(c)
        BY <1>p, <1>a, <1>b, <3>2, PassedNext
      <4>2. c \notin run'.lost => Restored(c)
        BY <1>p, <1>a, <1>b, <1>2, <4>1 DEF Ledger, Progress
      <4>3. cells'[c] = cells[c] /\ saved'[c] = saved[c]
        BY <1>p, <1>a, <2>3
      <4> QED BY ONLY <4>2, <4>3 DEF Restored
    <3> QED BY <1>p, <3>1, <3>2
  <2> QED BY <1>p, <1>1, <2>1, <2>2, <2>3
<1>6. ASSUME NEW d \in Backing \ run'.lost, Passed(d) \/ d = c PROVE Restored(d)'
  <2>1. CASE d = c
    <3>1. Restored(c)'
      BY <1>p, <1>5, <1>6, <2>1
    <3> QED BY <1>p, <2>1, <3>1 DEF Restored
  <2>2. CASE d # c
    <3>1. Restored(d) /\ cells'[d] = cells[d]
      BY <1>p, <1>a, <1>2, <1>3, <1>6, <2>2 DEF Ledger, Progress
    <3> QED BY <1>p, <1>a, <3>1 DEF Restored
  <2> QED BY <1>p, <2>1, <2>2
<1>7. \A d \in Backing : Indices(d)' = Indices(d) /\ (Indices(d) = {} => cells'[d] = saved'[d])
  <2>1. Indices(c) # {}
    BY <1>p, <1>a DEF Indices
  <2> QED BY <1>p, <1>a, <1>2, <1>3, <2>1 DEF Ledger, Progress, Indices
<1>8. CASE run'.at = "rollback" /\ run'.pos = run.pos + 1
  <2>1. \A d \in Backing : Passed(d)' => Passed(d) \/ d = c
    <3>1. \A d \in Backing : Passed(d)' => \E i \in 1 .. run.pos : run.operands[i] = d
      BY <1>p, <1>a, <1>2, <1>8 DEF Passed, Runs
    <3> QED BY <1>p, <1>a, <3>1, PassedNext
  <2> QED BY <1>p, <1>4, <1>6, <1>7, <1>8, <2>1 DEF Ledger, Progress
<1>9. CASE run'.at = "raised" /\ run.pos = Len(run.operands)
  <2>1. ASSUME NEW d \in Backing \ run'.lost PROVE Restored(d)'
    <3>1. CASE Indices(d) = {}
      <4>1. cells'[d] = saved'[d] /\ saved'[d] \in Cells
        BY <1>p, <1>4, <1>7, <3>1 DEF CallShapes
      <4>2. [saved'[d] EXCEPT !.owned = saved'[d].owned] = saved'[d]
        BY <4>1 DEF Cells
      <4> QED BY <4>1, <4>2 DEF Restored
    <3>2. CASE Indices(d) # {}
      <4>1. \E i \in 1 .. run.pos : run.operands[i] = d
        BY <1>p, <1>9, <3>2 DEF Indices
      <4>2. Passed(d) \/ d = c
        BY <1>p, <1>a, <4>1, PassedNext
      <4> QED BY <1>p, <1>6, <4>2
    <3> QED BY <1>p, <3>1, <3>2
  <2> QED BY <1>p, <1>4, <1>7, <1>9, <2>1 DEF Ledger, Progress
<1> QED BY <1>p, <1>2, <1>8, <1>9

LEMMA InitLedger == ProviderInit => Ledger
<1> SUFFICES ASSUME ProviderInit PROVE Ledger
  OBVIOUS
<1>1. PICK f \in [Backing -> Element] : cells = [c \in Backing |-> Fresh(f[c])]
  BY DEF ProviderInit
<1>2. cells \in [Backing -> Cells] /\ \A c \in Backing : cells[c].version = 0
  BY <1>1, ProviderAssumption DEF Fresh, Cells
<1>3. run \in Runs /\ run.at = "idle"
  BY EmptySeq DEF ProviderInit, Runs, CallPlaces
<1> QED BY <1>2, <1>3, ProviderAssumption DEF ProviderInit, Ledger, CallShapes, Progress, Blames

LEMMA LedgerInvariant == ProviderSpec => []Ledger
<1>1. ASSUME Ledger, [ProviderNext]_providerVars PROVE Ledger'
  <2>1. CASE UNCHANGED providerVars
    <3>1. UNCHANGED <<cells, saved, run, blame, acts>>
      BY <2>1 DEF providerVars
    <3>2. CallShapes'
      BY <1>1, <3>1 DEF Ledger, CallShapes
    <3>3. Progress'
      <4>1. \A c \in Backing : /\ Indices(c)' = Indices(c) /\ Passed(c)' = Passed(c)
                               /\ Committed(c)' = Committed(c) /\ Restored(c)' = Restored(c)
        BY <3>1, Zenon DEF Passed, Committed, Restored, Indices, Authorized
      <4> QED BY <1>1, <3>1, <4>1 DEF Ledger, Progress
    <3> QED BY <3>2, <3>3 DEF Ledger
  <2>2. CASE ResolveReturns \/ PrepareReturns \/ SubmitReturns \/ ProviderRaises
    <3>1. run.at \in Calling /\ UNCHANGED <<cells, saved, acts>> /\ blame \in Blames
      BY <1>1, <2>2 DEF ResolveReturns, PrepareReturns, SubmitReturns, ProviderRaises, Calling,
                        Ledger, CallShapes
    <3>2. /\ blame' \in Blames
          /\ \/ \E at \in {"prepare", "submit", "commit", "rollback"} : Proceeds(at)
             \/ run' = [run EXCEPT !.patterns = @ - 1] /\ run.patterns > 1
      BY <2>2, <3>1 DEF ResolveReturns, PrepareReturns, SubmitReturns, ProviderRaises, RollsBack, Blames
    <3> QED BY <1>1, <3>1, <3>2, ReturnsLedger
  <2>3. ASSUME NEW operands \in UNION {[1 .. n -> Backing] : n \in 1 .. MaxOperands},
               NEW mutated \in SUBSET (1 .. MaxOperands), CallProvider(operands, mutated)
        PROVE  Ledger'
    <3>1. PICK n \in 1 .. MaxOperands : operands \in [1 .. n -> Backing]
      OBVIOUS
    <3> QED BY <1>1, <2>3, <3>1, CallLedger
  <2> QED BY <1>1, <2>1, <2>2, <2>3, ActsLedger, CommitLedger, RollbackLedger DEF ProviderNext
<1> QED BY <1>1, InitLedger, PTL DEF ProviderSpec

(* Every variable keeps its type: a version never passes the bound that    *)
(* MaxActs and one commit give it.                                         *)
THEOREM TypeCorrect == ProviderSpec => []ProviderTypeOK
<1>1. Ledger => ProviderTypeOK
  BY DEF Ledger, CallShapes, ProviderTypeOK, Runs, CallPlaces, Calling, Blames
<1> QED BY <1>1, LedgerInvariant, PTL

(* A call that fails leaves every operand as it was, also when another     *)
(* operand could not be restored, and one that succeeds has counted one    *)
(* mutation of each operand it may mutate and changed nothing of the       *)
(* others, whatever provider code did and however operands share carriers. *)
THEOREM OperandsAlwaysSettled == ProviderSpec => []OperandsSettled
<1>1. ASSUME Ledger PROVE OperandsSettled
  <2>1. OperandsRestored
    BY <1>1 DEF Ledger, Progress, OperandsRestored, Restored
  <2>2. OperandsCommitted
    <3>1. ASSUME run.at = "done", NEW i \in 1 .. Len(run.operands) PROVE Committed(run.operands[i])
      <4>1. run.operands[i] \in Backing
        BY <1>1, OperandFacts DEF Ledger
      <4>2. Indices(run.operands[i]) # {}
        BY DEF Indices
      <4> QED BY <1>1, <3>1, <4>1, <4>2 DEF Ledger, Progress
    <3> QED BY <3>1 DEF OperandsCommitted, Committed
  <2> QED BY <2>1, <2>2 DEF OperandsSettled
<1> QED BY <1>1, LedgerInvariant, PTL
=============================================================================
