------------------------- MODULE ProviderTransaction -------------------------
(***************************************************************************)
(* How one operation of an extension is executed                           *)
(* (carriers/definition_dispatch.py): the operands are snapshotted, the    *)
(* provider prepares and runs, and what it did to the operands is          *)
(* committed when the definition authorizes it and rolled back otherwise.  *)
(*                                                                         *)
(* Provider code may write an operand through its storage, bump its        *)
(* version with a public write, release it, empty its storage or claim it, *)
(* and may raise anywhere.  An operand carrier has one element.            *)
(***************************************************************************)
EXTENDS Naturals, Sequences

CONSTANTS Backing,       \* the carriers
          Element,       \* the values of an element
          Unordered,     \* the values that are not equal to themselves (NaN)
          Empty,         \* the value of a carrier of size 0
          Patterns,      \* the number of matching kernel patterns
          MaxOperands,   \* bound on the operands of an invocation
          MaxActs        \* bound on what provider code does to the operands

ASSUME ProviderAssumption == /\ Unordered \subseteq Element /\ Empty \notin Element
                             /\ Patterns \in Nat \ {0}
                             /\ MaxOperands \in Nat /\ MaxActs \in Nat

VARIABLES
    cells,       \* the carriers: element, version, released, owned
    saved,       \* the snapshots, _snapshots
    run,         \* the invocation: its operands, those it mutates, and where it is
    blame,       \* what ended it
    acts         \* history: how often provider code has touched an operand

providerVars == <<cells, saved, run, blame, acts>>
-----------------------------------------------------------------------------
Cells == [val : Element \union {Empty}, version : 0 .. MaxActs + 1, released : BOOLEAN, owned : BOOLEAN]

Fresh(v) == [val |-> v, version |-> 0, released |-> FALSE, owned |-> FALSE]

ProviderInit ==
    /\ \E f \in [Backing -> Element] : cells = [c \in Backing |-> Fresh(f[c])]
    /\ saved = cells
    /\ run = [at |-> "idle", operands |-> <<>>, mutated |-> {}, patterns |-> 0, pos |-> 1, lost |-> {}]
    /\ blame = "none" /\ acts = 0

(* A carrier has one snapshot, at its first use as an operand.             *)
Indices(c) == {i \in 1 .. Len(run.operands) : run.operands[i] = c}
FirstUse(i) == \A j \in 1 .. i - 1 : run.operands[j] # run.operands[i]

(* All operands that share the carrier are declared to be mutated.         *)
Authorized(c) == Indices(c) \subseteq run.mutated

(* _stored_values_equal *)
SameValue(v, w) == v = w /\ v \notin Unordered

Moved(c) == \/ cells[c].released # saved[c].released
            \/ cells[c].owned # saved[c].owned
            \/ (cells[c].val = Empty) # (saved[c].val = Empty)

(* has_changed *)
HasChanged(c) == \/ cells[c].version # saved[c].version \/ Moved(c)
                 \/ ~SameValue(cells[c].val, saved[c].val)

AnyChanged == \E i \in 1 .. Len(run.operands) : HasChanged(run.operands[i])

Proceeds(at) == run' = [run EXCEPT !.at = at, !.pos = 1]
RollsBack(why) == Proceeds("rollback") /\ blame' = why
-----------------------------------------------------------------------------
(* The transaction is opened; a composite first resolves the carriers of   *)
(* its results.                                                            *)
CallProvider(operands, mutated) ==
    /\ run.at = "idle"
    /\ saved' = cells
    /\ \E at \in {"resolve", "prepare"} :
          run' = [run EXCEPT !.at = at, !.operands = operands, !.mutated = mutated,
                             !.patterns = IF at = "resolve" THEN 1 ELSE Patterns]
    /\ UNCHANGED <<cells, blame, acts>>

(* What the code of the provider does while it resolves, prepares or runs. *)
ProviderActs(i) ==
    LET c == run.operands[i]
    IN /\ run.at \in {"resolve", "prepare", "submit"}
       /\ acts < MaxActs
       /\ acts' = acts + 1
       /\ \/ \E v \in Element : /\ cells[c].val # Empty
                                /\ \/ cells' = [cells EXCEPT ![c].val = v]
                                   \/ /\ ~cells[c].released /\ ~cells[c].owned
                                      /\ cells' = [cells EXCEPT ![c].val = v, ![c].version = @ + 1]
          \/ cells' = [cells EXCEPT ![c].val = Empty]
          \/ ~cells[c].owned /\ cells' = [cells EXCEPT ![c].val = Empty, ![c].released = TRUE]
          \/ ~cells[c].released /\ cells' = [cells EXCEPT ![c].owned = TRUE]
       /\ UNCHANGED <<saved, run, blame>>

(* require_unchanged after each call of provider code before submission.   *)
ResolveReturns ==
    /\ run.at = "resolve"
    /\ IF AnyChanged THEN RollsBack("mutated") ELSE Proceeds("prepare") /\ UNCHANGED blame
    /\ UNCHANGED <<cells, saved, acts>>

(* A pattern that is unsupported leaves the next one to try.               *)
PrepareReturns ==
    /\ run.at = "prepare"
    /\ \/ AnyChanged /\ RollsBack("mutated")
       \/ ~AnyChanged /\ Proceeds("submit") /\ UNCHANGED blame
       \/ /\ ~AnyChanged /\ run.patterns > 1
          /\ run' = [run EXCEPT !.patterns = @ - 1]
          /\ UNCHANGED blame
       \/ ~AnyChanged /\ run.patterns = 1 /\ RollsBack("unsupported")
    /\ UNCHANGED <<cells, saved, acts>>

(* The provider completes; its result is what was resolved, or it is not.  *)
SubmitReturns ==
    /\ run.at = "submit"
    /\ \/ Proceeds("commit") /\ UNCHANGED blame
       \/ RollsBack("conflicts")
    /\ UNCHANGED <<cells, saved, acts>>

ProviderRaises == /\ run.at \in {"resolve", "prepare", "submit"}
                  /\ RollsBack("raised")
                  /\ UNCHANGED <<cells, saved, acts>>
-----------------------------------------------------------------------------
Steps(at) == run' = IF run.pos < Len(run.operands) THEN [run EXCEPT !.pos = @ + 1] ELSE [run EXCEPT !.at = at]

(* Mutant: only the operands that may be mutated are compared.             *)
RefusedMoved(c) == Authorized(c) /\ Moved(c)

(* An unauthorized change, or a change of lifecycle or extent.             *)
Refused(c) == IF Authorized(c) THEN Moved(c) ELSE HasChanged(c)

(* commit, one snapshot after the other: an authorized operand counts one  *)
(* mutation, however many writes the provider made.                        *)
Commit ==
    LET c == run.operands[run.pos]
    IN /\ run.at = "commit"
       /\ \/ /\ FirstUse(run.pos) /\ Refused(c)
             /\ RollsBack("unauthorized")
             /\ UNCHANGED cells
          \/ /\ FirstUse(run.pos) => ~Refused(c)
             /\ cells' = IF FirstUse(run.pos) /\ Authorized(c)
                         THEN [cells EXCEPT ![c].version = saved[c].version + 1] ELSE cells
             /\ Steps("done") /\ UNCHANGED blame
       /\ UNCHANGED <<saved, acts>>

(* Mutant: storage that raises ends the rollback.                          *)
RestoreOrStop(lost) ==
    run' = [run EXCEPT !.lost = @ \union lost,
                       !.pos = IF run.pos < Len(run.operands) THEN @ + 1 ELSE @,
                       !.at = IF run.pos < Len(run.operands) /\ lost = {} THEN @ ELSE "raised"]

AfterRestore(lost) ==
    run' = [run EXCEPT !.lost = @ \union lost,
                       !.pos = IF run.pos < Len(run.operands) THEN @ + 1 ELSE @,
                       !.at = IF run.pos < Len(run.operands) THEN @ ELSE "raised"]

(* rollback, one snapshot after the other: storage that is gone is         *)
(* allocated again, the elements are written and the state of the carrier  *)
(* is set.  What raises is remembered, and the others are still restored.  *)
Rollback ==
    LET c == run.operands[run.pos]
    IN /\ run.at = "rollback"
       /\ \/ /\ FirstUse(run.pos) /\ HasChanged(c)
             /\ \/ /\ cells' = [cells EXCEPT ![c] = [saved[c] EXCEPT !.owned = cells[c].owned]]
                   /\ AfterRestore({})
                \/ /\ \/ UNCHANGED cells
                      \/ cells[c].released /\ cells' = [cells EXCEPT ![c].val = Empty]
                   /\ AfterRestore({c})
          \/ /\ ~(FirstUse(run.pos) /\ HasChanged(c))
             /\ UNCHANGED cells /\ AfterRestore({})
       /\ UNCHANGED <<saved, blame, acts>>
-----------------------------------------------------------------------------
ProviderNext ==
    \/ \E operands \in UNION {[1 .. n -> Backing] : n \in 1 .. MaxOperands}, mutated \in SUBSET (1 .. MaxOperands) :
          mutated \subseteq 1 .. Len(operands) /\ CallProvider(operands, mutated)
    \/ \E i \in 1 .. Len(run.operands) : ProviderActs(i)
    \/ ResolveReturns \/ PrepareReturns \/ SubmitReturns \/ ProviderRaises
    \/ Commit \/ Rollback

ProviderSpec == ProviderInit /\ [][ProviderNext]_providerVars
-----------------------------------------------------------------------------
ProviderTypeOK ==
    /\ cells \in [Backing -> Cells] /\ saved \in [Backing -> Cells]
    /\ run.at \in {"idle", "resolve", "prepare", "submit", "commit", "rollback", "done", "raised"}
    /\ run.lost \in SUBSET Backing
    /\ acts \in 0 .. MaxActs
    /\ blame \in {"none", "mutated", "unsupported", "conflicts", "raised", "unauthorized"}

(* A call that fails leaves every operand as it was -- value, version and  *)
(* storage -- wherever the provider or the commit failed, and also when    *)
(* another operand could not be restored.                                  *)
OperandsRestored ==
    run.at = "raised" => \A c \in Backing \ run.lost : [cells[c] EXCEPT !.owned = saved[c].owned] = saved[c]

(* A call that succeeds has counted one mutation of each operand it was    *)
(* authorized to mutate, whatever the provider did to their versions, and  *)
(* changed nothing of the others.                                          *)
OperandsCommitted ==
    run.at = "done" =>
        \A i \in 1 .. Len(run.operands) :
            LET c == run.operands[i]
            IN IF Authorized(c) THEN cells[c] = [saved[c] EXCEPT !.val = cells[c].val, !.version = @ + 1]
               ELSE cells[c] = saved[c]

(* Every call does one or the other.                                       *)
OperandsSettled == OperandsRestored /\ OperandsCommitted
-----------------------------------------------------------------------------
(* definition_dispatch.py:180: "provider mutated an operand during ...".   *)
BlameJustified == blame = "mutated" => acts > 0
=============================================================================
