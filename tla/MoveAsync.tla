------------------------------ MODULE MoveAsync ------------------------------
(***************************************************************************)
(* Asynchronous movement of one Tensor into one Carrier                    *)
(* (carriers/move/async_move.py) over the ownership protocol of the native *)
(* Carrier (core/native/_carrier.hpp).                                     *)
(*                                                                         *)
(* A move claims its source, then its destination, captures the version of *)
(* the source, lets the provider prepare, submits the copy, and commits or *)
(* fails on the thread that sees the copy end.  Program threads meanwhile  *)
(* write, release and move the same carriers.                              *)
(*                                                                         *)
(* A carrier has one element.  Native calls run under the GIL and are one  *)
(* step; a carrier of Torn stores its elements in Python, where a thread   *)
(* can be preempted between the check of a write or a release and its      *)
(* effect.  An ownership token is the move that drew it: tokens are never  *)
(* reused, and owner access is only ever taken by the one thread that is   *)
(* executing the move, so it is part of the steps that hold it.            *)
(***************************************************************************)
EXTENDS Naturals

CONSTANTS Carrier, Val, User, Move, None,
          Unknown,        \* see TransferMemory
          Torn,           \* carriers whose storage is written by Python code
          Meddling,       \* whether providers may break their contract
          MaxVersion      \* bound on the version counter of a carrier

ASSUME MoveAssumption ==
    /\ None \notin Val /\ Unknown \notin Val /\ None # Unknown
    /\ None \notin Move /\ None \notin Carrier \X Carrier
    /\ Torn \subseteq Carrier
    /\ Meddling \in BOOLEAN
    /\ MaxVersion \in Nat

VARIABLES
    contents,    \* the stored value, None without storage (size() = 0)
    version,     \* version()
    released,    \* the carriers that are released
    owner,       \* ownership_token_: the move that claimed the carrier, or None
    move,        \* the moves
    call         \* what each program thread is doing

vars == <<contents, version, released, owner, move, call>>
carriers == <<contents, version, released>>
-----------------------------------------------------------------------------
(* The phases of _move_async_with_route on the calling thread, those of    *)
(* the copy and the commit, and the giving back of the two tokens.         *)
Initiating == {"called", "half", "claimed", "captured", "prepared", "allocated"}
InFlight == {"copying", "copied", "validated"}
Returning == {"giveSource", "giveDestination", "ended"}
Phases == {"free"} \union Initiating \union InFlight \union Returning \union {"done"}

Moves == [phase : Phases,
          src : Carrier \union {None}, dst : Carrier \union {None},
          captured : 0..MaxVersion,        \* captured_version
          size : BOOLEAN,                  \* destination_size > 0
          taken : Val \union {None},       \* history: the value when it was captured
          broken : BOOLEAN,                \* history: its provider broke its contract
          outcome : {"none", "moved", "failed", "refused"}]

NoMove == [phase |-> "free", src |-> None, dst |-> None, captured |-> 0,
           size |-> FALSE, taken |-> None, broken |-> FALSE, outcome |-> "none"]

Src(m) == move[m].src
Dst(m) == move[m].dst

ThreadCalls == [op : {"idle"}]
               \union [op : {"move"}, move : Move]
               \union [op : {"write", "written"}, carrier : Carrier, val : Val]
               \union [op : {"release", "mark"}, carrier : Carrier]
IdleCall == [op |-> "idle"]

Idle(u) == call[u] = IdleCall

Live(c) == c \notin released
Mutable(c) == Live(c) /\ owner[c] = None
-----------------------------------------------------------------------------
Init == /\ contents \in [Carrier -> Val \union {None}]
        /\ version = [c \in Carrier |-> 0]
        /\ released = {}
        /\ owner = [c \in Carrier |-> None]
        /\ move = [m \in Move |-> NoMove]
        /\ call = [u \in User |-> IdleCall]
-----------------------------------------------------------------------------
(* Writes and releases by program threads.                                 *)

(* One native set_item.                                                    *)
Write(u, c, v) ==
    /\ Idle(u) /\ c \notin Torn
    /\ Mutable(c) /\ contents[c] # None /\ version[c] < MaxVersion
    /\ contents' = [contents EXCEPT ![c] = v]
    /\ version' = [version EXCEPT ![c] = @ + 1]
    /\ UNCHANGED <<released, owner, move, call>>

(* set_item of a Python carrier: the checks; the store; the version bump,  *)
(* which raises when the carrier has been claimed in between.              *)
WriteChecks(u, c, v) ==
    /\ Idle(u) /\ c \in Torn
    /\ Mutable(c) /\ contents[c] # None /\ version[c] < MaxVersion
    /\ call' = [call EXCEPT ![u] = [op |-> "write", carrier |-> c, val |-> v]]
    /\ UNCHANGED <<carriers, owner, move>>

WriteLands(u) ==
    /\ call[u].op = "write"
    /\ LET c == call[u].carrier
       IN contents' = [contents EXCEPT ![c] = IF @ = None THEN None ELSE call[u].val]
    /\ call' = [call EXCEPT ![u].op = "written"]
    /\ UNCHANGED <<version, released, owner, move>>

WriteEnds(u) ==
    /\ call[u].op = "written"
    /\ LET c == call[u].carrier
       IN /\ version[c] < MaxVersion
          /\ version' = IF owner[c] = None
                        THEN [version EXCEPT ![c] = @ + 1] ELSE version
    /\ call' = [call EXCEPT ![u] = IdleCall]
    /\ UNCHANGED <<contents, released, owner, move>>

(* One native release(); storage that raises leaves the carrier live.      *)
Release(u, c) ==
    /\ Idle(u) /\ c \notin Torn
    /\ owner[c] = None /\ Live(c)
    /\ contents' = [contents EXCEPT ![c] = None]
    /\ released' = released \union {c}
    /\ UNCHANGED <<version, owner, move, call>>

(* release() of a Python carrier: the check; _release(); the flag.         *)
ReleaseChecks(u, c) ==
    /\ Idle(u) /\ c \in Torn
    /\ owner[c] = None /\ Live(c)
    /\ call' = [call EXCEPT ![u] = [op |-> "release", carrier |-> c]]
    /\ UNCHANGED <<carriers, owner, move>>

ReleaseLands(u) ==
    /\ call[u].op = "release"
    /\ contents' = [contents EXCEPT ![call[u].carrier] = None]
    /\ call' = [call EXCEPT ![u].op = "mark"]
    /\ UNCHANGED <<version, released, owner, move>>

ReleaseMarks(u) ==
    /\ call[u].op = "mark"
    /\ released' = released \union {call[u].carrier}
    /\ call' = [call EXCEPT ![u] = IdleCall]
    /\ UNCHANGED <<contents, version, owner, move>>

CallStep(u) == WriteLands(u) \/ WriteEnds(u) \/ ReleaseLands(u) \/ ReleaseMarks(u)
-----------------------------------------------------------------------------
(* Initiation: everything before the copy is submitted.                    *)

(* Mutant: the destination may be the tensor's own carrier.                *)
CallMoveOnto(u, m, s, d) ==
    /\ Idle(u) /\ move[m].phase = "free"
    /\ Live(s) /\ owner[s] = None /\ contents[s] # None /\ Mutable(d)
    /\ move' = [move EXCEPT ![m] = [NoMove EXCEPT !.phase = "called", !.src = s, !.dst = d]]
    /\ call' = [call EXCEPT ![u] = [op |-> "move", move |-> m]]
    /\ UNCHANGED <<carriers, owner>>

(* _validate_move_inputs has passed; what fails it has no effect.          *)
CallMove(u, m, s, d) ==
    /\ Idle(u) /\ move[m].phase = "free"
    /\ s # d /\ Live(s) /\ owner[s] = None /\ contents[s] # None /\ Mutable(d)
    /\ move' = [move EXCEPT ![m] = [NoMove EXCEPT !.phase = "called", !.src = s, !.dst = d]]
    /\ call' = [call EXCEPT ![u] = [op |-> "move", move |-> m]]
    /\ UNCHANGED <<carriers, owner>>

(* Mutant: a claim overwrites the token of another owner.                  *)
ClaimableLive(c) == Live(c)

(* claim_ownership refuses a released or an owned carrier.                 *)
Claimable(c) == Live(c) /\ owner[c] = None

(* The thread in move_async has its handle, or its exception.              *)
Returns(m) == call' = [u \in User |-> IF call[u] = [op |-> "move", move |-> m]
                                      THEN IdleCall ELSE call[u]]

(* The request goes on to phase p, or ends: give back what it holds.       *)
MovesTo(m, p) == move' = [move EXCEPT ![m].phase = p]
Ends(m, how) == move' = [move EXCEPT ![m].phase = "giveSource", ![m].outcome = how]

ClaimSource(m) ==
    /\ move[m].phase = "called"
    /\ IF Claimable(Src(m))
       THEN /\ owner' = [owner EXCEPT ![Src(m)] = m]
            /\ MovesTo(m, "half")
            /\ UNCHANGED call
       ELSE /\ move' = [move EXCEPT ![m].phase = "done", ![m].outcome = "refused"]
            /\ Returns(m)
            /\ UNCHANGED owner
    /\ UNCHANGED carriers

(* Mutants: the move waits for its destination; a refused destination      *)
(* leaves the source claimed.                                              *)
ClaimDestinationWaits(m) ==
    /\ move[m].phase = "half"
    /\ Claimable(Dst(m))
    /\ owner' = [owner EXCEPT ![Dst(m)] = m]
    /\ MovesTo(m, "claimed")
    /\ UNCHANGED <<carriers, call>>
ClaimDestinationOnly(m) ==
    /\ move[m].phase = "half"
    /\ IF Claimable(Dst(m))
       THEN /\ owner' = [owner EXCEPT ![Dst(m)] = m]
            /\ MovesTo(m, "claimed")
            /\ UNCHANGED call
       ELSE /\ move' = [move EXCEPT ![m].phase = "done", ![m].outcome = "refused"]
            /\ Returns(m)
            /\ UNCHANGED owner
    /\ UNCHANGED carriers

ClaimDestination(m) ==
    /\ move[m].phase = "half"
    /\ IF Claimable(Dst(m))
       THEN /\ owner' = [owner EXCEPT ![Dst(m)] = m]
            /\ MovesTo(m, "claimed")
       ELSE /\ Ends(m, "refused")
            /\ UNCHANGED owner
    /\ UNCHANGED <<carriers, call>>

(* The extent check passes and the versions and sizes are captured.        *)
Capture(m) ==
    /\ move[m].phase = "claimed"
    /\ move' = [move EXCEPT ![m].phase = "captured",
                            ![m].captured = version[Src(m)],
                            ![m].size = contents[Dst(m)] # None,
                            ![m].taken = contents[Src(m)]]
    /\ UNCHANGED <<carriers, owner, call>>

(* The provider has prepared and neither participant has changed.  A       *)
(* provider may take arbitrarily long.                                     *)
PrepareCopy(m) ==
    /\ move[m].phase = "captured"
    /\ version[Src(m)] = move[m].captured
    /\ (contents[Dst(m)] # None) = move[m].size
    /\ Live(Src(m)) /\ Live(Dst(m))
    /\ contents[Src(m)] # None
    /\ MovesTo(m, "prepared")
    /\ UNCHANGED <<carriers, owner, call>>

(* An empty destination is allocated, under owner access.                  *)
Allocate(m) ==
    /\ move[m].phase = "prepared"
    /\ IF contents[Dst(m)] = None
       THEN \E v \in Val : contents' = [contents EXCEPT ![Dst(m)] = v]
       ELSE UNCHANGED contents
    /\ MovesTo(m, "allocated")
    /\ UNCHANGED <<version, released, owner, call>>

(* Anything in these steps may raise: an extent that does not fit, an      *)
(* unsupported transfer, a participant that changed, a missing reverse     *)
(* route, a failed allocation, a refused worker.                           *)
Refuse(m) ==
    /\ move[m].phase \in {"claimed", "captured", "prepared", "allocated"}
    /\ Ends(m, "refused")
    /\ UNCHANGED <<carriers, owner, call>>

(* The worker or the provider has the copy; a provider's submit may raise, *)
(* which is already a failure of the handle.                               *)
SubmitCopy(m) ==
    /\ move[m].phase = "allocated"
    /\ MovesTo(m, "copying") \/ Ends(m, "failed")
    /\ Returns(m)
    /\ UNCHANGED <<carriers, owner>>
-----------------------------------------------------------------------------
(* Copy and commit.                                                        *)

CopyElements(m) ==
    /\ move[m].phase = "copying"
    /\ contents[Src(m)] # None /\ contents[Dst(m)] # None
    /\ contents' = [contents EXCEPT ![Dst(m)] = contents[Src(m)]]
    /\ MovesTo(m, "copied")
    /\ UNCHANGED <<version, released, owner, call>>

(* A copy that fails may have written part of the destination.             *)
CopyFails(m) ==
    /\ move[m].phase = "copying"
    /\ \/ UNCHANGED contents
       \/ /\ contents[Dst(m)] # None
          /\ \E v \in Val : contents' = [contents EXCEPT ![Dst(m)] = v]
    /\ Ends(m, "failed")
    /\ UNCHANGED <<version, released, owner, call>>

(* A provider that breaks its contract while it has owner access: it       *)
(* writes the source or releases a participant.                            *)
ProviderMeddles(m) ==
    /\ Meddling /\ move[m].phase \in {"copying", "copied"}
    /\ move' = [move EXCEPT ![m].broken = TRUE]
    /\ \/ /\ version[Src(m)] < MaxVersion /\ contents[Src(m)] # None
          /\ \E v \in Val : contents' = [contents EXCEPT ![Src(m)] = v]
          /\ version' = [version EXCEPT ![Src(m)] = @ + 1]
          /\ UNCHANGED released
       \/ \E c \in {Src(m), Dst(m)} :
             /\ contents' = [contents EXCEPT ![c] = None]
             /\ released' = released \union {c}
             /\ UNCHANGED version
    /\ UNCHANGED <<owner, call>>

(* Mutant: the version is not compared.                                    *)
ValidReleasedOnly(m) == /\ Live(Src(m)) /\ Live(Dst(m))
                        /\ contents[Dst(m)] # None

(* _validate_completed_move.                                               *)
ValidMove(m) == /\ Live(Src(m)) /\ Live(Dst(m))
                /\ version[Src(m)] = move[m].captured
                /\ contents[Dst(m)] # None

(* _commit_success: validation, the output Tensor and its autograd node.   *)
Validate(m) ==
    /\ move[m].phase = "copied"
    /\ \/ ValidMove(m) /\ MovesTo(m, "validated")
       \/ Ends(m, "failed")          \* invalid, or building the output raises
    /\ UNCHANGED <<carriers, owner, call>>

(* The source is released under owner access, or its storage raises and it *)
(* stays live.                                                             *)
ReleaseSource(m) ==
    /\ move[m].phase = "validated"
    /\ \/ /\ contents' = [contents EXCEPT ![Src(m)] = None]
          /\ released' = released \union {Src(m)}
          /\ Ends(m, "moved")
       \/ /\ Ends(m, "failed")
          /\ UNCHANGED <<contents, released>>
    /\ UNCHANGED <<version, owner, call>>

(* _relinquish_participants: a token that is not this move's is refused.   *)
GiveBack(m, c) == owner' = IF owner[c] = m THEN [owner EXCEPT ![c] = None] ELSE owner

RelinquishSource(m) ==
    /\ move[m].phase = "giveSource"
    /\ GiveBack(m, Src(m))
    /\ MovesTo(m, "giveDestination")
    /\ UNCHANGED <<carriers, call>>

RelinquishDestination(m) ==
    /\ move[m].phase = "giveDestination"
    /\ GiveBack(m, Dst(m))
    /\ MovesTo(m, "ended")
    /\ UNCHANGED <<carriers, call>>

(* The handle becomes terminal, or move_async raises.                      *)
EndMove(m) ==
    /\ move[m].phase = "ended"
    /\ MovesTo(m, "done")
    /\ Returns(m)
    /\ UNCHANGED <<carriers, owner>>

MoveStep(m) ==
    \/ ClaimSource(m) \/ ClaimDestination(m) \/ Capture(m) \/ PrepareCopy(m)
    \/ Allocate(m) \/ Refuse(m) \/ SubmitCopy(m)
    \/ CopyElements(m) \/ CopyFails(m) \/ Validate(m) \/ ReleaseSource(m)
    \/ RelinquishSource(m) \/ RelinquishDestination(m) \/ EndMove(m)
-----------------------------------------------------------------------------
UserStep(u) ==
    \/ \E c \in Carrier, v \in Val : Write(u, c, v) \/ WriteChecks(u, c, v)
    \/ \E c \in Carrier : Release(u, c) \/ ReleaseChecks(u, c)
    \/ \E m \in Move, s, d \in Carrier : CallMove(u, m, s, d)

Next == \/ \E u \in User : UserStep(u) \/ CallStep(u)
        \/ \E m \in Move : MoveStep(m) \/ ProviderMeddles(m)

Spec == Init /\ [][Next]_vars

(* The thread that executes a move keeps running; a provider's completion  *)
(* comes.                                                                  *)
Fairness == /\ \A m \in Move : WF_vars(MoveStep(m))
            /\ \A u \in User : WF_vars(CallStep(u))

FairSpec == Spec /\ Fairness
-----------------------------------------------------------------------------
TypeOK ==
    /\ contents \in [Carrier -> Val \union {None}]
    /\ version \in [Carrier -> 0..MaxVersion]
    /\ released \in SUBSET Carrier
    /\ owner \in [Carrier -> Move \union {None}]
    /\ move \in [Move -> Moves]
    /\ call \in [User -> ThreadCalls]
    /\ \A m \in Move : move[m].phase # "free" => {Src(m), Dst(m)} \subseteq Carrier /\ Src(m) # Dst(m)
-----------------------------------------------------------------------------
Claimed == {"claimed", "captured", "prepared", "allocated"} \union InFlight
Captured == {"captured", "prepared", "allocated"} \union InFlight

(* Ownership is exclusive and never leaks: a move owns both participants   *)
(* from its claims to its commit, whatever fails, and an owned carrier is  *)
(* the participant of a move that has yet to give it back.                 *)
OwnershipExact ==
    /\ \A m \in Move : /\ move[m].phase = "half" => owner[Src(m)] = m
                       /\ move[m].phase \in Claimed => owner[Src(m)] = m /\ owner[Dst(m)] = m
    /\ \A c \in Carrier : owner[c] # None =>
          LET m == owner[c]
          IN \/ c = Src(m) /\ move[m].phase \in Claimed \union {"half", "giveSource"}
             \/ c = Dst(m) /\ move[m].phase \in Claimed \union {"giveSource", "giveDestination"}

Whole(m) == move[m].phase # "free" /\ Src(m) \notin Torn /\ Dst(m) \notin Torn

(* As long as a move owns its source, the source is live and holds the     *)
(* value captured at initiation, and so it is handed back when the move    *)
(* fails; only a move that succeeds releases it.                           *)
SourceKept ==
    \A m \in Move : Whole(m) /\ ~move[m].broken /\ owner[Src(m)] = m =>
        IF move[m].outcome = "moved" THEN Src(m) \in released
        ELSE Live(Src(m)) /\ (move[m].phase \in Captured => contents[Src(m)] = move[m].taken)

(* When the source is released the destination holds, in live storage, the *)
(* value the source had when the move was initiated, even if the provider  *)
(* wrote or released a participant while it copied.                        *)
DestinationServed ==
    \A m \in Move : Whole(m) /\ move[m].outcome = "moved" /\ owner[Dst(m)] = m =>
        Live(Dst(m)) /\ contents[Dst(m)] = move[m].taken

(* Every move ends, also when two threads move between the same carriers   *)
(* in opposite directions: a claim that is refused waits for nobody.  (A   *)
(* move does not start twice, so this is that each one ends.)              *)
EveryMoveEnds == []<>(\A m \in Move : move[m].phase \in {"free", "done"})

(* Every move is an atomic hand-over, and one whose provider has broken    *)
(* its contract fails, see TransferMemory.                                 *)
Hidden(m) == IF move[m].phase \notin Claimed THEN {}
             ELSE {Dst(m)} \union (IF move[m].broken THEN {Src(m)} ELSE {})
Visible == [c \in Carrier |-> IF \E m \in Move : c \in Hidden(m) THEN Unknown ELSE contents[c]]
OpenMoves == [m \in Move |-> IF move[m].phase \in Claimed THEN <<Src(m), Dst(m)>> ELSE None]
Transfers == INSTANCE TransferMemory WITH cell <- Visible, open <- OpenMoves
AtomicTransfer == Transfers!Spec
-----------------------------------------------------------------------------
(* openspec/specs/interop-movement/spec.md:901: "Mutation, release, or     *)
(* another move of a participating source SHALL fail with RuntimeError     *)
(* during that interval": the value of a source does not change while its  *)
(* move is pending.                                                        *)
PendingSourceProtected ==
    [][\A m \in Move : move[m].phase \in InFlight /\ move'[m].phase \in InFlight =>
          contents'[Src(m)] = contents[Src(m)]]_vars

=============================================================================
