--------------------------- MODULE MoveAsync_proofs ---------------------------
(***************************************************************************)
(* Proofs about MoveAsync, for any sets of carriers, values, threads and   *)
(* moves, any carriers that Python code writes, and any providers.         *)
(***************************************************************************)
EXTENDS MoveAsync, TLAPS

Outcomes == {"none", "moved", "failed", "refused"}

(* Move m, and no other, is now in phase p with outcome o.                 *)
Becomes(m, p, o) ==
    /\ move' \in [Move -> Moves]
    /\ \A n \in Move \ {m} : move'[n] = move[n]
    /\ move'[m].phase = p /\ move'[m].outcome = o
    /\ move'[m].src = Src(m) /\ move'[m].dst = Dst(m)
    /\ move'[m].captured = move[m].captured /\ move'[m].taken = move[m].taken
    /\ move'[m].broken = move[m].broken

LEMMA GoesBecomes ==
    ASSUME TypeOK, NEW m \in Move, NEW p \in Phases, MovesTo(m, p)
    PROVE  Becomes(m, p, move[m].outcome)
<1>1. move[m] \in Moves
  BY DEF TypeOK
<1>2. move' = [move EXCEPT ![m] = [move[m] EXCEPT !.phase = p]]
  BY DEF MovesTo
<1>3. [move[m] EXCEPT !.phase = p] \in Moves
  BY <1>1 DEF Moves
<1> QED BY <1>1, <1>2, <1>3 DEF TypeOK, Becomes, Src, Dst, Moves

LEMMA EndsBecomes ==
    ASSUME TypeOK, NEW m \in Move, NEW p \in Phases, NEW o \in Outcomes,
           move' = [move EXCEPT ![m].phase = p, ![m].outcome = o]
    PROVE  Becomes(m, p, o)
<1>1. move[m] \in Moves
  BY DEF TypeOK
<1>2. move' = [move EXCEPT ![m] = [move[m] EXCEPT !.phase = p, !.outcome = o]]
  OBVIOUS
<1>3. [move[m] EXCEPT !.phase = p, !.outcome = o] \in Moves
  BY <1>1 DEF Moves, Outcomes
<1> QED BY <1>1, <1>2, <1>3 DEF TypeOK, Becomes, Src, Dst, Moves

(* Capture and ProviderMeddles also change what Becomes leaves alone.      *)
Alters(m) ==
    /\ move' \in [Move -> Moves]
    /\ \A n \in Move \ {m} : move'[n] = move[n]
    /\ move'[m].outcome = move[m].outcome
    /\ move'[m].src = Src(m) /\ move'[m].dst = Dst(m)

LEMMA CaptureAlters ==
    ASSUME TypeOK, NEW m \in Move, Capture(m), Src(m) \in Carrier, Dst(m) \in Carrier
    PROVE  /\ Alters(m) /\ move'[m].phase = "captured" /\ move'[m].broken = move[m].broken
           /\ move'[m].captured = version[Src(m)] /\ move'[m].taken = contents[Src(m)]
<1>1. move[m] \in Moves
  BY DEF TypeOK
<1> DEFINE q == [move[m] EXCEPT !.phase = "captured", !.captured = version[Src(m)],
                                !.size = contents[Dst(m)] # None, !.taken = contents[Src(m)]]
<1>2. move' = [move EXCEPT ![m] = q]
  BY DEF Capture
<1>3. (contents[Dst(m)] # None) \in BOOLEAN
  OBVIOUS
<1>4. version[Src(m)] \in 0 .. MaxVersion /\ contents[Src(m)] \in Val \union {None}
  BY DEF TypeOK
<1>5. "captured" \in Phases
  BY DEF Phases, Initiating
<1>6. q \in Moves
  BY <1>1, <1>3, <1>4, <1>5 DEF Moves
<1> QED BY <1>1, <1>2, <1>6 DEF TypeOK, Alters, Src, Dst, Moves

LEMMA MeddlingAlters ==
    ASSUME TypeOK, NEW m \in Move, ProviderMeddles(m)
    PROVE  /\ Alters(m) /\ move'[m].phase = move[m].phase /\ move'[m].broken
           /\ move'[m].captured = move[m].captured /\ move'[m].taken = move[m].taken
<1>1. move[m] \in Moves
  BY DEF TypeOK
<1>2. move' = [move EXCEPT ![m] = [move[m] EXCEPT !.broken = TRUE]]
  BY DEF ProviderMeddles
<1>3. [move[m] EXCEPT !.broken = TRUE] \in Moves
  BY <1>1 DEF Moves
<1> QED BY <1>1, <1>2, <1>3 DEF TypeOK, Alters, Src, Dst, Moves

(* A move that is not free has two distinct participants.                  *)
LEMMA Participants ==
    ASSUME TypeOK, NEW m \in Move, move[m].phase # "free"
    PROVE  Src(m) \in Carrier /\ Dst(m) \in Carrier /\ Src(m) # Dst(m)
  BY DEF TypeOK
-----------------------------------------------------------------------------
(* The phase and the outcome that each step of a move leads to.            *)
LEMMA MoveEnters ==
    ASSUME TypeOK, NEW m \in Move
    PROVE  /\ ClaimSource(m) => \/ Claimable(Src(m)) /\ Becomes(m, "half", move[m].outcome)
                                \/ ~Claimable(Src(m)) /\ Becomes(m, "done", "refused")
           /\ ClaimDestination(m) => \/ Claimable(Dst(m)) /\ Becomes(m, "claimed", move[m].outcome)
                                     \/ ~Claimable(Dst(m)) /\ Becomes(m, "giveSource", "refused")
           /\ PrepareCopy(m) => Becomes(m, "prepared", move[m].outcome)
           /\ Allocate(m) => Becomes(m, "allocated", move[m].outcome)
           /\ Refuse(m) => Becomes(m, "giveSource", "refused")
           /\ SubmitCopy(m) => \/ Becomes(m, "copying", move[m].outcome)
                               \/ Becomes(m, "giveSource", "failed")
           /\ CopyElements(m) => Becomes(m, "copied", move[m].outcome)
           /\ CopyFails(m) => Becomes(m, "giveSource", "failed")
           /\ Validate(m) => \/ ValidMove(m) /\ Becomes(m, "validated", move[m].outcome)
                             \/ Becomes(m, "giveSource", "failed")
           /\ ReleaseSource(m) => \/ /\ contents' = [contents EXCEPT ![Src(m)] = None]
                                     /\ released' = released \union {Src(m)}
                                     /\ Becomes(m, "giveSource", "moved")
                                  \/ /\ UNCHANGED <<contents, released>>
                                     /\ Becomes(m, "giveSource", "failed")
           /\ RelinquishSource(m) => Becomes(m, "giveDestination", move[m].outcome)
           /\ RelinquishDestination(m) => Becomes(m, "ended", move[m].outcome)
           /\ EndMove(m) => Becomes(m, "done", move[m].outcome)
<1>1. ASSUME NEW p \in Phases, MovesTo(m, p) PROVE Becomes(m, p, move[m].outcome)
  BY <1>1, GoesBecomes
<1>2. ASSUME NEW o \in Outcomes, Ends(m, o) PROVE Becomes(m, "giveSource", o)
  BY <1>2, EndsBecomes DEF Ends, Phases, Returning
<1> HIDE DEF Becomes
<1> USE DEF Phases, Initiating, InFlight, Returning, Outcomes
<1>3. ClaimSource(m) => \/ Claimable(Src(m)) /\ Becomes(m, "half", move[m].outcome)
                        \/ ~Claimable(Src(m)) /\ Becomes(m, "done", "refused")
  BY <1>1, EndsBecomes DEF ClaimSource
<1>4. ClaimDestination(m) => \/ Claimable(Dst(m)) /\ Becomes(m, "claimed", move[m].outcome)
                             \/ ~Claimable(Dst(m)) /\ Becomes(m, "giveSource", "refused")
  BY <1>1, <1>2 DEF ClaimDestination
<1>5. /\ PrepareCopy(m) => Becomes(m, "prepared", move[m].outcome)
      /\ Allocate(m) => Becomes(m, "allocated", move[m].outcome)
      /\ Refuse(m) => Becomes(m, "giveSource", "refused")
  BY <1>1, <1>2 DEF PrepareCopy, Allocate, Refuse
<1>6. SubmitCopy(m) => \/ Becomes(m, "copying", move[m].outcome)
                       \/ Becomes(m, "giveSource", "failed")
  BY <1>1, <1>2 DEF SubmitCopy
<1>7. /\ CopyElements(m) => Becomes(m, "copied", move[m].outcome)
      /\ CopyFails(m) => Becomes(m, "giveSource", "failed")
  BY <1>1, <1>2 DEF CopyElements, CopyFails
<1>8. Validate(m) => \/ ValidMove(m) /\ Becomes(m, "validated", move[m].outcome)
                     \/ Becomes(m, "giveSource", "failed")
  BY <1>1, <1>2 DEF Validate
<1>9. ReleaseSource(m) => \/ /\ contents' = [contents EXCEPT ![Src(m)] = None]
                             /\ released' = released \union {Src(m)}
                             /\ Becomes(m, "giveSource", "moved")
                          \/ /\ UNCHANGED <<contents, released>>
                             /\ Becomes(m, "giveSource", "failed")
  BY <1>2 DEF ReleaseSource
<1>10. /\ RelinquishSource(m) => Becomes(m, "giveDestination", move[m].outcome)
       /\ RelinquishDestination(m) => Becomes(m, "ended", move[m].outcome)
       /\ EndMove(m) => Becomes(m, "done", move[m].outcome)
  BY <1>1 DEF RelinquishSource, RelinquishDestination, EndMove
<1> QED BY <1>3, <1>4, <1>5, <1>6, <1>7, <1>8, <1>9, <1>10

(* Whatever a step of a move does, its participants stay the same.         *)
LEMMA MoveFrame ==
    ASSUME TypeOK, NEW m \in Move, MoveStep(m)
    PROVE  /\ Alters(m) \/ \E p \in Phases, o \in Outcomes : Becomes(m, p, o)
           /\ move[m].phase # "free"
<1>1. move[m].phase # "free"
  BY DEF MoveStep, ClaimSource, ClaimDestination, Capture, PrepareCopy, Allocate, Refuse, SubmitCopy,
         CopyElements, CopyFails, Validate, ReleaseSource, RelinquishSource, RelinquishDestination, EndMove,
         Claimable
<1>2. Capture(m) => Alters(m)
  BY <1>1, CaptureAlters, Participants
<1>3. move[m].outcome \in Outcomes
  BY DEF TypeOK, Moves, Outcomes
<1> DEFINE Framed == Alters(m) \/ \E p \in Phases, o \in Outcomes : Becomes(m, p, o)
<1>4. ASSUME NEW p \in Phases, NEW o \in Outcomes, Becomes(m, p, o) PROVE Framed
  BY <1>4
<1> HIDE DEF Becomes, Alters, Framed
<1>5. /\ {"half", "done", "claimed", "prepared", "allocated", "copying", "copied", "validated",
           "giveSource", "giveDestination", "ended"} \subseteq Phases
      /\ {"moved", "failed", "refused"} \subseteq Outcomes
  BY DEF Phases, Initiating, InFlight, Returning, Outcomes
<1>6. ClaimSource(m) \/ ClaimDestination(m) \/ PrepareCopy(m) \/ Allocate(m) \/ Refuse(m) => Framed
  BY <1>3, <1>4, <1>5, MoveEnters
<1>7. SubmitCopy(m) \/ CopyElements(m) \/ CopyFails(m) \/ Validate(m) \/ ReleaseSource(m) => Framed
  BY <1>3, <1>4, <1>5, MoveEnters
<1>8. RelinquishSource(m) \/ RelinquishDestination(m) \/ EndMove(m) => Framed
  BY <1>3, <1>4, <1>5, MoveEnters
<1>9. Framed
  <2>1. Capture(m) => Framed
    BY <1>2 DEF Framed
  <2> QED BY <1>6, <1>7, <1>8, <2>1 DEF MoveStep
<1> QED BY <1>1, <1>9 DEF Framed
-----------------------------------------------------------------------------
(* Type correctness.                                                       *)

LEMMA MoveStepTyped == ASSUME TypeOK, NEW m \in Move, MoveStep(m) PROVE TypeOK'
<1>1. /\ move' \in [Move -> Moves]
      /\ \A n \in Move : move'[n].phase # "free" => /\ {move'[n].src, move'[n].dst} \subseteq Carrier
                                                    /\ move'[n].src # move'[n].dst
  BY MoveFrame DEF Becomes, Alters, TypeOK, Src, Dst
<1>2. Src(m) \in Carrier /\ Dst(m) \in Carrier
  BY MoveFrame, Participants
<1>3. call' \in [User -> ThreadCalls]
  <2>1. call' = call \/ Returns(m)
    BY DEF MoveStep, ClaimSource, ClaimDestination, Capture, PrepareCopy, Allocate, Refuse, SubmitCopy,
           CopyElements, CopyFails, Validate, ReleaseSource, RelinquishSource, RelinquishDestination, EndMove
  <2> QED BY <2>1 DEF Returns, TypeOK, IdleCall, ThreadCalls
<1>4. /\ contents' \in [Carrier -> Val \union {None}]
      /\ version' = version /\ released' \in SUBSET Carrier
  BY <1>2 DEF MoveStep, ClaimSource, ClaimDestination, Capture, PrepareCopy, Allocate, Refuse, SubmitCopy,
     CopyElements, CopyFails, Validate, ReleaseSource, RelinquishSource, RelinquishDestination, EndMove,
     carriers, TypeOK
<1>5. owner' \in [Carrier -> Move \union {None}]
  BY DEF MoveStep, ClaimSource, ClaimDestination, Capture, PrepareCopy, Allocate, Refuse, SubmitCopy,
     CopyElements, CopyFails, Validate, ReleaseSource, RelinquishSource, RelinquishDestination, EndMove,
     TypeOK, GiveBack
<1> QED BY <1>1, <1>3, <1>4, <1>5 DEF TypeOK, Src, Dst

LEMMA MeddlingTyped == ASSUME TypeOK, NEW m \in Move, ProviderMeddles(m) PROVE TypeOK'
<1>1. move[m].phase # "free"
  BY DEF ProviderMeddles
<1>2. Src(m) \in Carrier /\ Dst(m) \in Carrier
  BY <1>1, Participants
<1>3. /\ move' \in [Move -> Moves]
      /\ \A n \in Move : move'[n].phase # "free" => /\ {move'[n].src, move'[n].dst} \subseteq Carrier
                                                    /\ move'[n].src # move'[n].dst
  BY <1>1, MeddlingAlters DEF Alters, TypeOK, Src, Dst
<1>4. /\ contents' \in [Carrier -> Val \union {None}]
      /\ version' \in [Carrier -> 0 .. MaxVersion] /\ released' \in SUBSET Carrier
  <2>1. CASE /\ version[Src(m)] < MaxVersion
             /\ \E v \in Val : contents' = [contents EXCEPT ![Src(m)] = v]
             /\ version' = [version EXCEPT ![Src(m)] = @ + 1]
             /\ UNCHANGED released
    BY <1>2, <2>1, MoveAssumption DEF TypeOK
  <2>2. CASE \E c \in {Src(m), Dst(m)} :
               /\ contents' = [contents EXCEPT ![c] = None]
               /\ released' = released \union {c}
               /\ UNCHANGED version
    BY <1>2, <2>2 DEF TypeOK
  <2> QED BY <2>1, <2>2 DEF ProviderMeddles
<1>5. UNCHANGED <<owner, call>>
  BY DEF ProviderMeddles
<1> QED BY <1>3, <1>4, <1>5 DEF TypeOK, Src, Dst

LEMMA CallMoveAlters ==
    ASSUME TypeOK, NEW u \in User, NEW m \in Move, NEW s \in Carrier, NEW d \in Carrier,
           CallMove(u, m, s, d)
    PROVE  /\ move' \in [Move -> Moves]
           /\ \A n \in Move \ {m} : move'[n] = move[n]
           /\ move[m].phase = "free" /\ s # d
           /\ move'[m].phase = "called" /\ move'[m].outcome = "none"
           /\ move'[m].src = s /\ move'[m].dst = d /\ ~move'[m].broken
<1> DEFINE q == [NoMove EXCEPT !.phase = "called", !.src = s, !.dst = d]
<1>1. move' = [move EXCEPT ![m] = q]
  BY DEF CallMove
<1>2. q \in Moves /\ q.phase = "called" /\ q.outcome = "none" /\ q.src = s /\ q.dst = d /\ ~q.broken
  <2>1. NoMove \in Moves /\ NoMove.outcome = "none" /\ ~NoMove.broken
    BY MoveAssumption DEF NoMove, Moves, Phases
  <2> QED BY <2>1 DEF Moves, Phases, Initiating
<1> HIDE DEF q
<1> QED BY ZenonT(40), <1>1, <1>2 DEF CallMove, TypeOK

UserActs(u) == UserStep(u) \/ CallStep(u)

LEMMA UserTyped == ASSUME TypeOK, NEW u \in User, UserActs(u) PROVE TypeOK'
<1> USE DEF carriers
<1>a. call[u] \in ThreadCalls
  BY DEF TypeOK
<1>1. ASSUME NEW c \in Carrier, NEW v \in Val, Write(u, c, v) PROVE TypeOK'
  BY <1>1, MoveAssumption DEF Write, TypeOK, Src, Dst
<1>2. ASSUME NEW c \in Carrier, NEW v \in Val, WriteChecks(u, c, v) PROVE TypeOK'
  BY <1>2 DEF WriteChecks, TypeOK, Src, Dst, ThreadCalls
<1>3. ASSUME NEW c \in Carrier, Release(u, c) PROVE TypeOK'
  BY <1>3 DEF Release, TypeOK, Src, Dst
<1>4. ASSUME NEW c \in Carrier, ReleaseChecks(u, c) PROVE TypeOK'
  BY <1>4 DEF ReleaseChecks, TypeOK, Src, Dst, ThreadCalls
<1>5. ASSUME NEW m \in Move, NEW s \in Carrier, NEW d \in Carrier, CallMove(u, m, s, d) PROVE TypeOK'
  <2>1. UNCHANGED <<contents, version, released, owner>>
    BY <1>5 DEF CallMove
  <2>2. call' \in [User -> ThreadCalls]
    BY <1>5 DEF CallMove, TypeOK, ThreadCalls
  <2>3. /\ move' \in [Move -> Moves]
        /\ \A n \in Move : move'[n].phase # "free" => /\ {move'[n].src, move'[n].dst} \subseteq Carrier
                                                      /\ move'[n].src # move'[n].dst
    <3>1. /\ move' \in [Move -> Moves] /\ \A n \in Move \ {m} : move'[n] = move[n]
          /\ move'[m].src = s /\ move'[m].dst = d /\ s # d
      BY <1>5, CallMoveAlters
    <3> QED BY <3>1 DEF TypeOK, Src, Dst
  <2> QED BY <2>1, <2>2, <2>3 DEF TypeOK, Src, Dst
<1>6. CASE WriteLands(u)
  <2>1. call[u].carrier \in Carrier /\ call[u].val \in Val
    BY <1>a, <1>6 DEF WriteLands, ThreadCalls
  <2>2. [call[u] EXCEPT !.op = "written"] \in ThreadCalls
    BY <1>a, <1>6 DEF WriteLands, ThreadCalls
  <2>3. call' = [call EXCEPT ![u] = [call[u] EXCEPT !.op = "written"]]
    BY <1>6 DEF WriteLands
  <2> QED BY <1>6, <2>1, <2>2, <2>3 DEF WriteLands, TypeOK, Src, Dst
<1>7. CASE WriteEnds(u)
  <2>1. call[u].carrier \in Carrier
    BY <1>a, <1>7 DEF WriteEnds, ThreadCalls
  <2> QED BY <1>7, <2>1, MoveAssumption DEF WriteEnds, TypeOK, Src, Dst, ThreadCalls, IdleCall
<1>8. CASE ReleaseLands(u)
  <2>1. call[u].carrier \in Carrier
    BY <1>a, <1>8 DEF ReleaseLands, ThreadCalls
  <2>2. [call[u] EXCEPT !.op = "mark"] \in ThreadCalls
    BY <1>a, <1>8 DEF ReleaseLands, ThreadCalls
  <2>3. call' = [call EXCEPT ![u] = [call[u] EXCEPT !.op = "mark"]]
    BY <1>8 DEF ReleaseLands
  <2> QED BY <1>8, <2>1, <2>2, <2>3 DEF ReleaseLands, TypeOK, Src, Dst
<1>9. CASE ReleaseMarks(u)
  <2>1. call[u].carrier \in Carrier
    BY <1>a, <1>9 DEF ReleaseMarks, ThreadCalls
  <2> QED BY <1>9, <2>1 DEF ReleaseMarks, TypeOK, Src, Dst, ThreadCalls, IdleCall
<1> QED BY <1>1, <1>2, <1>3, <1>4, <1>5, <1>6, <1>7, <1>8, <1>9 DEF UserActs, UserStep, CallStep

LEMMA InitTyped == Init => TypeOK
<1>1. NoMove \in Moves
  BY MoveAssumption DEF NoMove, Moves, Phases
<1> QED BY <1>1, MoveAssumption DEF Init, TypeOK, NoMove, ThreadCalls, IdleCall

LEMMA NextTyped == TypeOK /\ [Next]_vars => TypeOK'
<1>1. TypeOK /\ UNCHANGED vars => TypeOK'
  BY DEF TypeOK, vars, Src, Dst
<1> QED BY <1>1, MoveStepTyped, MeddlingTyped, UserTyped DEF Next, UserActs

(* Every reachable state is well typed, and a move never has its tensor's  *)
(* own carrier as its destination.                                         *)
THEOREM TypeCorrect == Spec => []TypeOK
  BY InitTyped, NextTyped, PTL DEF Spec
-----------------------------------------------------------------------------
(* Ownership.  The invariant is inductive as it stands.                    *)

(* The steps that leave the owners alone only move on within, or on to the *)
(* giving back of, what the move holds.                                    *)
LEMMA HoldingKept ==
    ASSUME TypeOK, OwnershipExact, NEW m \in Move, owner' = owner,
           move[m].phase \in Claimed \union {"half", "ended"},
           /\ move' \in [Move -> Moves]
           /\ \A n \in Move \ {m} : move'[n] = move[n]
           /\ move'[m].src = Src(m) /\ move'[m].dst = Dst(m),
           \/ move[m].phase \in Claimed /\ move'[m].phase \in Claimed \union {"giveSource"}
           \/ move[m].phase = "half" /\ move'[m].phase = "giveSource"
           \/ move[m].phase = "ended" /\ move'[m].phase = "done"
    PROVE  OwnershipExact'
  BY DEF OwnershipExact, TypeOK, Src, Dst, Claimed, InFlight

LEMMA MoveStepOwns ==
    ASSUME TypeOK, OwnershipExact, NEW m \in Move, MoveStep(m)
    PROVE  OwnershipExact'
<1>a. Src(m) \in Carrier /\ Dst(m) \in Carrier /\ Src(m) # Dst(m)
  BY MoveFrame, Participants
<1>1. CASE ClaimSource(m)
  <2>1. CASE Claimable(Src(m)) /\ Becomes(m, "half", move[m].outcome)
    <3>1. owner' = [owner EXCEPT ![Src(m)] = m] /\ owner[Src(m)] = None /\ move[m].phase = "called"
      BY <1>1, <2>1 DEF ClaimSource, Claimable
    <3> QED BY <1>a, <2>1, <3>1, MoveAssumption
            DEF OwnershipExact, Becomes, TypeOK, Src, Dst, Claimed, InFlight
  <2>2. CASE ~Claimable(Src(m)) /\ Becomes(m, "done", "refused")
    <3>1. owner' = owner /\ move[m].phase = "called"
      BY <1>1, <2>2 DEF ClaimSource
    <3> QED BY <2>2, <3>1, MoveAssumption
            DEF OwnershipExact, Becomes, TypeOK, Src, Dst, Claimed, InFlight
  <2> QED BY <1>1, <2>1, <2>2, MoveEnters
<1>2. CASE ClaimDestination(m)
  <2>1. CASE Claimable(Dst(m)) /\ Becomes(m, "claimed", move[m].outcome)
    <3>1. owner' = [owner EXCEPT ![Dst(m)] = m] /\ owner[Dst(m)] = None /\ move[m].phase = "half"
      BY <1>2, <2>1 DEF ClaimDestination, Claimable
    <3> QED BY <1>a, <2>1, <3>1, MoveAssumption
            DEF OwnershipExact, Becomes, TypeOK, Src, Dst, Claimed, InFlight
  <2>2. CASE ~Claimable(Dst(m)) /\ Becomes(m, "giveSource", "refused")
    <3>1. owner' = owner /\ move[m].phase = "half"
      BY <1>2, <2>2 DEF ClaimDestination
    <3> QED BY <2>2, <3>1, HoldingKept DEF Becomes
  <2> QED BY <1>2, <2>1, <2>2, MoveEnters
<1>3. CASE RelinquishSource(m)
  <2>1. Becomes(m, "giveDestination", move[m].outcome)
    BY <1>3, MoveEnters
  <2>2. GiveBack(m, Src(m)) /\ move[m].phase = "giveSource"
    BY <1>3 DEF RelinquishSource
  <2> QED BY SMTT(40), <1>a, <2>1, <2>2, MoveAssumption
          DEF OwnershipExact, Becomes, TypeOK, Src, Dst, Claimed, InFlight, GiveBack
<1>4. CASE RelinquishDestination(m)
  <2>1. Becomes(m, "ended", move[m].outcome)
    BY <1>4, MoveEnters
  <2>2. GiveBack(m, Dst(m)) /\ move[m].phase = "giveDestination"
    BY <1>4 DEF RelinquishDestination
  <2> QED BY SMTT(40), <1>a, <2>1, <2>2, MoveAssumption
          DEF OwnershipExact, Becomes, TypeOK, Src, Dst, Claimed, InFlight, GiveBack
<1>5. CASE Capture(m)
  <2>1. owner' = owner /\ move[m].phase = "claimed"
    BY <1>5 DEF Capture
  <2> QED BY <1>5, <1>a, <2>1, CaptureAlters, HoldingKept DEF Alters, Claimed
<1>6. CASE PrepareCopy(m) \/ Allocate(m) \/ Refuse(m) \/ SubmitCopy(m) \/ CopyElements(m) \/ CopyFails(m)
           \/ Validate(m) \/ ReleaseSource(m) \/ EndMove(m)
  <2>1. owner' = owner /\ move[m].phase \in Claimed \union {"ended"}
    BY <1>6 DEF PrepareCopy, Allocate, Refuse, SubmitCopy, CopyElements, CopyFails, Validate, ReleaseSource,
                EndMove, Claimed, InFlight
  <2>2. ASSUME NEW p \in Claimed \union {"giveSource"}, NEW o, Becomes(m, p, o),
               move[m].phase # "ended"
        PROVE  OwnershipExact'
    BY <2>1, <2>2, HoldingKept DEF Becomes
  <2>3. ASSUME NEW o, Becomes(m, "done", o), move[m].phase = "ended"
        PROVE  OwnershipExact'
    BY <2>1, <2>3, HoldingKept DEF Becomes
  <2>4. CASE PrepareCopy(m) \/ Allocate(m) \/ Refuse(m) \/ SubmitCopy(m)
    <3>1. move[m].phase # "ended"
      BY <2>4 DEF PrepareCopy, Allocate, Refuse, SubmitCopy
    <3> QED BY <2>2, <2>4, <3>1, MoveEnters DEF Claimed, InFlight
  <2>5. CASE CopyElements(m) \/ CopyFails(m) \/ Validate(m) \/ ReleaseSource(m)
    <3>1. move[m].phase # "ended"
      BY <2>5 DEF CopyElements, CopyFails, Validate, ReleaseSource
    <3> QED BY <2>2, <2>5, <3>1, MoveEnters DEF Claimed, InFlight
  <2>6. CASE EndMove(m)
    BY <2>3, <2>6, MoveEnters DEF EndMove
  <2> QED BY <1>6, <2>4, <2>5, <2>6
<1> QED BY <1>1, <1>2, <1>3, <1>4, <1>5, <1>6 DEF MoveStep

LEMMA OtherStepsOwn ==
    ASSUME TypeOK, OwnershipExact,
           \/ UNCHANGED vars
           \/ \E m \in Move : ProviderMeddles(m)
           \/ \E u \in User : UserActs(u)
    PROVE  OwnershipExact'
<1>1. ASSUME NEW m \in Move, ProviderMeddles(m) PROVE OwnershipExact'
  <2>1. owner' = owner
    BY <1>1 DEF ProviderMeddles
  <2> QED BY <1>1, <2>1, MeddlingAlters DEF Alters, OwnershipExact, TypeOK, Src, Dst
<1>2. CASE UNCHANGED <<move, owner>>
  BY <1>2 DEF OwnershipExact, Src, Dst
<1>3. ASSUME NEW u \in User, UserActs(u) PROVE OwnershipExact'
  <2>1. ASSUME NEW m \in Move, NEW s \in Carrier, NEW d \in Carrier, CallMove(u, m, s, d)
        PROVE  OwnershipExact'
    <3>1. owner' = owner
      BY <2>1 DEF CallMove
    <3>2. move[m].phase = "free" /\ move'[m].phase = "called" /\ \A n \in Move \ {m} : move'[n] = move[n]
      BY <2>1, CallMoveAlters
    <3> QED BY <3>1, <3>2, MoveAssumption DEF OwnershipExact, TypeOK, Src, Dst, Claimed, InFlight
  <2>2. UNCHANGED <<move, owner>> \/ \E m \in Move, s, d \in Carrier : CallMove(u, m, s, d)
    BY <1>3 DEF UserActs, UserStep, CallStep, Write, WriteChecks, Release, ReleaseChecks,
                WriteLands, WriteEnds, ReleaseLands, ReleaseMarks
  <2> QED BY <1>2, <2>1, <2>2
<1> QED BY <1>1, <1>2, <1>3 DEF vars

LEMMA OwnershipInvariant == Spec => [](TypeOK /\ OwnershipExact)
<1>1. Init => OwnershipExact
  BY DEF Init, OwnershipExact, NoMove, Claimed, InFlight
<1>2. TypeOK /\ OwnershipExact /\ [Next]_vars => OwnershipExact'
  BY MoveStepOwns, OtherStepsOwn DEF Next, UserActs
<1> QED BY <1>1, <1>2, InitTyped, NextTyped, PTL DEF Spec

(* Whatever fails, a move owns both its participants from its claims to    *)
(* its commit, a carrier has one owner at a time, and a carrier that is    *)
(* owned belongs to a move that has yet to give it back.                   *)
THEOREM OwnershipStaysExact == Spec => []OwnershipExact
  BY OwnershipInvariant, PTL
-----------------------------------------------------------------------------
(* The values.  What has to hold of one move for its value to be safe:     *)
(* the source is as it was captured unless its version has moved, a copy   *)
(* that would pass the validation is the captured value, and the           *)
(* destination holds that value from the validation to the hand-back.      *)
ValueSafe(m) ==
    /\ move[m].phase \in {"called", "half"} \union Claimed => move[m].outcome = "none"
    /\ Whole(m) =>
       /\ ~move[m].broken /\ owner[Src(m)] = m =>
             IF move[m].outcome = "moved" THEN Src(m) \in released
             ELSE Live(Src(m)) /\ (move[m].phase \in Captured => contents[Src(m)] = move[m].taken)
       /\ move[m].phase \in Captured =>
             /\ move[m].captured <= version[Src(m)]
             /\ Live(Src(m)) /\ version[Src(m)] = move[m].captured => contents[Src(m)] = move[m].taken
       /\ move[m].phase = "copied" /\ ValidMove(m) => contents[Dst(m)] = move[m].taken
       /\ move[m].phase = "validated" => Live(Dst(m)) /\ contents[Dst(m)] = move[m].taken
       /\ move[m].outcome = "moved" /\ owner[Dst(m)] = m =>
             Live(Dst(m)) /\ contents[Dst(m)] = move[m].taken

(* Only calls on Python carriers are ever under way.                       *)
CallsTorn == \A u \in User : call[u].op \in {"write", "written", "release", "mark"} =>
                                call[u].carrier \in Torn

Values == CallsTorn /\ \A m \in Move : ValueSafe(m)

Untouched(c) == /\ contents'[c] = contents[c] /\ version'[c] = version[c]
                /\ (c \in released') <=> (c \in released)

(* A step of a move touches only what the move owns.                       *)
LEMMA MoveTouches ==
    ASSUME TypeOK, OwnershipExact, NEW m \in Move, MoveStep(m) \/ ProviderMeddles(m),
           NEW c \in Carrier, owner[c] # m
    PROVE  Untouched(c)
<1>1. move[m].phase \in Claimed => Src(m) # c /\ Dst(m) # c
  BY DEF OwnershipExact
<1>2. CASE Allocate(m) \/ CopyElements(m) \/ CopyFails(m) \/ ReleaseSource(m)
  <2>1. Src(m) # c /\ Dst(m) # c
    BY <1>1, <1>2 DEF Allocate, CopyElements, CopyFails, ReleaseSource, Claimed, InFlight
  <2>2. contents'[c] = contents[c] /\ UNCHANGED version
    BY <1>2, <2>1 DEF Allocate, CopyElements, CopyFails, ReleaseSource, TypeOK
  <2>3. released' = released \/ released' = released \union {Src(m)}
    BY <1>2 DEF Allocate, CopyElements, CopyFails, ReleaseSource
  <2> QED BY <2>1, <2>2, <2>3 DEF Untouched
<1>3. CASE ProviderMeddles(m)
  <2>1. Src(m) # c /\ Dst(m) # c
    BY <1>1, <1>3 DEF ProviderMeddles, Claimed, InFlight
  <2> QED BY <1>3, <2>1 DEF ProviderMeddles, Untouched, TypeOK
<1>4. CASE ClaimSource(m) \/ ClaimDestination(m) \/ Capture(m) \/ PrepareCopy(m) \/ Refuse(m) \/ SubmitCopy(m)
           \/ Validate(m) \/ RelinquishSource(m) \/ RelinquishDestination(m) \/ EndMove(m)
  BY <1>4 DEF ClaimSource, ClaimDestination, Capture, PrepareCopy, Refuse, SubmitCopy, Validate,
     RelinquishSource, RelinquishDestination, EndMove, carriers, Untouched
<1> QED BY <1>2, <1>3, <1>4 DEF MoveStep

(* A program thread touches carriers that nobody owns, or Python carriers. *)
LEMMA UserTouches ==
    ASSUME TypeOK, CallsTorn, NEW u \in User, UserActs(u),
           NEW c \in Carrier, owner[c] # None, c \notin Torn
    PROVE  Untouched(c)
<1>1. CASE UserStep(u)
  <2>1. ASSUME NEW d \in Carrier, NEW v \in Val, Write(u, d, v) PROVE Untouched(c)
    BY <2>1 DEF Write, Mutable, Untouched, TypeOK
  <2>2. ASSUME NEW d \in Carrier, Release(u, d) PROVE Untouched(c)
    BY <2>2 DEF Release, Untouched, TypeOK
  <2> QED BY <1>1, <2>1, <2>2 DEF UserStep, WriteChecks, ReleaseChecks, CallMove, carriers, Untouched
<1>2. CASE CallStep(u)
  <2>1. call[u].carrier # c
    BY <1>2 DEF CallStep, CallsTorn, WriteLands, WriteEnds, ReleaseLands, ReleaseMarks
  <2> QED BY <1>2, <2>1 DEF CallStep, WriteLands, WriteEnds, ReleaseLands, ReleaseMarks, TypeOK, Untouched
<1> QED BY <1>1, <1>2 DEF UserActs

(* A move is safe in a step that is not its own.                           *)
LEMMA OtherMoveSafe ==
    ASSUME TypeOK, OwnershipExact, NEW m \in Move, ValueSafe(m), move'[m] = move[m],
           \A c \in {Src(m), Dst(m)} : owner'[c] = m => owner[c] = m,
           Whole(m) => \A c \in {Src(m), Dst(m)} : owner[c] = m => Untouched(c)
    PROVE  ValueSafe(m)'
<1>1. Whole(m)' = Whole(m) /\ Src(m)' = Src(m) /\ Dst(m)' = Dst(m)
  BY DEF Whole, Src, Dst
<1>2. move[m].phase \in Captured \union Claimed => owner[Src(m)] = m /\ owner[Dst(m)] = m
  BY DEF OwnershipExact, Captured, Claimed
<1>3. move[m].phase \in {"copied", "validated"} => move[m].phase \in Claimed
  BY DEF Claimed, InFlight
<1> QED BY <1>1, <1>2, <1>3 DEF ValueSafe, Untouched, Live, ValidMove

(* Steps that prepare a request or end it: no carrier changes.             *)
LEMMA QuietStepSafe ==
    ASSUME TypeOK, OwnershipExact, NEW m \in Move, ValueSafe(m), move[m].phase # "free",
           NEW p, NEW o, Becomes(m, p, o), UNCHANGED carriers,
           p \notin {"called", "copied", "validated"},
           p \in Captured => move[m].phase \in Captured,
           p \in Claimed \union {"half"} => o = "none",
           o = "moved" <=> move[m].outcome = "moved",
           owner'[Src(m)] = m => owner[Src(m)] = m, owner'[Dst(m)] = m => owner[Dst(m)] = m
    PROVE  ValueSafe(m)'
<1>1. Whole(m)' => Whole(m)
  BY DEF Becomes, Whole, Src, Dst
<1>2. CASE ~Whole(m)
  BY <1>1, <1>2 DEF ValueSafe, Becomes
<1>3. CASE Whole(m)
  <2>1. Src(m)' = Src(m) /\ Dst(m)' = Dst(m)
    BY DEF Becomes, Src, Dst
  <2> QED BY <1>3, <2>1 DEF ValueSafe, Becomes, carriers, Live
<1> QED BY <1>2, <1>3

LEMMA QuietStepsSafe ==
    ASSUME TypeOK, OwnershipExact, NEW m \in Move, ValueSafe(m),
           \/ PrepareCopy(m) \/ Refuse(m) \/ SubmitCopy(m)
           \/ RelinquishSource(m) \/ RelinquishDestination(m) \/ EndMove(m)
    PROVE  ValueSafe(m)'
<1> USE DEF Claimed, Captured, InFlight
<1>1. CASE PrepareCopy(m)
  BY <1>1, MoveEnters, QuietStepSafe DEF PrepareCopy, ValueSafe
<1>2. CASE Refuse(m)
  BY <1>2, MoveEnters, QuietStepSafe DEF Refuse, ValueSafe
<1>3. CASE SubmitCopy(m)
  BY <1>3, MoveEnters, QuietStepSafe DEF SubmitCopy, ValueSafe, carriers
<1>4. CASE RelinquishSource(m)
  <2>1. \A c \in Carrier : owner'[c] = m => owner[c] = m
    BY <1>4, MoveAssumption DEF RelinquishSource, GiveBack, TypeOK
  <2>2. Src(m) \in Carrier /\ Dst(m) \in Carrier
    BY <1>4, Participants DEF RelinquishSource
  <2> QED BY <1>4, <2>1, <2>2, MoveEnters, QuietStepSafe DEF RelinquishSource
<1>5. CASE RelinquishDestination(m)
  <2>1. \A c \in Carrier : owner'[c] = m => owner[c] = m
    BY <1>5, MoveAssumption DEF RelinquishDestination, GiveBack, TypeOK
  <2>2. Src(m) \in Carrier /\ Dst(m) \in Carrier
    BY <1>5, Participants DEF RelinquishDestination
  <2> QED BY <1>5, <2>1, <2>2, MoveEnters, QuietStepSafe DEF RelinquishDestination
<1>6. CASE EndMove(m)
  BY <1>6, MoveEnters, QuietStepSafe DEF EndMove, carriers
<1> QED BY <1>1, <1>2, <1>3, <1>4, <1>5, <1>6

LEMMA ClaimsSafe ==
    ASSUME TypeOK, OwnershipExact, NEW m \in Move, ValueSafe(m),
           ClaimSource(m) \/ ClaimDestination(m) \/ Capture(m)
    PROVE  ValueSafe(m)'
<1> USE DEF Claimed, Captured, InFlight
<1>a. Src(m) \in Carrier /\ Dst(m) \in Carrier /\ Src(m) # Dst(m) /\ move[m].phase # "free"
  BY Participants DEF ClaimSource, ClaimDestination, Capture
<1>b. move[m].outcome = "none" /\ UNCHANGED carriers
  BY DEF ClaimSource, ClaimDestination, Capture, ValueSafe
<1>1. CASE ClaimSource(m)
  <2>1. CASE Claimable(Src(m)) /\ Becomes(m, "half", move[m].outcome)
    BY <1>a, <1>b, <2>1 DEF ValueSafe, Becomes, Claimable, carriers, Live, Src, Dst, Whole
  <2>2. CASE ~Claimable(Src(m)) /\ Becomes(m, "done", "refused")
    BY <1>1, <1>a, <1>b, <2>2, QuietStepSafe DEF ClaimSource
  <2> QED BY <1>1, <2>1, <2>2, MoveEnters
<1>2. CASE ClaimDestination(m)
  <2>1. CASE Claimable(Dst(m)) /\ Becomes(m, "claimed", move[m].outcome)
    <3>1. owner' = [owner EXCEPT ![Dst(m)] = m] /\ owner[Src(m)] = m
      BY <1>2, <2>1 DEF ClaimDestination, OwnershipExact
    <3> QED BY <1>a, <1>b, <2>1, <3>1 DEF ValueSafe, Becomes, carriers, Live, Src, Dst, Whole
  <2>2. CASE ~Claimable(Dst(m)) /\ Becomes(m, "giveSource", "refused")
    BY <1>2, <1>a, <1>b, <2>2, QuietStepSafe DEF ClaimDestination
  <2> QED BY <1>2, <2>1, <2>2, MoveEnters
<1>3. CASE Capture(m)
  <2>1. owner' = owner /\ owner[Src(m)] = m
    BY <1>3 DEF Capture, OwnershipExact
  <2>2. version[Src(m)] \in Nat
    BY <1>a DEF TypeOK
  <2> QED BY <1>3, <1>a, <1>b, <2>1, <2>2, CaptureAlters
          DEF ValueSafe, Alters, carriers, Live, Src, Dst, Whole
<1> QED BY <1>1, <1>2, <1>3

LEMMA CopiesSafe ==
    ASSUME TypeOK, OwnershipExact, NEW m \in Move, ValueSafe(m),
           Allocate(m) \/ CopyElements(m) \/ CopyFails(m) \/ Validate(m) \/ ReleaseSource(m)
    PROVE  ValueSafe(m)'
<1> USE DEF Claimed, Captured, InFlight
<1>a. Src(m) \in Carrier /\ Dst(m) \in Carrier /\ Src(m) # Dst(m) /\ move[m].phase # "free"
  BY Participants DEF Allocate, CopyElements, CopyFails, Validate, ReleaseSource
<1>b. move[m].outcome = "none" /\ UNCHANGED <<version, owner>>
  BY DEF Allocate, CopyElements, CopyFails, Validate, ReleaseSource, ValueSafe, carriers
<1>1. CASE Allocate(m)
  <2>1. contents'[Src(m)] = contents[Src(m)] /\ released' = released
    BY <1>1, <1>a DEF Allocate, TypeOK
  <2>2. Becomes(m, "allocated", "none") /\ move[m].phase = "prepared"
    BY <1>1, <1>b, MoveEnters DEF Allocate
  <2> QED BY <1>a, <1>b, <2>1, <2>2 DEF ValueSafe, Becomes, Live, Src, Dst, Whole
<1>2. CASE CopyElements(m)
  <2>1. /\ contents'[Src(m)] = contents[Src(m)] /\ released' = released
        /\ contents'[Dst(m)] = contents[Src(m)]
    BY <1>2, <1>a DEF CopyElements, TypeOK
  <2>2. Becomes(m, "copied", "none") /\ move[m].phase = "copying"
    BY <1>2, <1>b, MoveEnters DEF CopyElements
  <2> QED BY <1>a, <1>b, <2>1, <2>2 DEF ValueSafe, Becomes, Live, ValidMove, Src, Dst, Whole
<1>3. CASE CopyFails(m)
  <2>1. contents'[Src(m)] = contents[Src(m)] /\ released' = released
    BY <1>3, <1>a DEF CopyFails, TypeOK
  <2>2. Becomes(m, "giveSource", "failed") /\ move[m].phase = "copying"
    BY <1>3, <1>b, MoveEnters DEF CopyFails
  <2> QED BY <1>a, <1>b, <2>1, <2>2 DEF ValueSafe, Becomes, Live, Src, Dst, Whole
<1>4. CASE Validate(m)
  <2>1. UNCHANGED carriers /\ move[m].phase = "copied"
    BY <1>4 DEF Validate
  <2>2. CASE ValidMove(m) /\ Becomes(m, "validated", move[m].outcome)
    BY <1>a, <1>b, <2>1, <2>2 DEF ValueSafe, Becomes, carriers, Live, ValidMove, Src, Dst, Whole
  <2>3. CASE Becomes(m, "giveSource", "failed")
    BY <1>a, <1>b, <2>1, <2>3, QuietStepSafe
  <2> QED BY <1>4, <2>2, <2>3, MoveEnters
<1>5. CASE ReleaseSource(m)
  <2>1. move[m].phase = "validated"
    BY <1>5 DEF ReleaseSource
  <2>2. CASE /\ contents' = [contents EXCEPT ![Src(m)] = None]
             /\ released' = released \union {Src(m)}
             /\ Becomes(m, "giveSource", "moved")
    <3>1. contents'[Dst(m)] = contents[Dst(m)]
      BY <1>a, <2>2 DEF TypeOK
    <3> QED BY <1>a, <1>b, <2>1, <2>2, <3>1 DEF ValueSafe, Becomes, Live, Src, Dst, Whole
  <2>3. CASE UNCHANGED <<contents, released>> /\ Becomes(m, "giveSource", "failed")
    BY <1>a, <1>b, <2>1, <2>3, QuietStepSafe DEF carriers
  <2> QED BY <1>5, <2>2, <2>3, MoveEnters
<1> QED BY <1>1, <1>2, <1>3, <1>4, <1>5

(* A provider that writes the source moves its version past the captured   *)
(* one; one that releases a participant is seen by the validation.         *)
LEMMA MeddlingSafe ==
    ASSUME TypeOK, OwnershipExact, NEW m \in Move, ValueSafe(m), ProviderMeddles(m)
    PROVE  ValueSafe(m)'
<1>a. /\ Src(m) \in Carrier /\ Dst(m) \in Carrier /\ Src(m) # Dst(m)
      /\ move[m].phase \in {"copying", "copied"} /\ owner' = owner
  BY Participants DEF ProviderMeddles
<1>b. version[Src(m)] \in Nat /\ move[m].captured \in Nat
  BY <1>a DEF TypeOK, Moves
<1>c. /\ move'[m].phase = move[m].phase /\ move'[m].outcome = "none" /\ move'[m].broken
      /\ move'[m].src = Src(m) /\ move'[m].dst = Dst(m)
      /\ move'[m].captured = move[m].captured /\ move'[m].taken = move[m].taken
  BY <1>a, MeddlingAlters DEF Alters, ValueSafe, Claimed, InFlight
<1> USE DEF Claimed, Captured, InFlight
<1>1. CASE version' = [version EXCEPT ![Src(m)] = @ + 1]
  <2>1. version'[Src(m)] = version[Src(m)] + 1
    BY <1>1, <1>a DEF TypeOK
  <2> QED BY <1>a, <1>b, <1>c, <2>1 DEF ValueSafe, Live, ValidMove, Src, Dst, Whole
<1>2. CASE \E c \in {Src(m), Dst(m)} : /\ contents' = [contents EXCEPT ![c] = None]
                                       /\ released' = released \union {c}
                                       /\ UNCHANGED version
  <2>1. PICK c \in {Src(m), Dst(m)} : /\ contents' = [contents EXCEPT ![c] = None]
                                      /\ released' = released \union {c}
                                      /\ UNCHANGED version
    BY <1>2
  <2>2. c \in released' /\ \A d \in Carrier \ {c} : contents'[d] = contents[d]
    BY <1>a, <2>1 DEF TypeOK
  <2> QED BY <1>a, <1>b, <1>c, <2>1, <2>2 DEF ValueSafe, Live, ValidMove, Src, Dst, Whole
<1> QED BY <1>1, <1>2 DEF ProviderMeddles

LEMMA MoveStepValues ==
    ASSUME TypeOK, OwnershipExact, Values, NEW m \in Move, MoveStep(m) \/ ProviderMeddles(m)
    PROVE  Values'
<1>1. ValueSafe(m)'
  <2>1. ValueSafe(m)
    BY DEF Values
  <2> QED BY <2>1, QuietStepsSafe, ClaimsSafe, CopiesSafe, MeddlingSafe DEF MoveStep
<1>2. /\ \A n \in Move \ {m} : move'[n] = move[n]
      /\ move[m].phase # "free"
  BY MoveFrame, MeddlingAlters DEF Becomes, Alters, ProviderMeddles
<1>3. \A c \in Carrier, n \in Move \ {m} : owner'[c] = n => owner[c] = n
  BY MoveAssumption DEF MoveStep, ClaimSource, ClaimDestination, Capture, PrepareCopy, Allocate, Refuse,
     SubmitCopy, CopyElements, CopyFails, Validate, ReleaseSource, RelinquishSource, RelinquishDestination,
     EndMove, ProviderMeddles, GiveBack, TypeOK
<1>4. ASSUME NEW n \in Move \ {m} PROVE ValueSafe(n)'
  <2>1. CASE move[n].phase = "free"
    BY <1>2, <1>4, <2>1 DEF Values, ValueSafe, Whole, Claimed, InFlight, Src, Dst
  <2>2. CASE move[n].phase # "free"
    <3>1. Src(n) \in Carrier /\ Dst(n) \in Carrier
      BY <2>2, Participants
    <3>2. \A c \in {Src(n), Dst(n)} : owner'[c] = n => owner[c] = n
      BY <1>3, <3>1
    <3>3. \A c \in {Src(n), Dst(n)} : owner[c] = n => Untouched(c)
      BY <3>1, MoveTouches
    <3> QED BY <1>2, <3>2, <3>3, OtherMoveSafe DEF Values
  <2> QED BY <2>1, <2>2
<1>5. CallsTorn'
  <2>1. call' = call \/ Returns(m)
    BY DEF MoveStep, ClaimSource, ClaimDestination, Capture, PrepareCopy, Allocate, Refuse, SubmitCopy, CopyElements,
       CopyFails, Validate, ReleaseSource, RelinquishSource, RelinquishDestination, EndMove, ProviderMeddles
  <2> QED BY <2>1 DEF Values, CallsTorn, Returns, IdleCall
<1> QED BY <1>1, <1>4, <1>5 DEF Values

LEMMA UserCallsTorn ==
    ASSUME TypeOK, CallsTorn, NEW u \in User, UserActs(u)
    PROVE  CallsTorn'
<1>1. CASE UserStep(u)
  <2>1. \/ call' = call
        \/ \E m \in Move : call' = [call EXCEPT ![u] = [op |-> "move", move |-> m]]
        \/ \E c \in Torn, v \in Val :
              call' = [call EXCEPT ![u] = [op |-> "write", carrier |-> c, val |-> v]]
        \/ \E c \in Torn : call' = [call EXCEPT ![u] = [op |-> "release", carrier |-> c]]
    BY <1>1 DEF UserStep, Write, WriteChecks, Release, ReleaseChecks, CallMove
  <2> QED BY <2>1 DEF CallsTorn, TypeOK
<1>2. CASE CallStep(u)
  <2>1. CASE WriteLands(u) \/ ReleaseLands(u)
    <3>1. /\ call'[u].carrier = call[u].carrier
          /\ \A w \in User \ {u} : call'[w] = call[w]
          /\ call[u].op \in {"write", "release"}
      BY <2>1 DEF WriteLands, ReleaseLands, TypeOK, ThreadCalls
    <3> QED BY <3>1 DEF CallsTorn
  <2>2. CASE WriteEnds(u) \/ ReleaseMarks(u)
    BY <2>2 DEF WriteEnds, ReleaseMarks, CallsTorn, TypeOK, IdleCall
  <2> QED BY <1>2, <2>1, <2>2 DEF CallStep
<1> QED BY <1>1, <1>2 DEF UserActs

LEMMA UserValues ==
    ASSUME TypeOK, OwnershipExact, Values, NEW u \in User, UserActs(u)
    PROVE  Values'
<1>1. CallsTorn'
  BY UserCallsTorn DEF Values
<1>2. owner' = owner
  BY DEF UserActs, UserStep, CallStep, Write, WriteChecks, Release, ReleaseChecks, CallMove,
     WriteLands, WriteEnds, ReleaseLands, ReleaseMarks
<1>3. ASSUME NEW n \in Move, move'[n] = move[n] PROVE ValueSafe(n)'
  <2>1. CASE move[n].phase = "free"
    BY <1>3, <2>1 DEF Values, ValueSafe, Whole, Claimed, InFlight, Src, Dst
  <2>2. CASE move[n].phase # "free"
    <3>1. Src(n) \in Carrier /\ Dst(n) \in Carrier
      BY <2>2, Participants
    <3>2. Whole(n) => \A c \in {Src(n), Dst(n)} : owner[c] = n => Untouched(c)
      BY <3>1, UserTouches, MoveAssumption DEF Whole, Values
    <3> QED BY <1>2, <1>3, <3>2, OtherMoveSafe DEF Values
  <2> QED BY <2>1, <2>2
<1>4. ASSUME NEW m \in Move, NEW s \in Carrier, NEW d \in Carrier, CallMove(u, m, s, d)
      PROVE  ValueSafe(m)'
  <2>1. /\ move[m].phase = "free" /\ move'[m].phase = "called" /\ move'[m].outcome = "none"
        /\ move'[m].src = s /\ move'[m].dst = d
    BY <1>4, CallMoveAlters
  <2>2. owner[s] # m /\ owner[d] # m
    BY <1>4, MoveAssumption DEF CallMove, Mutable
  <2> QED BY <1>2, <2>1, <2>2 DEF ValueSafe, Claimed, Captured, InFlight, Src, Dst
<1>5. \A n \in Move : \/ move'[n] = move[n]
                      \/ \E s, d \in Carrier : CallMove(u, n, s, d)
  <2>1. ASSUME NEW m \in Move, NEW s \in Carrier, NEW d \in Carrier, CallMove(u, m, s, d)
        PROVE  \A n \in Move \ {m} : move'[n] = move[n]
    BY <2>1, CallMoveAlters
  <2>2. move' = move \/ \E m \in Move, s, d \in Carrier : CallMove(u, m, s, d)
    BY DEF UserActs, UserStep, CallStep, Write, WriteChecks, Release, ReleaseChecks,
       WriteLands, WriteEnds, ReleaseLands, ReleaseMarks
  <2> QED BY <2>1, <2>2
<1> QED BY <1>1, <1>3, <1>4, <1>5 DEF Values

(* The inductive invariant.                                                *)
Vault == TypeOK /\ OwnershipExact /\ Values

LEMMA VaultInvariant == Spec => []Vault
<1>1. Init => Values
  BY DEF Init, Values, CallsTorn, IdleCall, ValueSafe, NoMove, Whole, Claimed, InFlight
<1>2. ASSUME Vault, [Next]_vars PROVE Values'
  <2>1. CASE UNCHANGED vars
    BY <1>2, <2>1 DEF Vault, Values, ValueSafe, CallsTorn, vars, Whole, Src, Dst, Live, ValidMove
  <2> QED BY <1>2, <2>1, MoveStepValues, UserValues DEF Vault, Next, UserActs
<1>3. Vault /\ [Next]_vars => Vault'
  BY <1>2, NextTyped, MoveStepOwns, OtherStepsOwn DEF Vault, Next, UserActs
<1>4. Init => Vault
  BY <1>1, InitTyped DEF Vault, Init, OwnershipExact, NoMove, Claimed, InFlight
<1> QED BY <1>3, <1>4, PTL DEF Spec

(* While a move owns its source, the source is live and holds the value    *)
(* captured at initiation; only a move that succeeds releases it.          *)
THEOREM SourceStaysKept == Spec => []SourceKept
<1>1. Vault => SourceKept
  BY DEF Vault, Values, ValueSafe, SourceKept
<1> QED BY <1>1, VaultInvariant, PTL

(* A move that succeeded hands its destination back live and holding the   *)
(* value the source had when it was captured, even if the provider wrote   *)
(* or released a participant while it copied.                              *)
THEOREM DestinationStaysServed == Spec => []DestinationServed
<1>1. Vault => DestinationServed
  BY DEF Vault, Values, ValueSafe, DestinationServed
<1> QED BY <1>1, VaultInvariant, PTL
-----------------------------------------------------------------------------
(* The refinement of TransferMemory, for carriers that native code writes. *)

(* A provider that broke its contract is seen by the validation: the       *)
(* source has moved past the captured version or a participant is gone.    *)
Betrayed(m) ==
    move[m].broken =>
       \/ /\ move[m].phase \in {"copying", "copied"}
          /\ \/ version[Src(m)] > move[m].captured
             \/ ~Live(Src(m)) \/ ~Live(Dst(m))
       \/ move[m].phase \in Returning \union {"done"}

Betrayals == \A m \in Move : Betrayed(m)

(* A version only grows and a released carrier stays released.             *)
LEMMA Monotone ==
    ASSUME TypeOK, [Next]_vars, NEW c \in Carrier
    PROVE  version'[c] >= version[c] /\ (c \in released => c \in released')
<1>a. version[c] \in Nat
  BY DEF TypeOK
<1>0. CASE UNCHANGED <<version, released>>
  BY <1>a, <1>0
<1>1. ASSUME NEW m \in Move, MoveStep(m) PROVE UNCHANGED version /\ released \subseteq released'
  BY <1>1 DEF MoveStep, ClaimSource, ClaimDestination, Capture, PrepareCopy, Allocate, Refuse, SubmitCopy,
     CopyElements, CopyFails, Validate, ReleaseSource, RelinquishSource, RelinquishDestination, EndMove,
     carriers
<1>2. ASSUME NEW m \in Move, ProviderMeddles(m)
      PROVE  version'[c] >= version[c] /\ released \subseteq released'
  <2>1. CASE UNCHANGED released /\ version' = [version EXCEPT ![Src(m)] = @ + 1]
    BY <1>a, <2>1 DEF TypeOK
  <2>2. CASE UNCHANGED version /\ \E d \in {Src(m), Dst(m)} : released' = released \union {d}
    BY <1>a, <2>2
  <2> QED BY <1>2, <2>1, <2>2 DEF ProviderMeddles
<1>3. ASSUME NEW u \in User, UserActs(u)
      PROVE  version'[c] >= version[c] /\ released \subseteq released'
  <2>1. \/ UNCHANGED version
        \/ \E d \in Carrier : version' = [version EXCEPT ![d] = @ + 1]
    <3>1. ASSUME WriteEnds(u)
          PROVE  UNCHANGED version \/ \E d \in Carrier : version' = [version EXCEPT ![d] = @ + 1]
      <4>1. call[u].carrier \in Carrier
        BY <3>1 DEF WriteEnds, TypeOK, ThreadCalls
      <4> QED BY <3>1, <4>1 DEF WriteEnds
    <3> QED BY <1>3, <3>1 DEF UserActs, UserStep, CallStep, Write, WriteChecks, Release, ReleaseChecks,
            CallMove, WriteLands, ReleaseLands, ReleaseMarks, carriers
  <2>2. released \subseteq released'
    BY <1>3 DEF UserActs, UserStep, CallStep, Write, WriteChecks, Release, ReleaseChecks,
            CallMove, WriteLands, WriteEnds, ReleaseLands, ReleaseMarks, carriers
  <2>3. version'[c] >= version[c]
    BY <1>a, <2>1 DEF TypeOK
  <2> QED BY <2>2, <2>3
<1> QED BY <1>a, <1>0, <1>1, <1>2, <1>3 DEF Next, vars, UserActs

LEMMA BetrayalsInvariant == ASSUME Torn = {} PROVE Spec => [](Vault /\ Betrayals)
<1>1. Init => Betrayals
  BY DEF Init, Betrayals, Betrayed, NoMove
<1>2. ASSUME Vault, Betrayals, [Next]_vars PROVE Betrayals'
  <2> USE DEF Returning
  <2>t. TypeOK /\ \A m \in Move : move[m] \in Moves
    BY <1>2 DEF Vault, TypeOK
  <2>1. ASSUME NEW m \in Move, move'[m] = move[m] PROVE Betrayed(m)'
    <3>1. Src(m)' = Src(m) /\ Dst(m)' = Dst(m) /\ Betrayed(m)
      BY <1>2, <2>1 DEF Betrayals, Src, Dst
    <3>2. CASE ~move[m].broken \/ move[m].phase \in Returning \union {"done"}
      BY <2>1, <3>2 DEF Betrayed
    <3>3. CASE move[m].phase \in {"copying", "copied"}
      <4>1. Src(m) \in Carrier /\ Dst(m) \in Carrier
        BY <2>t, <3>3, Participants
      <4>2. version'[Src(m)] >= version[Src(m)] /\ (~Live(Src(m)) => ~Live(Src(m))')
            /\ (~Live(Dst(m)) => ~Live(Dst(m))')
        BY <1>2, <2>t, <3>1, <4>1, Monotone DEF Live
      <4>3. TypeOK' /\ version[Src(m)] \in Nat /\ move[m].captured \in Nat
        BY <1>2, <2>t, <4>1, NextTyped DEF TypeOK, Moves
      <4>4. version'[Src(m)] \in Nat
        BY <4>1, <4>3 DEF TypeOK
      <4> QED BY <2>1, <3>1, <4>2, <4>3, <4>4 DEF Betrayed
    <3> QED BY <3>1, <3>2, <3>3 DEF Betrayed
  <2>2. ASSUME NEW m \in Move, MoveStep(m) PROVE Betrayed(m)'
    <3>1. Betrayed(m) /\ Src(m) \in Carrier
      BY <1>2, <2>2, <2>t, MoveFrame, Participants DEF Betrayals
    <3>2. ASSUME NEW p, NEW o, Becomes(m, p, o), p \in Returning \union {"done"} PROVE Betrayed(m)'
      BY <3>2 DEF Becomes, Betrayed
    <3>3. ASSUME ~move[m].broken, move'[m].broken = move[m].broken PROVE Betrayed(m)'
      BY <3>3 DEF Betrayed
    <3>4. CASE ClaimSource(m) \/ ClaimDestination(m)
      <4>1. ~move[m].broken
        BY <3>1, <3>4 DEF Betrayed, ClaimSource, ClaimDestination
      <4>2. move'[m].broken = move[m].broken
        BY <2>t, <3>4, MoveEnters DEF Becomes
      <4> QED BY <3>3, <4>1, <4>2
    <3>5. CASE Capture(m)
      BY <2>t, <3>1, <3>3, <3>5, CaptureAlters, Participants DEF Betrayed, Capture
    <3>6. CASE PrepareCopy(m) \/ Allocate(m) \/ Refuse(m) \/ SubmitCopy(m)
      <4>1. ~move[m].broken
        BY <3>1, <3>6 DEF Betrayed, PrepareCopy, Allocate, Refuse, SubmitCopy
      <4>2. move'[m].broken = move[m].broken
        BY <2>t, <3>6, MoveEnters DEF Becomes
      <4> QED BY <3>3, <4>1, <4>2
    <3>7. CASE CopyElements(m)
      <4>1. /\ Becomes(m, "copied", move[m].outcome) /\ move[m].phase = "copying"
            /\ UNCHANGED <<version, released>>
        BY <2>t, <3>7, MoveEnters DEF CopyElements
      <4> QED BY <3>1, <4>1 DEF Becomes, Betrayed, Live, Src, Dst
    <3>8. CASE CopyFails(m)
      BY <2>t, <3>2, <3>8, MoveEnters
    <3>9. CASE Validate(m)
      <4>1. CASE Becomes(m, "giveSource", "failed")
        BY <3>2, <4>1
      <4>2. CASE ValidMove(m) /\ Becomes(m, "validated", move[m].outcome)
        <5>1. move[m].phase = "copied" /\ version[Src(m)] \in Nat
          BY <2>t, <3>1, <3>9 DEF Validate, TypeOK
        <5>2. ~move[m].broken
          BY <3>1, <4>2, <5>1 DEF Betrayed, ValidMove
        <5> QED BY <3>3, <4>2, <5>2 DEF Becomes
      <4> QED BY <2>t, <3>9, <4>1, <4>2, MoveEnters
    <3>10. CASE ReleaseSource(m)
      BY <2>t, <3>2, <3>10, MoveEnters
    <3>11. CASE RelinquishSource(m) \/ RelinquishDestination(m) \/ EndMove(m)
      BY <2>t, <3>2, <3>11, MoveEnters
    <3> QED BY <2>2, <3>4, <3>5, <3>6, <3>7, <3>8, <3>9, <3>10, <3>11 DEF MoveStep
  <2>3. ASSUME NEW m \in Move, ProviderMeddles(m) PROVE Betrayed(m)'
    <3>1. /\ move'[m].src = Src(m) /\ move'[m].dst = Dst(m) /\ move'[m].phase = move[m].phase
          /\ move'[m].captured = move[m].captured /\ move[m].phase \in {"copying", "copied"}
      BY <2>t, <2>3, MeddlingAlters DEF Alters, ProviderMeddles
    <3>3. Src(m) \in Carrier /\ Dst(m) \in Carrier
      BY <2>t, <3>1, Participants
    <3>4. version[Src(m)] \in Nat /\ move[m].captured \in Nat
      BY <2>t, <3>3 DEF TypeOK, Moves
    <3>5. CASE version' = [version EXCEPT ![Src(m)] = @ + 1]
      <4>1. version'[Src(m)] = version[Src(m)] + 1
        BY <2>t, <3>3, <3>5 DEF TypeOK
      <4>2. version[Src(m)] >= move[m].captured
        BY <1>2, <3>1 DEF Vault, Values, ValueSafe, Whole, Captured, InFlight
      <4> QED BY <3>1, <3>4, <4>1, <4>2 DEF Betrayed, Src, Dst
    <3>6. CASE \E c \in {Src(m), Dst(m)} : released' = released \union {c}
      BY <3>1, <3>6 DEF Betrayed, Src, Dst, Live
    <3> QED BY <2>3, <3>5, <3>6 DEF ProviderMeddles
  <2>4. ASSUME NEW u \in User, NEW m \in Move, NEW s \in Carrier, NEW d \in Carrier,
               CallMove(u, m, s, d)
        PROVE  Betrayals'
    BY <2>t, <2>1, <2>4, CallMoveAlters DEF Betrayals, Betrayed
  <2>5. CASE UNCHANGED move
    BY <2>1, <2>5 DEF Betrayals
  <2>6. ASSUME NEW m \in Move, MoveStep(m) \/ ProviderMeddles(m) PROVE Betrayals'
    <3>1. \A n \in Move \ {m} : move'[n] = move[n]
      BY <2>t, <2>6, MoveFrame, MeddlingAlters DEF Becomes, Alters
    <3> QED BY <2>1, <2>2, <2>3, <2>6, <3>1 DEF Betrayals
  <2> QED BY <1>2, <2>4, <2>5, <2>6
       DEF Next, vars, UserStep, CallStep, Write, WriteChecks, Release, ReleaseChecks,
           WriteLands, WriteEnds, ReleaseLands, ReleaseMarks
<1> QED BY <1>1, <1>2, VaultInvariant, PTL DEF Spec

(* A hidden cell is owned by the move that hides it.                       *)
LEMMA HiddenOwned ==
    ASSUME TypeOK, OwnershipExact, NEW m \in Move, NEW c \in Hidden(m)
    PROVE  owner[c] = m /\ c \in {Src(m), Dst(m)} /\ move[m].phase \in Claimed
  BY DEF Hidden, OwnershipExact

LEMMA BusyOwned ==
    ASSUME TypeOK, OwnershipExact, NEW c \in Carrier, Transfers!Busy(c)
    PROVE  \E m \in Move : move[m].phase \in Claimed /\ owner[c] = m
  BY DEF Transfers!Busy, OpenMoves, OwnershipExact

LEMMA PairsNotNone == ASSUME NEW a \in Carrier, NEW b \in Carrier PROVE <<a, b>> # None
  BY MoveAssumption

(* What the cells of a participant and of a bystander become in a step of  *)
(* one move.                                                               *)
LEMMA OwnCells ==
    ASSUME TypeOK, OwnershipExact, NEW m \in Move, NEW c \in Carrier,
           \A n \in Move \ {m} : move'[n] = move[n],
           owner[c] \in {m, None}
    PROVE  /\ Visible[c] = IF c \in Hidden(m) THEN Unknown ELSE contents[c]
           /\ Visible'[c] = IF c \in Hidden(m)' THEN Unknown ELSE contents'[c]
<1>1. \A n \in Move \ {m} : c \notin Hidden(n)
  BY HiddenOwned, MoveAssumption
<1>2. \A n \in Move \ {m} : Hidden(n)' = Hidden(n)
  BY DEF Hidden, Src, Dst
<1>3. (\E n \in Move : c \in Hidden(n)) <=> c \in Hidden(m)
  BY <1>1
<1>4. (\E n \in Move : c \in Hidden(n))' <=> c \in Hidden(m)'
  BY <1>1, <1>2
<1> QED BY <1>3, <1>4 DEF Visible

LEMMA OtherCells ==
    ASSUME NEW m \in Move, NEW c \in Carrier,
           \A n \in Move \ {m} : move'[n] = move[n],
           (c \in Hidden(m)') <=> (c \in Hidden(m)), contents'[c] = contents[c]
    PROVE  Visible'[c] = Visible[c]
<1>1. \A n \in Move \ {m} : Hidden(n)' = Hidden(n)
  BY DEF Hidden, Src, Dst
<1>2. (\E n \in Move : c \in Hidden(n))' <=> (\E n \in Move : c \in Hidden(n))
  BY <1>1
<1> QED BY <1>2 DEF Visible

LEMMA CellsShape ==
    /\ Visible = [c \in Carrier |-> Visible[c]] /\ Visible' = [c \in Carrier |-> Visible'[c]]
    /\ OpenMoves = [m \in Move |-> OpenMoves[m]] /\ OpenMoves' = [m \in Move |-> OpenMoves'[m]]
  BY DEF Visible, OpenMoves

(* The open moves after a step of move m.                                  *)
LEMMA OpenAfter ==
    ASSUME NEW m \in Move, \A n \in Move \ {m} : move'[n] = move[n],
           move'[m].src = Src(m), move'[m].dst = Dst(m)
    PROVE  OpenMoves' = [OpenMoves EXCEPT ![m] = IF move'[m].phase \in Claimed
                                                 THEN <<Src(m), Dst(m)>> ELSE None]
<1>1. OpenMoves'[m] = IF move'[m].phase \in Claimed THEN <<Src(m), Dst(m)>> ELSE None
  BY DEF OpenMoves, Src, Dst
<1>2. \A n \in Move \ {m} : OpenMoves'[n] = OpenMoves[n]
  BY DEF OpenMoves, Src, Dst
<1> QED BY <1>1, <1>2 DEF OpenMoves

(* Steps of a move that neither open nor close it and show no cell.        *)
LEMMA SilentStep ==
    ASSUME TypeOK, NEW m \in Move, \A n \in Move \ {m} : move'[n] = move[n],
           move'[m].src = Src(m), move'[m].dst = Dst(m), move'[m].broken = move[m].broken,
           move'[m].phase \in Claimed <=> move[m].phase \in Claimed,
           \A c \in Carrier : c \in Hidden(m) \/ contents'[c] = contents[c],
           OwnershipExact
    PROVE  UNCHANGED <<Visible, OpenMoves>>
<1>1. Hidden(m)' = Hidden(m)
  BY DEF Hidden, Src, Dst
<1>2. ASSUME NEW c \in Carrier PROVE Visible'[c] = Visible[c]
  <2>1. CASE c \in Hidden(m)
    BY <2>1, <1>1, OwnCells, HiddenOwned
  <2>2. CASE contents'[c] = contents[c]
    BY <2>2, <1>1, OtherCells
  <2> QED BY <2>1, <2>2
<1>3. \A n \in Move : OpenMoves'[n] = OpenMoves[n]
  BY DEF OpenMoves, Src, Dst
<1> QED BY <1>2, <1>3, CellsShape

(* A move that ends without its value moving.                              *)
LEMMA FailingMove ==
    ASSUME TypeOK, OwnershipExact, NEW m \in Move, move[m].phase \in Claimed,
           NEW o, Becomes(m, "giveSource", o), TypeOK',
           \A c \in Carrier \ {Dst(m)} : contents'[c] = contents[c]
    PROVE  Transfers!Fail(m)
<1>1. /\ \A n \in Move \ {m} : move'[n] = move[n]
      /\ move'[m].src = Src(m) /\ move'[m].dst = Dst(m) /\ move'[m].phase \notin Claimed
  BY DEF Becomes, Claimed, InFlight
<1>2. Src(m) \in Carrier /\ Dst(m) \in Carrier /\ Src(m) # Dst(m) /\ move[m].phase # "free"
  BY Participants DEF Claimed, InFlight
<1>3. owner[Src(m)] = m /\ owner[Dst(m)] = m
  BY DEF OwnershipExact
<1>4. OpenMoves[m] = <<Src(m), Dst(m)>> /\ OpenMoves' = [OpenMoves EXCEPT ![m] = None]
  BY <1>1, OpenAfter DEF OpenMoves
<1>5. Hidden(m)' = {}
  BY <1>1 DEF Hidden
<1>6. Visible'[Dst(m)] = contents'[Dst(m)] /\ Visible'[Src(m)] = contents'[Src(m)]
  BY <1>1, <1>2, <1>3, <1>5, OwnCells
<1>7. Visible[Src(m)] = IF move[m].broken THEN Unknown ELSE contents[Src(m)]
  BY <1>1, <1>2, <1>3, OwnCells DEF Hidden
<1>8. ASSUME NEW c \in Carrier \ {Src(m), Dst(m)} PROVE Visible'[c] = Visible[c]
  BY <1>1, <1>5, OtherCells DEF Hidden
<1>9. contents'[Dst(m)] \in Val \union {None} /\ contents'[Src(m)] \in Val \union {None}
      /\ contents'[Src(m)] = contents[Src(m)]
  BY <1>2 DEF TypeOK
<1> DEFINE d == contents'[Dst(m)]
           s == contents'[Src(m)]
<1>10. Visible' = [Visible EXCEPT ![Dst(m)] = d, ![Src(m)] = IF @ = Unknown THEN s ELSE @]
  <2>1. Visible[Src(m)] # Unknown => Visible[Src(m)] = s
    BY <1>7, <1>9
  <2> HIDE DEF d, s
  <2>2. Visible'[Dst(m)] = d /\ Visible'[Src(m)] = s
    BY <1>6 DEF d, s
  <2>3. Visible \in [Carrier -> {Visible[c] : c \in Carrier}]
    BY CellsShape
  <2> QED BY <1>2, <1>8, <2>1, <2>2, <2>3, CellsShape
<1>11. <<Src(m), Dst(m)>> # None
  BY <1>2, PairsNotNone
<1>12. Transfers!Close(m)
  BY <1>4, <1>11 DEF Transfers!Close
<1>13. OpenMoves[m][1] = Src(m) /\ OpenMoves[m][2] = Dst(m)
  BY <1>4
<1> HIDE DEF d, s
<1>14. d \in Val \union {None} /\ s \in Val \union {None}
  BY <1>9 DEF d, s
<1> QED BY <1>10, <1>12, <1>13, <1>14 DEF Transfers!Fail

(* The claim of the destination opens the transfer.                        *)
LEMMA OpeningMove ==
    ASSUME TypeOK, OwnershipExact, NEW m \in Move, move[m].phase = "half", ~move[m].broken,
           NEW o, Becomes(m, "claimed", o), UNCHANGED carriers, owner[Dst(m)] = None
    PROVE  Transfers!Open(m, <<Src(m), Dst(m)>>) /\ <<Src(m), Dst(m)>> \in Transfers!Pairs
<1>1. /\ \A n \in Move \ {m} : move'[n] = move[n]
      /\ move'[m].src = Src(m) /\ move'[m].dst = Dst(m)
      /\ move'[m].phase \in Claimed /\ ~move'[m].broken
  BY DEF Becomes, Claimed
<1>2. Src(m) \in Carrier /\ Dst(m) \in Carrier /\ Src(m) # Dst(m)
  BY Participants
<1>3. owner[Src(m)] = m /\ move[m].phase \notin Claimed
  BY DEF OwnershipExact, Claimed, InFlight
<1>4. OpenMoves[m] = None /\ OpenMoves' = [OpenMoves EXCEPT ![m] = <<Src(m), Dst(m)>>]
  BY <1>1, <1>3, OpenAfter DEF OpenMoves
<1>5. ~Transfers!Busy(Src(m)) /\ ~Transfers!Busy(Dst(m))
  BY <1>2, <1>3, BusyOwned, MoveAssumption
<1>6. Hidden(m) = {} /\ Hidden(m)' = {Dst(m)}
  BY <1>1, <1>3 DEF Hidden, Src, Dst
<1>7. Visible'[Dst(m)] = Unknown
  BY <1>1, <1>2, <1>6, OwnCells
<1>8. ASSUME NEW c \in Carrier \ {Dst(m)} PROVE Visible'[c] = Visible[c]
  BY <1>1, <1>6, OtherCells DEF carriers
<1>9. Visible' = [Visible EXCEPT ![Dst(m)] = Unknown]
  BY <1>2, <1>7, <1>8, CellsShape
<1> DEFINE p == <<Src(m), Dst(m)>>
<1>10. p[1] = Src(m) /\ p[2] = Dst(m) /\ p \in Transfers!Pairs
  BY <1>2 DEF Transfers!Pairs
<1>11. OpenMoves' = [OpenMoves EXCEPT ![m] = p]
  BY <1>4
<1> HIDE DEF p
<1>12. Transfers!Open(m, p) /\ p \in Transfers!Pairs
  BY <1>4, <1>5, <1>9, <1>10, <1>11 DEF Transfers!Open
<1> QED BY <1>12 DEF p

(* The release of the source hands the value over.                         *)
LEMMA HandingOver ==
    ASSUME TypeOK, OwnershipExact, NEW m \in Move, ValueSafe(m), Whole(m), ~move[m].broken,
           move[m].phase = "validated", Becomes(m, "giveSource", "moved"),
           contents' = [contents EXCEPT ![Src(m)] = None]
    PROVE  Transfers!Transfer(m)
<1>1. /\ \A n \in Move \ {m} : move'[n] = move[n]
      /\ move'[m].src = Src(m) /\ move'[m].dst = Dst(m) /\ move'[m].phase \notin Claimed
      /\ move[m].phase \in Claimed
  BY DEF Becomes, Claimed, InFlight
<1>2. Src(m) \in Carrier /\ Dst(m) \in Carrier /\ Src(m) # Dst(m)
  BY Participants
<1>3. owner[Src(m)] = m /\ owner[Dst(m)] = m
  BY <1>1 DEF OwnershipExact
<1>4. OpenMoves[m] = <<Src(m), Dst(m)>> /\ OpenMoves' = [OpenMoves EXCEPT ![m] = None]
  BY <1>1, OpenAfter DEF OpenMoves
<1>5. Hidden(m)' = {} /\ Hidden(m) = {Dst(m)}
  BY <1>1 DEF Hidden, Src, Dst
<1>6. contents[Src(m)] = move[m].taken /\ contents[Dst(m)] = move[m].taken
  <2>1. move[m].outcome = "none" /\ move[m].phase \in Captured
    BY DEF ValueSafe, Claimed, Captured, InFlight
  <2> QED BY <1>3, <2>1 DEF ValueSafe
<1>7. Visible[Src(m)] = contents[Src(m)] /\ Visible'[Src(m)] = None /\ Visible'[Dst(m)] = contents[Src(m)]
  <2>1. contents'[Src(m)] = None /\ contents'[Dst(m)] = contents[Dst(m)]
    BY <1>2 DEF TypeOK
  <2>2. /\ Visible[Src(m)] = contents[Src(m)] /\ Visible'[Src(m)] = contents'[Src(m)]
        /\ Visible'[Dst(m)] = contents'[Dst(m)]
    BY <1>1, <1>2, <1>3, <1>5, OwnCells
  <2> QED BY <1>6, <2>1, <2>2
<1>8. ASSUME NEW c \in Carrier \ {Src(m), Dst(m)} PROVE Visible'[c] = Visible[c]
  <2>1. contents'[c] = contents[c]
    BY <1>2 DEF TypeOK
  <2> QED BY <1>1, <1>5, <2>1, OtherCells
<1>9. Visible' = [Visible EXCEPT ![Dst(m)] = Visible[Src(m)], ![Src(m)] = None]
  BY <1>2, <1>7, <1>8, CellsShape
<1>10. Visible[Src(m)] # Unknown
  BY <1>2, <1>7, MoveAssumption DEF TypeOK
<1>11. OpenMoves[m] # None /\ OpenMoves[m][1] = Src(m) /\ OpenMoves[m][2] = Dst(m)
  BY <1>2, <1>4, PairsNotNone
<1> QED BY <1>4, <1>9, <1>10, <1>11 DEF Transfers!Transfer, Transfers!Close

Served == Transfers!Next \/ UNCHANGED <<Visible, OpenMoves>>

LEMMA MoveStepServes ==
    ASSUME Torn = {}, Vault, Betrayals, TypeOK', NEW m \in Move, MoveStep(m)
    PROVE  Served
<1> USE DEF Claimed, InFlight
<1>a. TypeOK /\ OwnershipExact /\ ValueSafe(m) /\ Betrayed(m)
  BY DEF Vault, Values, Betrayals
<1>b. /\ \A n \in Move \ {m} : move'[n] = move[n]
      /\ move'[m].src = Src(m) /\ move'[m].dst = Dst(m) /\ move[m].phase # "free"
  BY <1>a, MoveFrame DEF Becomes, Alters
<1>c. Src(m) \in Carrier /\ Dst(m) \in Carrier /\ Src(m) # Dst(m) /\ Whole(m)
  BY <1>a, <1>b, Participants DEF Whole
<1>d. ASSUME Transfers!Fail(m) PROVE Served
  BY <1>d DEF Served, Transfers!Next
<1>1. CASE ClaimSource(m) \/ RelinquishSource(m) \/ RelinquishDestination(m) \/ EndMove(m)
  <2>1. /\ move'[m].broken = move[m].broken /\ UNCHANGED carriers
        /\ move[m].phase \notin Claimed /\ move'[m].phase \notin Claimed
    BY <1>a, <1>1, MoveEnters DEF Becomes, ClaimSource, RelinquishSource, RelinquishDestination, EndMove
  <2> QED BY <1>a, <1>b, <2>1, SilentStep DEF Served, carriers
<1>2. CASE ClaimDestination(m)
  <2>1. move[m].phase = "half" /\ ~move[m].broken /\ UNCHANGED carriers
    BY <1>a, <1>2 DEF ClaimDestination, Betrayed, Returning
  <2>2. CASE Claimable(Dst(m)) /\ Becomes(m, "claimed", move[m].outcome)
    BY <1>a, <2>1, <2>2, OpeningMove DEF Served, Transfers!Next, Claimable
  <2>3. CASE Becomes(m, "giveSource", "refused")
    <3>1. move'[m].broken = move[m].broken /\ move'[m].phase \notin Claimed
      BY <2>3 DEF Becomes
    <3> QED BY <1>a, <1>b, <2>1, <3>1, SilentStep DEF Served, carriers
  <2> QED BY <1>a, <1>2, <2>2, <2>3, MoveEnters
<1>3. CASE Capture(m) \/ PrepareCopy(m)
  <2>1. /\ move'[m].broken = move[m].broken /\ UNCHANGED carriers
        /\ move[m].phase \in Claimed /\ move'[m].phase \in Claimed
    BY <1>a, <1>c, <1>3, MoveEnters, CaptureAlters DEF Becomes, Capture, PrepareCopy
  <2> QED BY <1>a, <1>b, <2>1, SilentStep DEF Served, carriers
<1>4. CASE Allocate(m) \/ CopyElements(m)
  <2>1. /\ move'[m].broken = move[m].broken
        /\ move[m].phase \in Claimed /\ move'[m].phase \in Claimed
    BY <1>a, <1>4, MoveEnters DEF Becomes, Allocate, CopyElements
  <2>2. Dst(m) \in Hidden(m)
    BY <2>1 DEF Hidden
  <2>3. \A c \in Carrier \ {Dst(m)} : contents'[c] = contents[c]
    BY <1>a, <1>4 DEF Allocate, CopyElements, TypeOK
  <2> QED BY <1>a, <1>b, <2>1, <2>2, <2>3, SilentStep DEF Served
<1>5. CASE Refuse(m) \/ CopyFails(m)
  <2>1. move[m].phase \in Claimed /\ \E o : Becomes(m, "giveSource", o)
    BY <1>a, <1>5, MoveEnters DEF Refuse, CopyFails
  <2>2. \A c \in Carrier \ {Dst(m)} : contents'[c] = contents[c]
    BY <1>a, <1>5 DEF Refuse, CopyFails, carriers, TypeOK
  <2> QED BY <1>a, <1>d, <2>1, <2>2, FailingMove
<1>6. CASE SubmitCopy(m) \/ Validate(m)
  <2>1. move[m].phase \in Claimed /\ UNCHANGED contents
    BY <1>6 DEF SubmitCopy, Validate, carriers
  <2>2. CASE \E o : Becomes(m, "giveSource", o)
    BY <1>a, <1>d, <2>1, <2>2, FailingMove
  <2>3. CASE \E p \in Claimed : \E o : Becomes(m, p, o)
    <3>1. move'[m].broken = move[m].broken /\ move'[m].phase \in Claimed
      BY <2>3 DEF Becomes
    <3> QED BY <1>a, <1>b, <2>1, <3>1, SilentStep DEF Served
  <2> QED BY <1>a, <1>6, <2>2, <2>3, MoveEnters
<1>7. CASE ReleaseSource(m)
  <2>1. move[m].phase = "validated" /\ ~move[m].broken
    BY <1>a, <1>7 DEF ReleaseSource, Betrayed, Returning
  <2>2. CASE /\ contents' = [contents EXCEPT ![Src(m)] = None]
             /\ Becomes(m, "giveSource", "moved")
    BY <1>a, <1>c, <2>1, <2>2, HandingOver DEF Served, Transfers!Next
  <2>3. CASE UNCHANGED contents /\ Becomes(m, "giveSource", "failed")
    BY <1>a, <1>d, <2>1, <2>3, FailingMove
  <2> QED BY <1>a, <1>7, <2>2, <2>3, MoveEnters
<1> QED BY <1>1, <1>2, <1>3, <1>4, <1>5, <1>6, <1>7 DEF MoveStep

LEMMA MeddlingServes ==
    ASSUME TypeOK, OwnershipExact, NEW m \in Move, ProviderMeddles(m)
    PROVE  Served
<1>a. /\ \A n \in Move \ {m} : move'[n] = move[n]
      /\ move'[m].src = Src(m) /\ move'[m].dst = Dst(m) /\ move'[m].phase = move[m].phase
      /\ move'[m].broken /\ move[m].phase \in Claimed /\ move[m].phase # "free"
  BY MeddlingAlters DEF Alters, ProviderMeddles, Claimed, InFlight
<1>b. Src(m) \in Carrier /\ Dst(m) \in Carrier /\ Src(m) # Dst(m)
  BY <1>a, Participants
<1>1. owner[Src(m)] = m /\ owner[Dst(m)] = m
  BY <1>a DEF OwnershipExact
<1>2. Hidden(m)' = {Src(m), Dst(m)} /\ Dst(m) \in Hidden(m) /\ Hidden(m) \subseteq {Src(m), Dst(m)}
  BY <1>a DEF Hidden, Src, Dst
<1>3. Visible'[Src(m)] = Unknown /\ Visible'[Dst(m)] = Unknown /\ Visible[Dst(m)] = Unknown
  BY <1>a, <1>b, <1>1, <1>2, OwnCells
<1>4. ASSUME NEW c \in Carrier \ {Src(m), Dst(m)} PROVE Visible'[c] = Visible[c]
  <2>1. contents'[c] = contents[c]
    BY DEF ProviderMeddles, TypeOK
  <2> QED BY <1>a, <1>2, <2>1, OtherCells
<1>5. Visible' = [Visible EXCEPT ![Src(m)] = Unknown]
  BY <1>b, <1>3, <1>4, CellsShape
<1>6. OpenMoves' = OpenMoves
  <2>1. \A n \in Move : OpenMoves'[n] = OpenMoves[n]
    BY <1>a DEF OpenMoves, Src, Dst
  <2> QED BY <2>1, CellsShape
<1>7. OpenMoves[m] = <<Src(m), Dst(m)>>
  BY <1>a DEF OpenMoves
<1>8. OpenMoves[m] # None /\ OpenMoves[m][1] = Src(m)
  BY <1>b, <1>7, PairsNotNone
<1> QED BY <1>5, <1>6, <1>8 DEF Served, Transfers!Next, Transfers!Meddle

LEMMA UserServes ==
    ASSUME Torn = {}, Vault, NEW u \in User, UserActs(u)
    PROVE  Served
<1>a. TypeOK /\ OwnershipExact /\ CallsTorn
  BY DEF Vault, Values
<1>1. ASSUME NEW c \in Carrier, Mutable(c)
      PROVE  ~Transfers!Busy(c) /\ Visible[c] = contents[c] /\ \A m \in Move : c \notin Hidden(m)
  <2>1. ~Transfers!Busy(c) /\ \A m \in Move : c \notin Hidden(m)
    BY <1>a, <1>1, BusyOwned, HiddenOwned, MoveAssumption DEF Mutable
  <2> QED BY <2>1 DEF Visible
<1>2. ASSUME NEW c \in Carrier, Mutable(c), move' = move, NEW v, contents' = [contents EXCEPT ![c] = v]
      PROVE  Visible' = [Visible EXCEPT ![c] = v] /\ OpenMoves' = OpenMoves
  <2>1. \A m \in Move : Hidden(m)' = Hidden(m)
    BY <1>2 DEF Hidden, Src, Dst
  <2>2. \A d \in Carrier : (\E m \in Move : d \in Hidden(m))' <=> (\E m \in Move : d \in Hidden(m))
    BY <2>1
  <2>3. Visible'[c] = v /\ \A d \in Carrier \ {c} : Visible'[d] = Visible[d]
    BY <1>a, <1>1, <1>2, <2>2 DEF Visible, TypeOK
  <2> QED BY <1>2, <2>3, CellsShape DEF OpenMoves, Src, Dst
<1>3. ASSUME NEW c \in Carrier, NEW v \in Val, Write(u, c, v) PROVE Served
  <2>1. Mutable(c) /\ contents[c] # None /\ move' = move /\ contents' = [contents EXCEPT ![c] = v]
    BY <1>3 DEF Write
  <2> QED BY <1>1, <1>2, <2>1 DEF Served, Transfers!Next, Transfers!Write
<1>4. ASSUME NEW c \in Carrier, Release(u, c) PROVE Served
  <2>1. Mutable(c) /\ move' = move /\ contents' = [contents EXCEPT ![c] = None]
    BY <1>4 DEF Release, Mutable
  <2> QED BY <1>1, <1>2, <2>1 DEF Served, Transfers!Next, Transfers!Drop
<1>5. ASSUME NEW m \in Move, NEW s \in Carrier, NEW d \in Carrier, CallMove(u, m, s, d) PROVE Served
  <2>1. /\ \A n \in Move \ {m} : move'[n] = move[n]
        /\ move[m].phase \notin Claimed /\ move'[m].phase \notin Claimed /\ contents' = contents
    BY <1>a, <1>5, CallMoveAlters DEF Claimed, InFlight, CallMove, carriers
  <2>2. Hidden(m) = {} /\ Hidden(m)' = {}
    BY <2>1 DEF Hidden
  <2>3. \A c \in Carrier : Visible'[c] = Visible[c]
    BY <2>1, <2>2, OtherCells
  <2>4. \A n \in Move : OpenMoves'[n] = OpenMoves[n]
    BY <2>1 DEF OpenMoves, Src, Dst
  <2> QED BY <2>3, <2>4, CellsShape DEF Served
<1>6. ~CallStep(u) /\ \A c \in Carrier : ~ReleaseChecks(u, c) /\ \A v \in Val : ~WriteChecks(u, c, v)
  BY <1>a DEF CallStep, CallsTorn, WriteLands, WriteEnds, ReleaseLands, ReleaseMarks, WriteChecks,
     ReleaseChecks
<1> QED BY <1>3, <1>4, <1>5, <1>6 DEF UserActs, UserStep

(* Where native code writes every carrier, a move is one atomic hand-over  *)
(* between cells nobody else touches meanwhile, and one whose provider has *)
(* broken its contract fails.                                              *)
THEOREM MovesHandOver == ASSUME Torn = {} PROVE Spec => AtomicTransfer
<1>1. Init => Transfers!Init
  <2> SUFFICES ASSUME Init PROVE Transfers!Init
    OBVIOUS
  <2>1. \A m \in Move : Hidden(m) = {} /\ OpenMoves[m] = None
    BY DEF Init, NoMove, Hidden, OpenMoves, Claimed, InFlight
  <2>2. \A c \in Carrier : Visible[c] = contents[c]
    BY <2>1 DEF Visible
  <2> QED BY <2>1, <2>2, CellsShape DEF Transfers!Init, Init
<1>2. ASSUME Vault, Betrayals, [Next]_vars PROVE [Transfers!Next]_(Transfers!vars)
  <2>1. TypeOK /\ OwnershipExact /\ TypeOK'
    BY <1>2, NextTyped DEF Vault
  <2>2. Next => Served
    BY <1>2, <2>1, MoveStepServes, MeddlingServes, UserServes DEF Next, UserActs
  <2>3. UNCHANGED vars => UNCHANGED <<Visible, OpenMoves>>
    BY DEF vars, Visible, OpenMoves, Hidden, Src, Dst
  <2> QED BY <1>2, <2>2, <2>3 DEF Served, Transfers!vars
<1> QED BY <1>1, <1>2, BetrayalsInvariant, PTL DEF Spec, AtomicTransfer, Transfers!Spec
================================================================================
