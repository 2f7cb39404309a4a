----------------------- MODULE TiledResidency_proofs -----------------------
(***************************************************************************)
(* Proofs about TiledResidency, for any sets of tiles, slots, values,      *)
(* threads, requests and works.                                            *)
(***************************************************************************)
EXTENDS TiledResidency, FiniteSetTheorems, TLAPS

(* TypeOK without the counters, whose type depends on their being exact.   *)
Shapes ==
    /\ primary \in [Tile -> Contents \union {None}]
    /\ secondary \in [Tile -> Contents \union {None}]
    /\ implicit \in SUBSET Tile /\ dirty \in SUBSET Tile
    /\ gone \in SUBSET Child
    /\ pending \in SUBSET Tile /\ deferred \in SUBSET Tile
    /\ released \in BOOLEAN
    /\ req \in [Request -> Requests]
    /\ work \in [Work -> Leases]
    /\ call \in [User -> Calls]
    /\ wrote \in [User -> BOOLEAN]

Phases == {"idle", "staging", "moving", "aborting", "committed", "done"}

(* The updates the actions make to one request keep its shape.             *)
LEMMA RequestUpdates ==
    ASSUME NEW q \in Requests
    PROVE  /\ \A ph \in Phases : [q EXCEPT !.phase = ph] \in Requests
           /\ \A t \in Tile, v \in Contents \union {None} :
                 [q EXCEPT !.todo = @ \ {t}, !.copy[t] = v] \in Requests
           /\ [q EXCEPT !.todo = {}, !.failed = TRUE] \in Requests
           /\ [q EXCEPT !.phase = "aborting", !.failed = TRUE] \in Requests
           /\ \A t \in Tile, bad \in BOOLEAN :
                 [q EXCEPT !.arrived = @ \union {t}, !.failed = @ \/ bad] \in Requests
  BY DEF Requests, Phases

LEMMA BlankShape == \A ph \in Phases, bad \in BOOLEAN : Blank(ph, bad) \in Requests
  BY DEF Requests, Phases, Blank, NoCopy, Kind

(* Every step of a request keeps the shapes.                               *)
LEMMA RequestStepShapes ==
    ASSUME Shapes, NEW r \in Request, RequestStep(r)
    PROVE  Shapes'
<1> USE DEF Shapes, tiles, counters, EndPending, Phases
<1>a. req[r] \in Requests
  OBVIOUS
<1>1. ASSUME NEW t \in Tile, StageTransfer(r, t) PROVE Shapes'
  <2>1. Source(req[r].kind, t) \in Contents \union {None}
    BY DEF Source
  <2>2. req' = [req EXCEPT ![r] = [req[r] EXCEPT !.todo = @ \ {t}, !.copy[t] = Source(req[r].kind, t)]]
    BY <1>1 DEF StageTransfer
  <2>3. [req[r] EXCEPT !.todo = @ \ {t}, !.copy[t] = Source(req[r].kind, t)] \in Requests
    BY <1>a, <2>1, RequestUpdates
  <2> QED BY <1>1, <2>2, <2>3 DEF StageTransfer
<1>2. ASSUME NEW t \in Tile, MoveEnds(r, t) PROVE Shapes'
  <2>1. PICK bad \in BOOLEAN :
           req' = [req EXCEPT ![r] = [req[r] EXCEPT !.arrived = @ \union {t}, !.failed = @ \/ bad]]
    BY <1>2 DEF MoveEnds
  <2> QED BY <1>2, <2>1, <1>a, RequestUpdates DEF MoveEnds
<1>3. CASE FirstStageFails(r)
  BY <1>3, BlankShape DEF FirstStageFails
<1>4. CASE LaterStageFails(r)
  <2>1. req' = [req EXCEPT ![r] = [req[r] EXCEPT !.todo = {}, !.failed = TRUE]]
    BY <1>4 DEF LaterStageFails
  <2> QED BY ZenonT(40), <1>4, <2>1, <1>a, RequestUpdates DEF LaterStageFails
<1>5. CASE SubmitWorker(r)
  <2>1. \/ req' = [req EXCEPT ![r] = [req[r] EXCEPT !.phase = "moving"]]
        \/ req' = [req EXCEPT ![r] = [req[r] EXCEPT !.phase = "aborting", !.failed = TRUE]]
    BY <1>5 DEF SubmitWorker
  <2> QED BY <1>5, <2>1, <1>a, RequestUpdates DEF SubmitWorker
<1>6. CASE CommitTransition(r)
  <2>1. req' \in [Request -> Requests]
    BY <1>6, <1>a, RequestUpdates DEF CommitTransition
  <2>2. ASSUME NEW C, Detach(C) PROVE call' \in [User -> Calls] /\ gone' \in SUBSET Child
    <3>1. ASSUME NEW u \in User, call[u].op = "release"
          PROVE  [call[u] EXCEPT !.todo = @ \ C] \in Calls
      BY <3>1 DEF Calls
    <3> QED BY <2>2, <3>1 DEF Detach
  <2>3. CASE CommitPromotion(r)
    <3>1. Staged(r) \union req[r].fills \subseteq Tile
      BY DEF Staged, Requests
    <3>2. [s \in Slot |-> Zero] \in Contents
      BY TiledAssumption DEF Contents
    <3>3. req[r].copy \in [Tile -> Contents \union {None}]
      BY DEF Requests
    <3> QED BY <1>6, <2>1, <2>2, <2>3, <3>1, <3>2, <3>3 DEF CommitTransition, CommitPromotion
  <2>4. CASE CommitEviction(r)
    <3>3. req[r].copy \in [Tile -> Contents \union {None}]
      BY DEF Requests
    <3> QED BY <1>6, <2>1, <2>2, <2>4, <3>3 DEF CommitTransition, CommitEviction
  <2> QED BY <1>6, <2>3, <2>4 DEF CommitTransition
<1>7. CASE FailTransition(r)
  BY <1>7, BlankShape DEF FailTransition
<1>8. CASE FinishTransition(r)
  BY <1>8, BlankShape DEF FinishTransition
<1> QED BY <1>1, <1>2, <1>3, <1>4, <1>5, <1>6, <1>7, <1>8 DEF RequestStep

(* A request as it is admitted, by a thread or under the lock.             *)
LEMMA AdmittedShape ==
    ASSUME Shapes, NEW k \in Kind, NEW T \in SUBSET Tile
    PROVE  /\ Admitted(k, T) \in Requests
           /\ \A S \in SUBSET Tile : Submitted(k, T, S) \in Requests
<1>1. Blank("staging", FALSE) \in Requests
  BY BlankShape DEF Phases
<1>2. Moves(k, T) \in SUBSET Tile /\ Fills(k, T) \in SUBSET Tile
  BY DEF Moves, Fills
<1>3. Admitted(k, T) \in Requests
  BY <1>1, <1>2 DEF Admitted, Requests
<1>4. ASSUME NEW S \in SUBSET Tile PROVE Submitted(k, T, S) \in Requests
  <2>1. [t \in Tile |-> IF t \in S THEN Source(k, t) ELSE None] \in [Tile -> Contents \union {None}]
    BY DEF Shapes, Source
  <2> QED BY <1>3, <2>1 DEF Submitted, Requests
<1> QED BY <1>3, <1>4

LEMMA AdmitShapes ==
    ASSUME Shapes, NEW r \in Request, NEW k \in Kind, NEW T \in SUBSET Tile, Admit(r, k, T)
    PROVE  req' \in [Request -> Requests] /\ pending' \in SUBSET Tile
  BY AdmittedShape, BlankShape DEF Admit, Shapes, Phases

LEMMA LaunchShapes ==
    ASSUME Shapes, NEW r \in Request, NEW k \in Kind, NEW T \in SUBSET Tile, LaunchLocked(r, k, T)
    PROVE  req' \in [Request -> Requests] /\ pending' \in SUBSET Tile
<1>1. Stageable(k, T) \subseteq SUBSET Tile
  BY DEF Stageable, Moves
<1>2. CASE Moves(k, T) \union Fills(k, T) = {}
  BY <1>2, BlankShape DEF LaunchLocked, Shapes, Phases
<1>3. CASE Moves(k, T) \union Fills(k, T) # {}
  <2>1. PICK S \in SUBSET Tile : req' = [req EXCEPT ![r] = Submitted(k, T, S)]
    BY <1>1, <1>3 DEF LaunchLocked
  <2>2. Submitted(k, T, S) \in Requests
    BY AdmittedShape
  <2> QED BY <1>3, <2>1, <2>2 DEF LaunchLocked, Shapes
<1> QED BY <1>2, <1>3

(* Every step of a work keeps the shapes.                                  *)
LEMMA DemandShape ==
    ASSUME NEW d \in Demands
    PROVE  /\ Protected(d) \in SUBSET Tile /\ ToPromote(d) \in SUBSET Tile
           /\ d.evict \in SUBSET Tile
  BY DEF Demands, Protected, ToPromote

LEMMA LeaseUpdates ==
    ASSUME NEW l \in Leases, NEW bad \in BOOLEAN
    PROVE  /\ [l EXCEPT !.phase = "body"] \in Leases
           /\ [l EXCEPT !.phase = "completing", !.failed = bad] \in Leases
           /\ \A r \in Request, T \in SUBSET Tile :
                 [l EXCEPT !.phase = "evicting", !.eviction = r, !.ready = T, !.failed = bad] \in Leases
  BY DEF Leases

LEMMA NoLeaseShape ==
    /\ NoLease \in Leases
    /\ \A d \in Demands, r \in Request :
          [NoLease EXCEPT !.phase = "promoting", !.demand = d, !.promotion = r] \in Leases
<1>1. NoDemand \in Demands
  BY DEF NoDemand, Demands
<1>2. NoLease \in Leases
  BY <1>1 DEF NoLease, Leases
<1>3. ASSUME NEW l \in Leases, NEW d \in Demands, NEW r \in Request
      PROVE  [l EXCEPT !.phase = "promoting", !.demand = d, !.promotion = r] \in Leases
  BY DEF Leases
<1> QED BY <1>2, <1>3

LEMMA WorkStepShapes ==
    ASSUME Shapes, NEW w \in Work, WorkStep(w)
    PROVE  Shapes'
<1> USE DEF Shapes, tiles, counters
<1>a. work[w] \in Leases /\ work[w].demand \in Demands /\ work[w].ready \in SUBSET Tile
  BY DEF Leases
<1>b. \A r \in Request : req[r].failed \in BOOLEAN
  BY DEF Requests
<1>1. CASE PromotionEnds(w)
  BY <1>1, <1>a, LeaseUpdates DEF PromotionEnds
<1>2. ASSUME NEW apply \in BOOLEAN, EndWork(w, apply) PROVE Shapes'
  <2> DEFINE d == work[w].demand
             later == deferred \union (IF apply THEN d.evict ELSE {})
             ready == {t \in later : Unpinned(d)[t] = 0 /\ t \notin pending}
  <2>1. later \in SUBSET Tile /\ ready \in SUBSET Tile
    BY <1>a, DemandShape
  <2>2. UNCHANGED <<tiles, active, released, call, wrote>>
    BY <1>2 DEF EndWork
  <2>3. CASE /\ deferred' = later /\ UNCHANGED <<req, pending, requests>>
             /\ work' = [work EXCEPT ![w].phase = "completing",
                                     ![w].failed = ~apply \/ ready # {}]
    <3>1. work' = [work EXCEPT ![w] = [work[w] EXCEPT !.phase = "completing",
                                                      !.failed = ~apply \/ ready # {}]]
      BY <2>3
    <3> QED BY ZenonT(40), <2>1, <2>2, <2>3, <3>1, <1>a, LeaseUpdates
  <2>4. CASE /\ deferred' = later \ ready /\ UNCHANGED <<req, pending, requests>>
             /\ work' = [work EXCEPT ![w].phase = "completing", ![w].failed = ~apply]
    <3>1. work' = [work EXCEPT ![w] = [work[w] EXCEPT !.phase = "completing", !.failed = ~apply]]
      BY <2>4
    <3> QED BY ZenonT(40), <2>1, <2>2, <2>4, <3>1, <1>a, LeaseUpdates
  <2>5. ASSUME deferred' = later \ ready, NEW r \in Free, LaunchLocked(r, "evict", ready),
               work' = [work EXCEPT ![w].phase = "evicting", ![w].eviction = r,
                                    ![w].ready = ready, ![w].failed = ~apply]
        PROVE  Shapes'
    <3>1. work' = [work EXCEPT ![w] = [work[w] EXCEPT !.phase = "evicting", !.eviction = r,
                                                      !.ready = ready, !.failed = ~apply]]
      BY <2>5
    <3>2. r \in Request
      BY DEF Free
    <3>3. req' \in [Request -> Requests] /\ pending' \in SUBSET Tile
      BY <2>1, <2>5, <3>2, LaunchShapes DEF Kind
    <3>4. [work[w] EXCEPT !.phase = "evicting", !.eviction = r, !.ready = ready, !.failed = ~apply] \in Leases
      BY <2>1, <3>2, <1>a, LeaseUpdates
    <3> HIDE DEF d, later, ready
    <3> QED BY <2>1, <2>2, <2>5, <3>1, <3>3, <3>4
  <2> QED BY <1>2, <2>3, <2>4, <2>5 DEF EndWork
<1>3. CASE EvictionEnds(w)
  <2>1. \E bad \in BOOLEAN :
           work' = [work EXCEPT ![w] = [work[w] EXCEPT !.phase = "completing", !.failed = bad]]
    BY <1>3, <1>a DEF EvictionEnds, Leases
  <2> QED BY <1>3, <1>a, <2>1, LeaseUpdates DEF EvictionEnds
<1>4. CASE CompleteWork(w)
  BY <1>4, NoLeaseShape DEF CompleteWork
<1> QED BY <1>1, <1>2, <1>3, <1>4 DEF WorkStep

(* Every step of a thread keeps the shapes.                                *)
LEMMA CallShapes ==
    /\ IdleCall \in Calls
    /\ [op |-> "mark"] \in Calls
    /\ \A r \in Request : [op |-> "stage", handle |-> r] \in Calls
    /\ \A t \in Tile, s \in Slot, v \in Val :
          [op |-> "write", tile |-> t, slot |-> s, val |-> v, handle |-> None] \in Calls
    /\ \A T \in SUBSET Child : [op |-> "release", todo |-> T, failed |-> FALSE] \in Calls
  BY DEF IdleCall, Calls

(* What a call of each kind carries.                                       *)
LEMMA WriteCall ==
    ASSUME NEW c \in Calls, c.op \in {"write", "promote"}
    PROVE  /\ c.tile \in Tile /\ c.slot \in Slot /\ c.val \in Val
           /\ c.handle \in Request \union {None}
           /\ [c EXCEPT !.op = "promote"] \in Calls
           /\ [c EXCEPT !.op = "write", !.handle = None] \in Calls
           /\ \A r \in Request : [c EXCEPT !.handle = r] \in Calls
  BY DEF Calls

LEMMA ReleaseCall ==
    ASSUME NEW c \in Calls, c.op = "release", NEW x
    PROVE  /\ c.todo \in SUBSET Child
           /\ [c EXCEPT !.todo = @ \ {x}] \in Calls
           /\ [c EXCEPT !.todo = @ \ {x}, !.failed = TRUE] \in Calls
  BY DEF Calls

UserStep(u) == UserStarts(u) \/ RequestReturns(u) \/ WriteStep(u) \/ ReleaseStep(u)

LEMMA UserStepShapes ==
    ASSUME Shapes, NEW u \in User, UserStep(u)
    PROVE  Shapes'
<1> USE TiledAssumption DEF Shapes, tiles, counters
<1>a. call[u] \in Calls
  OBVIOUS
<1>1. ASSUME NEW r \in Request, NEW k \in Kind, NEW T \in Prefetch, RequestResidency(u, r, k, T)
      PROVE  Shapes'
  BY <1>1, AdmitShapes, CallShapes DEF RequestResidency
<1>2. ASSUME NEW t \in Tile, NEW s \in Slot, NEW v \in Val, StartWrite(u, t, s, v)
      PROVE  Shapes'
  BY <1>2, CallShapes DEF StartWrite
<1>3. ASSUME NEW w \in Work, NEW d \in Demand, BeginWork(u, w, d) PROVE Shapes'
  <2>1. PICK r \in Request : /\ LaunchLocked(r, "promote", ToPromote(d))
                             /\ work' = [work EXCEPT ![w] = [NoLease EXCEPT !.phase = "promoting",
                                                                !.demand = d, !.promotion = r]]
    BY <1>3 DEF BeginWork, Free
  <2>2. req' \in [Request -> Requests] /\ pending' \in SUBSET Tile
    BY <2>1, LaunchShapes, DemandShape DEF Kind
  <2>3. work' \in [Work -> Leases]
    BY <2>1, NoLeaseShape
  <2> QED BY <1>3, <2>2, <2>3 DEF BeginWork
<1>4. CASE ReleaseStarts(u)
  <2>1. Held \in SUBSET Child
    BY DEF Held, Child
  <2> QED BY <1>4, <2>1, CallShapes DEF ReleaseStarts
<1>5. CASE RequestReturns(u)
  BY <1>5, CallShapes DEF RequestReturns
<1>6. CASE WriteRefused(u)
  BY <1>6, CallShapes DEF WriteRefused, WriteReturns
<1>7. CASE WriteResident(u)
  <2>1. call[u].tile \in Tile /\ call[u].slot \in Slot /\ call[u].val \in Val
    BY <1>7, <1>a, WriteCall DEF WriteResident, Looping
  <2>2. primary[call[u].tile] \in Contents
    BY <1>7, <2>1 DEF WriteResident
  <2>3. primary' \in [Tile -> Contents \union {None}]
    BY <1>7, <2>1, <2>2 DEF WriteResident, Contents
  <2> QED BY <1>7, <2>1, <2>3, CallShapes DEF WriteResident, WriteReturns
<1>8. CASE WriteImplicit(u)
  <2>1. call[u].tile \in Tile
    BY <1>8, <1>a, WriteCall DEF WriteImplicit, Looping
  <2>2. [s \in Slot |-> Zero] \in Contents
    BY DEF Contents
  <2>3. CASE WriteReturns(u, TRUE) /\ UNCHANGED <<primary, implicit>>
    BY <1>8, <2>3, CallShapes DEF WriteImplicit, WriteReturns
  <2>4. CASE WriteReturns(u, FALSE) /\ UNCHANGED <<primary, implicit>>
    BY <1>8, <2>4, CallShapes DEF WriteImplicit, WriteReturns
  <2>5. CASE /\ primary' = [primary EXCEPT ![call[u].tile] = [s \in Slot |-> Zero]]
             /\ implicit' = implicit \ {call[u].tile}
             /\ UNCHANGED <<call, wrote>>
    BY <1>8, <2>1, <2>2, <2>5 DEF WriteImplicit
  <2> QED BY <1>8, <2>3, <2>4, <2>5 DEF WriteImplicit
<1>9. CASE WriteEvicted(u)
  <2>1. call' = [call EXCEPT ![u] = [call[u] EXCEPT !.op = "promote"]]
    BY <1>9 DEF WriteEvicted
  <2>2. call[u].op = "write"
    BY <1>9 DEF WriteEvicted, Looping
  <2>3. [call[u] EXCEPT !.op = "promote"] \in Calls
    BY <1>a, <2>2, WriteCall
  <2>4. call' \in [User -> Calls]
    BY <2>1, <2>3
  <2> QED BY <1>9, <2>4 DEF WriteEvicted
<1>10. CASE WritePromotes(u)
  <2>0. call[u].tile \in Tile
    BY <1>10, <1>a, WriteCall DEF WritePromotes
  <2>1. {call[u].tile} \in SUBSET Tile
    BY <2>0
  <2>2. CASE WriteReturns(u, FALSE) /\ UNCHANGED <<req, pending, requests>>
    BY <1>10, <2>2, CallShapes DEF WritePromotes, WriteReturns
  <2>3. ASSUME NEW r \in Free, Admit(r, "promote", {call[u].tile}),
               call' = [call EXCEPT ![u].handle = r], UNCHANGED wrote
        PROVE  Shapes'
    <3>1. r \in Request
      BY DEF Free
    <3>2. call' = [call EXCEPT ![u] = [call[u] EXCEPT !.handle = r]]
      BY <2>3
    <3>3. [call[u] EXCEPT !.handle = r] \in Calls
      BY <1>10, <1>a, <3>1, WriteCall DEF WritePromotes
    <3>4. req' \in [Request -> Requests] /\ pending' \in SUBSET Tile
      BY <2>1, <2>3, <3>1, AdmitShapes DEF Kind
    <3> QED BY <1>10, <2>3, <3>2, <3>3, <3>4 DEF WritePromotes
  <2> QED BY <1>10, <2>2, <2>3 DEF WritePromotes
<1>11. CASE WritePromoted(u)
  <2>1. CASE WriteReturns(u, FALSE)
    BY <1>11, <2>1, CallShapes DEF WritePromoted, WriteReturns
  <2>2. CASE call' = [call EXCEPT ![u].op = "write", ![u].handle = None] /\ UNCHANGED wrote
    <3>1. call' = [call EXCEPT ![u] = [call[u] EXCEPT !.op = "write", !.handle = None]]
      BY <2>2
    <3>2. [call[u] EXCEPT !.op = "write", !.handle = None] \in Calls
      BY <1>11, <1>a, WriteCall DEF WritePromoted
    <3> QED BY <1>11, <2>2, <3>1, <3>2 DEF WritePromoted
  <2> QED BY <1>11, <2>1, <2>2 DEF WritePromoted
<1>12. ASSUME NEW c \in Child, ReleaseChild(u, c) PROVE Shapes'
  <2>1. \/ call' = [call EXCEPT ![u] = [call[u] EXCEPT !.todo = @ \ {c}]]
        \/ call' = [call EXCEPT ![u] = [call[u] EXCEPT !.todo = @ \ {c}, !.failed = TRUE]]
    BY <1>12 DEF ReleaseChild
  <2>2. /\ [call[u] EXCEPT !.todo = @ \ {c}] \in Calls
        /\ [call[u] EXCEPT !.todo = @ \ {c}, !.failed = TRUE] \in Calls
    BY <1>12, <1>a, ReleaseCall DEF ReleaseChild
  <2>3. call' \in [User -> Calls]
    BY <2>1, <2>2
  <2> QED BY <1>12, <2>3 DEF ReleaseChild
<1>13. CASE ReleaseEnds(u)
  BY <1>13, CallShapes DEF ReleaseEnds, NoCopy
<1>14. CASE ReleaseMarks(u)
  BY <1>14, CallShapes DEF ReleaseMarks
<1> QED BY <1>1, <1>2, <1>3, <1>4, <1>5, <1>6, <1>7, <1>8, <1>9, <1>10, <1>11, <1>12,
           <1>13, <1>14 DEF UserStep, UserStarts, WriteStep, ReleaseStep

LEMMA NextShapes == ASSUME Shapes, [Next]_vars PROVE Shapes'
<1>1. CASE UNCHANGED vars
  BY <1>1 DEF Shapes, vars, tiles, counters
<1> QED BY <1>1, RequestStepShapes, WorkStepShapes, UserStepShapes DEF Next, UserStep

LEMMA InitShapes == Init => Shapes
  BY ZenonT(40), BlankShape, NoLeaseShape, CallShapes DEF Init, Shapes, NoCopy, Phases
-----------------------------------------------------------------------------
(* The counters are exact.  Each action does one of three things to the    *)
(* requests in flight, and one of four to the works.                       *)

Flights == {r \in Request : InFlight(r)}
RequestCounts ==
    /\ \A q, r \in Request : q # r /\ InFlight(q) /\ InFlight(r)
                                => req[q].tiles \intersect req[r].tiles = {}
    /\ pending = UNION {req[r].tiles : r \in Flights}
    /\ requests = Cardinality(Flights)

(* What happens to the requests in flight: nothing, one more, one less.    *)
SameFlights == /\ \A r \in Request : /\ InFlight(r)' = InFlight(r)
                                     /\ InFlight(r) => req'[r].tiles = req[r].tiles
               /\ UNCHANGED <<pending, requests>>
Departs(r, T) == /\ ~InFlight(r) /\ InFlight(r)' /\ req'[r].tiles = T
                 /\ \A q \in Request \ {r} : req'[q] = req[q]
                 /\ pending \intersect T = {}
                 /\ pending' = pending \union T
                 /\ requests' = requests + 1
Lands(r) == /\ InFlight(r) /\ ~InFlight(r)'
            /\ \A q \in Request \ {r} : req'[q] = req[q]
            /\ EndPending(r)

LEMMA SameFlightsCounts == ASSUME RequestCounts, SameFlights PROVE RequestCounts'
<1>1. Flights' = Flights
  BY DEF Flights, SameFlights
<1>2. \A r \in Flights : req'[r].tiles = req[r].tiles
  BY DEF Flights, SameFlights
<1>3. {req[r].tiles : r \in Flights}' = {req[r].tiles : r \in Flights}
  BY <1>1, <1>2
<1>4. \A q, r \in Request : q # r /\ InFlight(q)' /\ InFlight(r)'
                                => req'[q].tiles \intersect req'[r].tiles = {}
  BY DEF SameFlights, RequestCounts
<1>5. pending' = pending /\ requests' = requests
  BY DEF SameFlights
<1> QED BY <1>1, <1>3, <1>4, <1>5 DEF RequestCounts

LEMMA FlightsFinite == IsFiniteSet(Flights)
  BY FS_Subset, TiledAssumption DEF Flights

LEMMA DepartsCounts ==
    ASSUME RequestCounts, NEW r \in Request, NEW T \in SUBSET Tile, Departs(r, T)
    PROVE  RequestCounts'
<1>1. Flights' = Flights \union {r} /\ r \notin Flights
  BY DEF Flights, Departs, InFlight
<1>2. \A q \in Flights : req'[q].tiles = req[q].tiles
  BY <1>1 DEF Departs, Flights
<1>3. pending' = UNION {req'[q].tiles : q \in Flights'}
  BY <1>1, <1>2 DEF Departs, RequestCounts
<1>4. \A q \in Request : InFlight(q) => req[q].tiles \intersect T = {}
  BY DEF RequestCounts, Departs, Flights
<1>5. \A q, p \in Request : q # p /\ InFlight(q)' /\ InFlight(p)'
                                => req'[q].tiles \intersect req'[p].tiles = {}
  BY <1>4 DEF RequestCounts, Departs, InFlight
<1>6. requests' = Cardinality(Flights')
  BY <1>1, FlightsFinite, FS_AddElement DEF RequestCounts, Departs
<1> QED BY <1>3, <1>5, <1>6 DEF RequestCounts

LEMMA LandsCounts ==
    ASSUME RequestCounts, NEW r \in Request, Lands(r)
    PROVE  RequestCounts'
<1>1. Flights' = Flights \ {r} /\ r \in Flights
  BY DEF Flights, Lands, InFlight
<1>2. \A q \in Flights' : req'[q].tiles = req[q].tiles
  BY <1>1 DEF Lands, Flights
<1>3. \A q \in Flights' : req[q].tiles \intersect req[r].tiles = {}
  BY <1>1 DEF RequestCounts, Flights
<1>4. pending' = UNION {req'[q].tiles : q \in Flights'}
  BY <1>1, <1>2, <1>3 DEF Lands, RequestCounts, EndPending
<1>5. \A q, p \in Request : q # p /\ InFlight(q)' /\ InFlight(p)'
                                => req'[q].tiles \intersect req'[p].tiles = {}
  BY DEF RequestCounts, Lands, InFlight
<1>6. requests' = Cardinality(Flights')
  BY <1>1, FlightsFinite, FS_RemoveElement DEF RequestCounts, Lands, EndPending
<1> QED BY <1>4, <1>5, <1>6 DEF RequestCounts

(* Each step of a request keeps it in flight or lands it.                  *)
LEMMA RequestStepFlights ==
    ASSUME Shapes, NEW r \in Request, RequestStep(r)
    PROVE  SameFlights \/ Lands(r)
<1> USE DEF InFlight
<1>a. req \in [Request -> Requests] /\ req[r] \in Requests
  BY DEF Shapes
<1>1. ASSUME NEW t \in Tile, StageTransfer(r, t) PROVE SameFlights
  BY <1>1, <1>a DEF StageTransfer, SameFlights, counters, Requests
<1>2. ASSUME NEW t \in Tile, MoveEnds(r, t) PROVE SameFlights
  BY <1>2, <1>a DEF MoveEnds, SameFlights, counters, Requests
<1>3. CASE FirstStageFails(r)
  BY <1>3, <1>a DEF FirstStageFails, Lands, Blank
<1>4. CASE LaterStageFails(r)
  BY <1>4, <1>a DEF LaterStageFails, SameFlights, counters, Requests
<1>5. CASE SubmitWorker(r)
  BY <1>5, <1>a DEF SubmitWorker, SameFlights, counters, Requests
<1>6. CASE CommitTransition(r)
  BY <1>6, <1>a DEF CommitTransition, SameFlights, counters, Requests
<1>7. CASE FailTransition(r)
  BY <1>7, <1>a DEF FailTransition, Lands, Blank
<1>8. CASE FinishTransition(r)
  BY <1>8, <1>a DEF FinishTransition, Lands, Blank
<1> QED BY <1>1, <1>2, <1>3, <1>4, <1>5, <1>6, <1>7, <1>8 DEF RequestStep

(* A request admitted for a free id flies, unless it is born completed.    *)
LEMMA AdmitFlights ==
    ASSUME Shapes, NEW r \in Free, NEW k \in Kind, NEW T \in SUBSET Tile,
           pending \intersect T = {}, Admit(r, k, T) \/ LaunchLocked(r, k, T)
    PROVE  SameFlights \/ Departs(r, T)
<1>a. r \in Request /\ ~InFlight(r) /\ req \in [Request -> Requests]
  BY DEF Free, Shapes
<1>1. CASE Moves(k, T) \union Fills(k, T) = {}
  BY <1>1, <1>a DEF Admit, LaunchLocked, SameFlights, InFlight, Blank
<1>2. CASE /\ Moves(k, T) \union Fills(k, T) # {}
           /\ Admit(r, k, T)
  <2>1. req' = [req EXCEPT ![r] = Admitted(k, T)]
    BY <1>2 DEF Admit
  <2>2. Admitted(k, T).phase = "staging" /\ Admitted(k, T).tiles = T
    BY DEF Admitted, Blank
  <2> QED BY <1>2, <1>a, <2>1, <2>2 DEF Admit, Departs, InFlight
<1>3. CASE /\ Moves(k, T) \union Fills(k, T) # {}
           /\ LaunchLocked(r, k, T)
  <2>1. PICK S : req' = [req EXCEPT ![r] = Submitted(k, T, S)]
    BY <1>3 DEF LaunchLocked
  <2>2. Submitted(k, T, S).phase = "moving" /\ Submitted(k, T, S).tiles = T
    BY DEF Submitted, Admitted, Blank
  <2> QED BY <1>3, <1>a, <2>1, <2>2 DEF LaunchLocked, Departs, InFlight
<1> QED BY <1>1, <1>2, <1>3

Busy == {w \in Work : work[w].phase # "idle"}
Pinners(t) == {w \in Work : Pinning(w) /\ t \in Protected(work[w].demand)}
WorkCounts == /\ active = Cardinality(Busy)
              /\ \A t \in Tile : pins[t] = Cardinality(Pinners(t))

(* What happens to the works: nothing, one begins, unpins or completes.    *)
SameWorks == /\ \A w \in Work : /\ work'[w].phase = "idle" <=> work[w].phase = "idle"
                                /\ Pinning(w)' = Pinning(w)
                                /\ work'[w].demand = work[w].demand
             /\ UNCHANGED <<pins, active>>
Begins(w, d) == /\ work[w].phase = "idle"
                /\ work'[w].phase = "promoting" /\ work'[w].demand = d
                /\ \A v \in Work \ {w} : work'[v] = work[v]
                /\ pins' = Pinned(d) /\ active' = active + 1
Unpins(w) == /\ Pinning(w)
             /\ work'[w].phase \in {"completing", "evicting"}
             /\ work'[w].demand = work[w].demand
             /\ \A v \in Work \ {w} : work'[v] = work[v]
             /\ pins' = Unpinned(work[w].demand) /\ active' = active
Completes(w) == /\ work[w].phase = "completing" /\ work'[w].phase = "idle"
                /\ \A v \in Work \ {w} : work'[v] = work[v]
                /\ pins' = pins /\ active' = active - 1

LEMMA WorksFinite == IsFiniteSet(Busy) /\ \A t \in Tile : IsFiniteSet(Pinners(t))
  BY FS_Subset, TiledAssumption DEF Busy, Pinners

LEMMA SameWorksCounts == ASSUME WorkCounts, SameWorks PROVE WorkCounts'
<1>1. Busy' = Busy
  BY DEF Busy, SameWorks
<1>2. \A t \in Tile : Pinners(t)' = Pinners(t)
  BY DEF Pinners, SameWorks
<1> QED BY <1>1, <1>2 DEF WorkCounts, SameWorks

LEMMA BeginsCounts ==
    ASSUME WorkCounts, NEW w \in Work, NEW d, Begins(w, d)
    PROVE  WorkCounts'
<1>1. Busy' = Busy \union {w} /\ w \notin Busy
  BY DEF Busy, Begins
<1>2. active' = Cardinality(Busy')
  BY <1>1, WorksFinite, FS_AddElement DEF WorkCounts, Begins
<1>3. ASSUME NEW t \in Tile PROVE pins'[t] = Cardinality(Pinners(t)')
  <2>1. CASE t \in Protected(d)
    <3>1. Pinners(t)' = Pinners(t) \union {w} /\ w \notin Pinners(t)
      BY <2>1 DEF Pinners, Begins, Pinning
    <3> QED BY ZenonT(40), <2>1, <3>1, WorksFinite, FS_AddElement DEF WorkCounts, Begins, Pinned
  <2>2. CASE t \notin Protected(d)
    <3>1. Pinners(t)' = Pinners(t)
      BY <2>2 DEF Pinners, Begins, Pinning
    <3> QED BY <2>2, <3>1 DEF WorkCounts, Begins, Pinned
  <2> QED BY <2>1, <2>2
<1> QED BY <1>2, <1>3 DEF WorkCounts

LEMMA UnpinsCounts ==
    ASSUME WorkCounts, NEW w \in Work, Unpins(w)
    PROVE  WorkCounts'
<1>1. Busy' = Busy
  BY DEF Busy, Unpins, Pinning
<1>2. ASSUME NEW t \in Tile PROVE pins'[t] = Cardinality(Pinners(t)')
  <2>1. CASE t \in Protected(work[w].demand)
    <3>1. Pinners(t)' = Pinners(t) \ {w} /\ w \in Pinners(t)
      BY <2>1 DEF Pinners, Unpins, Pinning
    <3> QED BY <2>1, <3>1, WorksFinite, FS_RemoveElement DEF WorkCounts, Unpins, Unpinned
  <2>2. CASE t \notin Protected(work[w].demand)
    <3>1. Pinners(t)' = Pinners(t)
      BY <2>2 DEF Pinners, Unpins, Pinning
    <3> QED BY <2>2, <3>1 DEF WorkCounts, Unpins, Unpinned
  <2> QED BY <2>1, <2>2
<1> QED BY <1>1, <1>2 DEF WorkCounts, Unpins

LEMMA CompletesCounts ==
    ASSUME WorkCounts, NEW w \in Work, Completes(w)
    PROVE  WorkCounts'
<1>1. Busy' = Busy \ {w} /\ w \in Busy
  BY DEF Busy, Completes
<1>2. \A t \in Tile : Pinners(t)' = Pinners(t)
  BY DEF Pinners, Completes, Pinning
<1>3. active' = Cardinality(Busy')
  BY <1>1, WorksFinite, FS_RemoveElement DEF WorkCounts, Completes
<1> QED BY <1>2, <1>3 DEF WorkCounts, Completes

LEMMA WorkStepCounts ==
    ASSUME Shapes, RequestCounts, WorkCounts, NEW w \in Work, WorkStep(w)
    PROVE  RequestCounts' /\ WorkCounts'
<1>a. work \in [Work -> Leases] /\ work[w].demand \in Demands
  BY DEF Shapes, Leases
<1>b. ASSUME UNCHANGED <<req, pending, requests>> PROVE RequestCounts'
  BY <1>b, SameFlightsCounts DEF SameFlights, InFlight
<1>1. CASE PromotionEnds(w)
  <2>1. SameWorks
    BY <1>1, <1>a DEF PromotionEnds, SameWorks, Pinning, counters, Leases
  <2> QED BY <1>1, <1>b, <2>1, SameWorksCounts DEF PromotionEnds, counters
<1>2. ASSUME NEW apply \in BOOLEAN, EndWork(w, apply) PROVE RequestCounts' /\ WorkCounts'
  <2> DEFINE d == work[w].demand
             later == deferred \union (IF apply THEN d.evict ELSE {})
             ready == {t \in later : Unpinned(d)[t] = 0 /\ t \notin pending}
  <2>1. ready \in SUBSET Tile /\ pending \intersect ready = {}
    BY <1>a, DemandShape DEF Shapes
  <2>2. pins' = Unpinned(d) /\ active' = active /\ Pinning(w)
    BY <1>2 DEF EndWork, Pinning
  <2>3. CASE /\ UNCHANGED <<req, pending, requests>>
             /\ \E bad \in BOOLEAN :
                   work' = [work EXCEPT ![w].phase = "completing", ![w].failed = bad]
    <3>1. Unpins(w)
      BY <1>a, <2>2, <2>3 DEF Unpins, Leases
    <3> QED BY <1>b, <2>3, <3>1, UnpinsCounts
  <2>4. ASSUME NEW r \in Free, LaunchLocked(r, "evict", ready),
               work' = [work EXCEPT ![w].phase = "evicting", ![w].eviction = r,
                                    ![w].ready = ready, ![w].failed = ~apply]
        PROVE  RequestCounts' /\ WorkCounts'
    <3>1. Unpins(w)
      BY ZenonT(40), <1>a, <2>2, <2>4 DEF Unpins, Leases
    <3>2. SameFlights \/ Departs(r, ready)
      BY <2>1, <2>4, AdmitFlights DEF Kind
    <3> QED BY <2>1, <3>1, <3>2, UnpinsCounts, SameFlightsCounts, DepartsCounts DEF Free
  <2>5. (~apply \/ ready # {}) \in BOOLEAN /\ (~apply) \in BOOLEAN
    OBVIOUS
  <2> QED BY <1>2, <2>3, <2>4, <2>5 DEF EndWork
<1>3. CASE EvictionEnds(w)
  <2>1. SameWorks
    BY <1>3, <1>a DEF EvictionEnds, SameWorks, Pinning, Leases
  <2> QED BY <1>3, <1>b, <2>1, SameWorksCounts DEF EvictionEnds
<1>4. CASE CompleteWork(w)
  <2>1. Completes(w)
    BY <1>4, <1>a DEF CompleteWork, Completes, NoLease
  <2> QED BY <1>4, <1>b, <2>1, CompletesCounts DEF CompleteWork
<1> QED BY <1>1, <1>2, <1>3, <1>4 DEF WorkStep

LEMMA RequestStepCounts ==
    ASSUME Shapes, RequestCounts, WorkCounts, NEW r \in Request, RequestStep(r)
    PROVE  RequestCounts' /\ WorkCounts'
<1>1. RequestCounts'
  BY RequestStepFlights, SameFlightsCounts, LandsCounts
<1>2. UNCHANGED <<work, pins, active>>
  BY DEF RequestStep, StageTransfer, MoveEnds, FirstStageFails, LaterStageFails, SubmitWorker,
         CommitTransition, FailTransition, FinishTransition, counters
<1> QED BY <1>1, <1>2, SameWorksCounts DEF SameWorks, Pinning

LEMMA UserStepCounts ==
    ASSUME Shapes, RequestCounts, WorkCounts, NEW u \in User, UserStep(u)
    PROVE  RequestCounts' /\ WorkCounts'
<1>b. ASSUME UNCHANGED <<req, pending, requests>> PROVE RequestCounts'
  BY <1>b, SameFlightsCounts DEF SameFlights, InFlight
<1>c. ASSUME UNCHANGED <<work, pins, active>> PROVE WorkCounts'
  BY <1>c, SameWorksCounts DEF SameWorks, Pinning
<1>1. ASSUME NEW r \in Request, NEW k \in Kind, NEW T \in Prefetch, RequestResidency(u, r, k, T)
      PROVE  RequestCounts' /\ WorkCounts'
  <2>1. T \in SUBSET Tile
    BY TiledAssumption
  <2>2. r \in Free /\ pending \intersect T = {} /\ Admit(r, k, T)
    BY <1>1 DEF RequestResidency, Admit, Admissible
  <2>3. SameFlights \/ Departs(r, T)
    BY <2>1, <2>2, AdmitFlights
  <2>4. UNCHANGED <<work, pins, active>>
    BY <1>1 DEF RequestResidency
  <2> QED BY <1>c, <2>1, <2>3, <2>4, SameFlightsCounts, DepartsCounts
<1>2. ASSUME NEW w \in Work, NEW d \in Demand, BeginWork(u, w, d)
      PROVE  RequestCounts' /\ WorkCounts'
  <2>1. PICK r \in Free : /\ LaunchLocked(r, "promote", ToPromote(d))
                          /\ work' = [work EXCEPT ![w] = [NoLease EXCEPT !.phase = "promoting",
                                                             !.demand = d, !.promotion = r]]
    BY <1>2 DEF BeginWork
  <2>2. d \in Demands /\ ToPromote(d) \in SUBSET Tile
    BY TiledAssumption, DemandShape
  <2>3. pending \intersect ToPromote(d) = {}
    BY <1>2 DEF BeginWork, Admissible
  <2>4. SameFlights \/ Departs(r, ToPromote(d))
    BY <2>1, <2>2, <2>3, AdmitFlights DEF Kind
  <2>5. Begins(w, d)
    BY <1>2, <2>1 DEF Begins, BeginWork, NoLease, Shapes
  <2>6. r \in Request
    BY DEF Free
  <2> QED BY <2>2, <2>4, <2>5, <2>6, SameFlightsCounts, DepartsCounts, BeginsCounts
<1>3. CASE WritePromotes(u)
  <2>1. UNCHANGED <<work, pins, active>>
    BY <1>3 DEF WritePromotes
  <2>2. CASE UNCHANGED <<req, pending, requests>>
    BY <1>b, <1>c, <2>1, <2>2
  <2>3. ASSUME NEW r \in Free, Admit(r, "promote", {call[u].tile})
        PROVE  RequestCounts'
    <3>0. call[u].tile \in Tile
      BY <1>3, WriteCall DEF WritePromotes, Shapes
    <3>1. {call[u].tile} \in SUBSET Tile
      BY <3>0
    <3>2. pending \intersect {call[u].tile} = {}
      BY <2>3 DEF Admit, Admissible
    <3>3. SameFlights \/ Departs(r, {call[u].tile})
      BY <2>3, <3>1, <3>2, AdmitFlights DEF Kind
    <3>4. r \in Request
      BY DEF Free
    <3> QED BY <3>1, <3>3, <3>4, SameFlightsCounts, DepartsCounts
  <2> QED BY <1>3, <1>c, <2>1, <2>2, <2>3 DEF WritePromotes
<1>4. CASE \/ RequestReturns(u) \/ WriteRefused(u) \/ WriteResident(u) \/ WriteImplicit(u)
           \/ WriteEvicted(u) \/ WritePromoted(u) \/ ReleaseStarts(u) \/ ReleaseStep(u)
           \/ \E t \in Tile, s \in Slot, v \in Val : StartWrite(u, t, s, v)
  <2>1. UNCHANGED <<req, pending, requests, work, pins, active>>
    BY <1>4 DEF RequestReturns, WriteRefused, WriteResident, WriteImplicit, WriteEvicted,
       WritePromoted, ReleaseStarts, ReleaseStep, ReleaseChild, ReleaseEnds, ReleaseMarks,
       StartWrite, counters
  <2> QED BY <1>b, <1>c, <2>1
<1> QED BY <1>1, <1>2, <1>3, <1>4 DEF UserStep, UserStarts, WriteStep

LEMMA InitCounts == Init => RequestCounts /\ WorkCounts
<1> SUFFICES ASSUME Init PROVE RequestCounts /\ WorkCounts
  OBVIOUS
<1>1. Flights = {} /\ Busy = {} /\ \A t \in Tile : Pinners(t) = {}
  BY DEF Init, Flights, InFlight, Blank, Busy, Pinners, Pinning, NoLease
<1> QED BY <1>1, FS_EmptySet DEF Init, RequestCounts, WorkCounts, Flights

LEMMA CountsAreExact == ASSUME RequestCounts, WorkCounts PROVE CountersExact
  BY DEF RequestCounts, WorkCounts, CountersExact, Flights, Busy, Pinners

PinsTotal == pins = [t \in Tile |-> pins[t]]

LEMMA PinsStayTotal == ASSUME PinsTotal, [Next]_vars PROVE PinsTotal'
<1>1. pins' = pins \/ \E d : pins' = Pinned(d) \/ pins' = Unpinned(d)
  <2>1. ASSUME NEW r \in Request, RequestStep(r) PROVE pins' = pins
    BY <2>1 DEF RequestStep, StageTransfer, MoveEnds, FirstStageFails, LaterStageFails,
                SubmitWorker, CommitTransition, FailTransition, FinishTransition, counters
  <2>2. ASSUME NEW w \in Work, WorkStep(w)
        PROVE  pins' = pins \/ pins' = Unpinned(work[w].demand)
    BY <2>2 DEF WorkStep, PromotionEnds, EndWork, EvictionEnds, CompleteWork, counters
  <2>3. ASSUME NEW u \in User, UserStep(u) PROVE pins' = pins \/ \E d : pins' = Pinned(d)
    BY <2>3 DEF UserStep, UserStarts, WriteStep, ReleaseStep, RequestResidency, StartWrite,
                BeginWork, ReleaseStarts, RequestReturns, WriteRefused, WriteResident,
                WriteImplicit, WriteEvicted, WritePromotes, WritePromoted, ReleaseChild,
                ReleaseEnds, ReleaseMarks, counters
  <2> QED BY <2>1, <2>2, <2>3 DEF Next, UserStep, vars, counters
<1> QED BY <1>1 DEF PinsTotal, Pinned, Unpinned

LEMMA CountsAreNaturals ==
    ASSUME RequestCounts, WorkCounts, Shapes, PinsTotal
    PROVE  TypeOK
<1>1. requests \in Nat /\ active \in Nat /\ \A t \in Tile : pins[t] \in Nat
  BY FlightsFinite, WorksFinite, FS_CardinalityType DEF RequestCounts, WorkCounts
<1> QED BY <1>1 DEF TypeOK, Shapes, PinsTotal

(* The part of the inductive invariant that any number of threads, with    *)
(* any number of them releasing, keeps true.                               *)
Accounts == Shapes /\ PinsTotal /\ RequestCounts /\ WorkCounts

LEMMA AccountsKept == ASSUME Accounts, [Next]_vars PROVE Accounts'
<1>1. Shapes' /\ PinsTotal'
  BY NextShapes, PinsStayTotal DEF Accounts
<1>2. CASE UNCHANGED vars
  BY <1>1, <1>2, SameFlightsCounts, SameWorksCounts
     DEF Accounts, vars, counters, SameFlights, SameWorks, InFlight, Pinning
<1> QED BY <1>1, <1>2, RequestStepCounts, WorkStepCounts, UserStepCounts DEF Accounts, Next, UserStep

LEMMA AccountsInvariant == Spec => []Accounts
<1>1. Init => Accounts
  BY InitShapes, InitCounts DEF Accounts, Init, PinsTotal
<1> QED BY <1>1, AccountsKept, PTL DEF Spec

(* The state has the declared types at every moment; in particular no      *)
(* counter is ever decremented below zero.                                 *)
THEOREM TypeCorrect == Spec => []TypeOK
  BY AccountsInvariant, CountsAreNaturals, PTL DEF Accounts

(* _pending_tiles, _pending_requests, _active_work_requests and            *)
(* _pin_counts agree with the requests and works in progress at every      *)
(* moment, on every path in and out of them, for any number of threads.    *)
THEOREM CountersStayExact == Spec => []CountersExact
  BY AccountsInvariant, CountsAreExact, PTL DEF Accounts
-----------------------------------------------------------------------------
(* The tiles.  A release concurrent with other threads breaks what follows *)
(* (the run of ReleaseWaits shows how), so it is proved for the discipline *)
(* OneCaller, or for carriers nobody releases, where OneCaller is vacuous. *)

(* RequestShape, for one request.                                          *)
Deciding(r) == InFlight(r) /\ req[r].phase # "committed"
Shaped(r) ==
    /\ req[r].todo \union Staged(r) \union req[r].fills \subseteq req[r].tiles
    /\ req[r].phase # "staging" => req[r].todo = {}
    /\ \A t \in Staged(r) : req[r].copy[t] = Source(req[r].kind, t)
    /\ req[r].kind = "promote" =>
          /\ \A t \in req[r].todo \union Staged(r) : primary[t] = None /\ secondary[t] # None
          /\ \A t \in req[r].fills : primary[t] = None /\ secondary[t] = None /\ t \in implicit
    /\ req[r].kind = "evict" =>
          /\ req[r].fills = {}
          /\ \A t \in req[r].todo \union Staged(r) : primary[t] # None
          /\ ~req[r].failed => \A t \in req[r].tiles : primary[t] # None => t \in req[r].todo \union Staged(r)

(* No tile an eviction is going to take out of primary is pinned.          *)
Unguarded(r) == req[r].kind = "evict" => \A t \in req[r].todo \union Staged(r) : pins[t] = 0

(* Until a work enters its body, every tile it has to have in primary is   *)
(* there, or its promotion is going to bring it, or that has failed.       *)
Coming(r, t) == /\ Deciding(r) /\ req[r].kind = "promote"
                /\ t \in req[r].todo \union Staged(r) \union req[r].fills
Promised(w) == /\ work[w].promotion \in Request
               /\ \/ req[work[w].promotion].failed
                  \/ \A t \in ToPromote(work[w].demand) :
                        primary[t] # None \/ Coming(work[w].promotion, t)

(* A release in progress has met no error only if every child of a record  *)
(* is released already or still to come; afterwards there are none.        *)
Emptying(u) == /\ call[u].op = "release" /\ ~call[u].failed => Held \subseteq call[u].todo \union gone
               /\ call[u].op = "mark" => Held = {} /\ implicit = {}

Decisions == \A r \in Request : Deciding(r) => Shaped(r) /\ Unguarded(r)
Committed == \A r \in Request : req[r].phase = "committed" => ~req[r].failed /\ AllArrived(r)
Promises == /\ \A w \in Work : work[w].phase = "promoting" => Promised(w)
            /\ BodyResident

(* What a step does to the tiles.                                          *)
Materializes(u) ==
    /\ Looping(u) /\ Open(call[u].tile)
    /\ primary[call[u].tile] = None /\ secondary[call[u].tile] = None /\ call[u].tile \in implicit
    /\ primary' = [primary EXCEPT ![call[u].tile] = [s \in Slot |-> Zero]]
    /\ implicit' = implicit \ {call[u].tile}
    /\ UNCHANGED <<secondary, dirty, gone, counters, released, req, work, call, wrote>>
Clears(u) == ReleaseEnds(u) /\ ~call[u].failed
Quiet == UNCHANGED <<primary, secondary, implicit, dirty>>

LEMMA TileSteps ==
    ASSUME [Next]_vars
    PROVE  \/ Quiet
           \/ \E r \in Request : CommitTransition(r)
           \/ \E u \in User : WriteResident(u) \/ Materializes(u) \/ Clears(u)
<1> USE DEF Quiet, tiles
<1>1. ASSUME NEW r \in Request, RequestStep(r) PROVE Quiet \/ CommitTransition(r)
  BY <1>1 DEF RequestStep, StageTransfer, MoveEnds, FirstStageFails, LaterStageFails,
              SubmitWorker, FailTransition, FinishTransition
<1>2. ASSUME NEW w \in Work, WorkStep(w) PROVE Quiet
  BY <1>2 DEF WorkStep, PromotionEnds, EndWork, EvictionEnds, CompleteWork
<1>3. ASSUME NEW u \in User, UserStep(u)
      PROVE  Quiet \/ WriteResident(u) \/ Materializes(u) \/ Clears(u)
  <2>1. CASE WriteImplicit(u)
    BY <2>1 DEF WriteImplicit, Materializes
  <2>2. CASE ReleaseStep(u)
    BY <2>2 DEF ReleaseStep, ReleaseChild, ReleaseEnds, ReleaseMarks, Clears
  <2>3. CASE UserStarts(u) \/ RequestReturns(u)
    BY <2>3 DEF UserStarts, RequestReturns, RequestResidency, StartWrite, BeginWork, ReleaseStarts
  <2> QED BY <1>3, <2>1, <2>2, <2>3 DEF UserStep, WriteStep, WriteRefused, WriteEvicted,
             WritePromotes, WritePromoted
<1>4. CASE UNCHANGED vars
  BY <1>4 DEF vars
<1> QED BY <1>1, <1>2, <1>3, <1>4 DEF Next, UserStep

(* The contents a commit installs.                                         *)
LEMMA CommittedContents ==
    ASSUME Shapes, NEW r \in Request
    PROVE  /\ [s \in Slot |-> Zero] \in Contents
           /\ None \notin Contents
           /\ \A t \in Staged(r) : t \in Tile /\ req[r].copy[t] \in Contents
           /\ req[r].fills \subseteq Tile /\ req[r].tiles \subseteq Tile
<1>1. req[r] \in Requests
  BY DEF Shapes
<1>2. \A t \in Staged(r) : t \in Tile /\ req[r].copy[t] \in Contents
  BY <1>1 DEF Staged, Requests
<1> QED BY <1>1, <1>2, TiledAssumption DEF Requests, Contents

(* A tile never gets a second home: no discipline is needed for that.      *)
LEMMA OneHomeKept == ASSUME Shapes, OneHome, [Next]_vars PROVE OneHome'
<1> USE DEF OneHome
<1>1. CASE Quiet
  BY <1>1 DEF Quiet
<1>2. ASSUME NEW r \in Request, CommitTransition(r) PROVE OneHome'
  <2> DEFINE new == Staged(r) \union req[r].fills
  <2>1. CASE CommitPromotion(r)
    BY <2>1, CommittedContents DEF CommitPromotion, Shapes
  <2>2. CASE CommitEviction(r)
    BY <2>2, CommittedContents DEF CommitEviction, Shapes
  <2> QED BY <1>2, <2>1, <2>2 DEF CommitTransition
<1>3. ASSUME NEW u \in User, WriteResident(u) PROVE OneHome'
  <2> DEFINE t == call[u].tile
  <2>1. t \in Tile /\ primary[t] \in Contents /\ UNCHANGED secondary
    BY <1>3, WriteCall DEF WriteResident, Looping, Shapes
  <2>2. /\ primary' = [primary EXCEPT ![t] = [primary[t] EXCEPT ![call[u].slot] = call[u].val]]
        /\ dirty' = dirty \union {t} /\ implicit' = implicit \ {t}
    BY <1>3 DEF WriteResident
  <2>3. [primary[t] EXCEPT ![call[u].slot] = call[u].val] \in Contents
    BY <1>3, <2>1, WriteCall DEF WriteResident, Looping, Shapes, Contents
  <2> HIDE DEF t
  <2> HIDE DEF OneHome
  <2>4. primary'[t] # None /\ \A x \in Tile \ {t} : primary'[x] = primary[x]
    BY <2>1, <2>2, <2>3, CommittedContents, TiledAssumption DEF Shapes
  <2>5. primary[t] # None
    BY <2>1, TiledAssumption
  <2> QED BY <2>1, <2>2, <2>4, <2>5 DEF OneHome, Shapes
<1>4. ASSUME NEW u \in User, Materializes(u) PROVE OneHome'
  <2> DEFINE t == call[u].tile
  <2>1. t \in Tile
    BY <1>4, WriteCall DEF Materializes, Looping, Shapes
  <2>2. /\ primary' = [primary EXCEPT ![t] = [s \in Slot |-> Zero]]
        /\ implicit' = implicit \ {t} /\ UNCHANGED <<secondary, dirty>> /\ secondary[t] = None
    BY <1>4 DEF Materializes
  <2>3. [s \in Slot |-> Zero] # None
    BY TiledAssumption DEF Contents
  <2> HIDE DEF t
  <2> QED BY <2>1, <2>2, <2>3 DEF Shapes
<1>5. ASSUME NEW u \in User, Clears(u) PROVE OneHome'
  BY <1>5 DEF Clears, ReleaseEnds, NoCopy
<1> QED BY TileSteps, <1>1, <1>2, <1>3, <1>4, <1>5

(* A pinned tile is counted; with no request and no work counted there is  *)
(* none.                                                                   *)
LEMMA PinnedCounted ==
    ASSUME WorkCounts, NEW w \in Work, Pinning(w), NEW t \in Tile, t \in Protected(work[w].demand)
    PROVE  pins[t] # 0
<1>1. w \in Pinners(t)
  BY DEF Pinners
<1>2. Cardinality(Pinners(t)) # 0
  BY <1>1, WorksFinite, FS_EmptySet
<1> QED BY <1>2 DEF WorkCounts

LEMMA NothingCounted ==
    ASSUME RequestCounts, WorkCounts, requests = 0, active = 0
    PROVE  /\ \A r \in Request : ~InFlight(r)
           /\ \A w \in Work : work[w].phase = "idle"
<1>1. Flights = {} /\ Busy = {}
  BY FlightsFinite, WorksFinite, FS_EmptySet DEF RequestCounts, WorkCounts
<1> QED BY <1>1 DEF Flights, Busy

(* What a write does to the call of its thread.                            *)
LEMMA WriteStepCalls ==
    ASSUME Shapes, NEW u \in User, WriteStep(u)
    PROVE  /\ call[u].op \in {"write", "promote"}
           /\ call'[u].op \in {"idle", "write", "promote"}
           /\ \A v \in User \ {u} : call'[v] = call[v]
<1> USE DEF Shapes
<1>1. call[u].op \in {"write", "promote"}
  BY DEF WriteStep, WriteRefused, WriteResident, WriteImplicit, WriteEvicted, WritePromotes,
         WritePromoted, Looping
<1>2. \/ call' = call
      \/ call' = [call EXCEPT ![u] = IdleCall]
      \/ call' = [call EXCEPT ![u] = [call[u] EXCEPT !.op = "promote"]]
      \/ \E r : call' = [call EXCEPT ![u] = [call[u] EXCEPT !.handle = r]]
      \/ call' = [call EXCEPT ![u] = [call[u] EXCEPT !.op = "write", !.handle = None]]
  BY DEF WriteStep, WriteRefused, WriteResident, WriteImplicit, WriteEvicted, WritePromotes,
         WritePromoted, WriteReturns
<1>3. /\ [call[u] EXCEPT !.op = "promote"].op = "promote"
      /\ \A r : [call[u] EXCEPT !.handle = r].op = call[u].op
      /\ [call[u] EXCEPT !.op = "write", !.handle = None].op = "write"
  BY <1>1 DEF Calls
<1>4. ASSUME NEW k, call' = [call EXCEPT ![u] = k]
      PROVE  call'[u] = k /\ \A v \in User \ {u} : call'[v] = call[v]
  BY <1>4
<1>5. IdleCall.op = "idle"
  BY DEF IdleCall
<1>6. CASE call' = call
  BY <1>1, <1>6
<1>7. ASSUME NEW k, call' = [call EXCEPT ![u] = k], k.op \in {"idle", "write", "promote"}
      PROVE  /\ call'[u].op \in {"idle", "write", "promote"}
             /\ \A v \in User \ {u} : call'[v] = call[v]
  BY <1>4, <1>7
<1>8. CASE \E r : call' = [call EXCEPT ![u] = [call[u] EXCEPT !.handle = r]]
  <2>1. PICK r : call' = [call EXCEPT ![u] = [call[u] EXCEPT !.handle = r]]
    BY <1>8
  <2>2. [call[u] EXCEPT !.handle = r].op \in {"idle", "write", "promote"}
    BY <1>1, <1>3
  <2> QED BY <1>1, <1>7, <2>1, <2>2
<1> QED BY <1>1, <1>2, <1>3, <1>5, <1>6, <1>7, <1>8

(* No request is in flight during a release, so no worker touches it.      *)
LEMMA RequestStepCalls ==
    ASSUME ReleaseAlone, NEW r \in Request, RequestStep(r), NEW u \in User
    PROVE  call[u].op \notin {"release", "mark"} /\ call'[u] = call[u]
<1>1. InFlight(r)
  BY DEF RequestStep, StageTransfer, MoveEnds, FirstStageFails, LaterStageFails,
         SubmitWorker, CommitTransition, FailTransition, FinishTransition, InFlight
<1>2. call[u].op \notin {"release", "mark"}
  BY <1>1 DEF ReleaseAlone
<1>3. call' = call \/ \E C : Detach(C)
  BY DEF RequestStep, StageTransfer, MoveEnds, FirstStageFails, LaterStageFails,
         SubmitWorker, CommitTransition, FailTransition, FinishTransition,
         CommitPromotion, CommitEviction
<1> QED BY <1>2, <1>3 DEF Detach

LEMMA UserStepCalls ==
    ASSUME Shapes, NEW u \in User, UserStep(u), NEW v \in User \ {u}
    PROVE  call'[v] = call[v]
  BY DEF Shapes, UserStep, UserStarts, WriteStep, ReleaseStep, RequestResidency, StartWrite,
         BeginWork, ReleaseStarts, RequestReturns, WriteRefused, WriteResident,
         WriteImplicit, WriteEvicted, WritePromotes, WritePromoted, ReleaseChild,
         ReleaseEnds, ReleaseMarks, WriteReturns

(* The discipline: nobody else is running while a carrier is released.     *)
LEMMA AloneKept ==
    ASSUME OneCaller, Accounts, ReleaseAlone, [Next]_vars
    PROVE  ReleaseAlone'
<1> DEFINE Releasing(u) == call[u].op \in {"release", "mark"}
           NoOther == /\ \A r \in Request : ~InFlight(r)
                      /\ \A w \in Work : work[w].phase = "idle"
<1> USE DEF Accounts, Shapes
<1>1. ASSUME NEW r \in Request, RequestStep(r) PROVE ReleaseAlone'
  BY <1>1, RequestStepCalls DEF ReleaseAlone
<1>2. ASSUME NEW w \in Work, WorkStep(w) PROVE ReleaseAlone'
  <2>1. work[w].phase # "idle" /\ call' = call
    BY <1>2 DEF WorkStep, PromotionEnds, EndWork, EvictionEnds, CompleteWork
  <2> QED BY <2>1 DEF ReleaseAlone
<1>3. ASSUME NEW u \in User, UserStep(u) PROVE ReleaseAlone'
  <2>1. \A v \in User \ {u} : call'[v] = call[v]
    BY <1>3, UserStepCalls
  <2>2. ASSUME NEW v \in User, Releasing(v)' PROVE v = u
    BY <2>1, <2>2 DEF ReleaseAlone, OneCaller
  <2>3. CASE u \in Releaser /\ ReleaseStarts(u)
    BY <2>2, <2>3, NothingCounted DEF ReleaseStarts, ReleaseAlone, UserStarts, InFlight
  <2>4. CASE ReleaseStep(u)
    <3>1. Releasing(u) /\ UNCHANGED <<req, work>>
      BY <2>4 DEF ReleaseStep, ReleaseChild, ReleaseEnds, ReleaseMarks
    <3> QED BY <2>2, <3>1 DEF ReleaseAlone, InFlight
  <2>5. CASE \/ RequestReturns(u) \/ WriteStep(u)
             \/ \E r \in Request, k \in Kind, T \in Prefetch : RequestResidency(u, r, k, T)
             \/ \E t \in Tile, s \in Slot, v \in Val : StartWrite(u, t, s, v)
             \/ \E w \in Work, d \in Demand : BeginWork(u, w, d)
    <3>1. ~Releasing(u)'
      <4>1. CASE WriteStep(u)
        BY <4>1, WriteStepCalls
      <4>2. CASE \/ RequestReturns(u)
                 \/ \E r \in Request, k \in Kind, T \in Prefetch : RequestResidency(u, r, k, T)
                 \/ \E t \in Tile, s \in Slot, v \in Val : StartWrite(u, t, s, v)
        BY <4>2 DEF RequestReturns, RequestResidency, StartWrite, IdleCall
      <4>3. ASSUME NEW w \in Work, NEW d \in Demand, BeginWork(u, w, d) PROVE ~Releasing(u)'
        BY <4>3 DEF BeginWork, IdleCall
      <4> QED BY <2>5, <4>1, <4>2, <4>3
    <3> QED BY <2>2, <3>1 DEF ReleaseAlone
  <2> QED BY <1>3, <2>3, <2>4, <2>5 DEF UserStep, UserStarts, ReleaseAlone
<1>4. CASE UNCHANGED vars
  BY <1>4 DEF vars, ReleaseAlone, InFlight
<1> QED BY <1>1, <1>2, <1>3, <1>4 DEF Next, UserStep

(* What was decided about a request is about its own tiles only.           *)
SameTile(t) == /\ primary'[t] = primary[t] /\ secondary'[t] = secondary[t]
               /\ t \in implicit' <=> t \in implicit

LEMMA ShapedKept ==
    ASSUME Shapes, NEW r \in Request, Shaped(r), req'[r] = req[r],
           \A t \in req[r].tiles : SameTile(t)
    PROVE  Shaped(r)'
<1>1. Staged(r)' = Staged(r) /\ Staged(r) \subseteq req[r].tiles
  BY DEF Staged, Shaped
<1>2. req[r].todo \union Staged(r) \union req[r].fills \subseteq req[r].tiles
  BY DEF Shaped
<1>3. \A t \in Staged(r) : Source(req[r].kind, t)' = Source(req[r].kind, t)
  BY <1>1 DEF SameTile, Source
<1> QED BY <1>1, <1>2, <1>3 DEF Shaped, SameTile

LEMMA UnguardedKept ==
    ASSUME NEW r \in Request, Unguarded(r), req'[r] = req[r],
           req[r].kind = "evict" => \A t \in req[r].todo \union Staged(r) : pins'[t] = pins[t]
    PROVE  Unguarded(r)'
  BY DEF Unguarded, Staged

(* A request as it leaves the lock.                                        *)
LEMMA AdmittedDecides ==
    ASSUME Shapes, OneHome, UNCHANGED tiles,
           NEW r \in Free, NEW k \in Kind, NEW T \in SUBSET Tile,
           Admit(r, k, T) \/ LaunchLocked(r, k, T), Deciding(r)',
           k = "evict" => \A t \in Moves(k, T) : pins'[t] = 0
    PROVE  Shaped(r)' /\ Unguarded(r)'
<1>a. r \in Request /\ req \in [Request -> Requests]
  BY DEF Free, Shapes
<1>b. Moves(k, T) \subseteq T /\ Fills(k, T) \subseteq T /\ T \subseteq Tile
  BY DEF Moves, Fills
<1>c. primary' = primary /\ secondary' = secondary /\ implicit' = implicit
  BY DEF tiles
<1>d. Moves(k, T) \union Fills(k, T) # {}
  BY <1>a DEF Admit, LaunchLocked, Deciding, InFlight, Blank
<1>1. CASE Admit(r, k, T)
  <2>1. req'[r] = Admitted(k, T)
    BY <1>1, <1>a, <1>d DEF Admit
  <2>2. /\ req'[r].phase = "staging" /\ req'[r].kind = k /\ req'[r].tiles = T
        /\ req'[r].todo = Moves(k, T) /\ req'[r].fills = Fills(k, T) /\ req'[r].copy = NoCopy
    BY <2>1 DEF Admitted, Blank
  <2>3. Staged(r)' = {}
    BY <2>2 DEF Staged, NoCopy
  <2>4. Shaped(r)'
    BY <1>b, <1>c, <2>2, <2>3 DEF Shaped, Moves, Fills, Kind
  <2> QED BY <2>2, <2>3, <2>4 DEF Unguarded
<1>2. CASE LaunchLocked(r, k, T)
  <2>1. PICK S \in Stageable(k, T) : req' = [req EXCEPT ![r] = Submitted(k, T, S)]
    BY <1>2, <1>d DEF LaunchLocked
  <2>2. req'[r] = Submitted(k, T, S) /\ S \subseteq Moves(k, T)
    BY <2>1, <1>a DEF Stageable
  <2>3. /\ req'[r].phase = "moving" /\ req'[r].kind = k /\ req'[r].tiles = T
        /\ req'[r].todo = {} /\ req'[r].fills = Fills(k, T)
        /\ req'[r].copy = [t \in Tile |-> IF t \in S THEN Source(k, t) ELSE None]
        /\ req'[r].failed = (S # Moves(k, T))
    BY <2>2 DEF Submitted, Admitted, Blank
  <2>4. Staged(r)' = S
    BY <1>b, <2>2, <2>3 DEF Staged, Source, Moves
  <2>5. \A t \in S : req'[r].copy[t] = Source(k, t)'
    BY <1>b, <1>c, <2>2, <2>3 DEF Source
  <2>6. Shaped(r)'
    BY <1>b, <1>c, <2>2, <2>3, <2>4, <2>5 DEF Shaped, Moves, Fills, Kind
  <2> QED BY <2>2, <2>3, <2>4, <2>6 DEF Unguarded
<1> QED BY <1>1, <1>2

(* Requests in flight share no tile.                                       *)
LEMMA OwnTiles ==
    ASSUME RequestCounts, NEW q \in Request, NEW r \in Request, q # r, InFlight(q), InFlight(r)
    PROVE  req[q].tiles \intersect req[r].tiles = {} /\ req[r].tiles \subseteq pending
  BY DEF RequestCounts, Flights

(* A commit changes the tiles of its request only.                         *)
LEMMA CommitChanges ==
    ASSUME Shapes, NEW r \in Request, Shaped(r), CommitTransition(r), NEW t \in Tile \ req[r].tiles
    PROVE  SameTile(t)
<1>1. Staged(r) \union req[r].fills \subseteq req[r].tiles
  BY DEF Shaped
<1> QED BY <1>1 DEF CommitTransition, CommitPromotion, CommitEviction, SameTile, Shapes

LEMMA RequestStepDecides ==
    ASSUME Accounts, Decisions, NEW r \in Request, RequestStep(r)
    PROVE  Decisions'
<1> USE DEF Accounts
<1>a. req \in [Request -> Requests] /\ req[r] \in Requests /\ pins' = pins
  BY DEF Shapes, RequestStep, StageTransfer, MoveEnds, FirstStageFails, LaterStageFails,
         SubmitWorker, CommitTransition, FailTransition, FinishTransition, counters
<1>b. /\ InFlight(r)
      /\ \A q \in Request \ {r} : req'[q] = req[q]
  BY <1>a DEF RequestStep, StageTransfer, MoveEnds, FirstStageFails, LaterStageFails,
         SubmitWorker, CommitTransition, FailTransition, FinishTransition, InFlight
<1>1. ASSUME NEW q \in Request \ {r}, Deciding(q)' PROVE Shaped(q)' /\ Unguarded(q)'
  <2>1. req'[q] = req[q] /\ Deciding(q) /\ InFlight(q)
    BY <1>b, <1>1 DEF Deciding, InFlight
  <2>2. Shaped(q) /\ Unguarded(q)
    BY <2>1 DEF Decisions
  <2>3. req[q].tiles \intersect req[r].tiles = {} /\ req[q].tiles \subseteq Tile
    BY <1>b, <2>1, OwnTiles DEF Shapes, Requests
  <2>4. ASSUME NEW t \in req[q].tiles PROVE SameTile(t)
    <3>1. CASE CommitTransition(r)
      <4>1. Shaped(r)
        BY <1>b, <3>1 DEF Decisions, Deciding, CommitTransition
      <4> QED BY <2>3, <3>1, <4>1, CommitChanges
    <3>2. CASE ~CommitTransition(r)
      BY <3>2 DEF RequestStep, StageTransfer, MoveEnds, FirstStageFails, LaterStageFails,
         SubmitWorker, FailTransition, FinishTransition, tiles, SameTile
    <3> QED BY <3>1, <3>2
  <2> QED BY <1>a, <2>1, <2>2, <2>4, ShapedKept, UnguardedKept
<1>2. ASSUME Deciding(r)' PROVE Shaped(r)' /\ Unguarded(r)'
  <2>1. req[r].phase # "committed" => Shaped(r) /\ Unguarded(r)
    BY <1>b DEF Decisions, Deciding
  <2>2. ASSUME NEW t \in Tile, StageTransfer(r, t) PROVE Shaped(r)' /\ Unguarded(r)'
    <3>1. /\ req'[r].phase = req[r].phase /\ req'[r].kind = req[r].kind
          /\ req'[r].tiles = req[r].tiles /\ req'[r].fills = req[r].fills
          /\ req'[r].failed = req[r].failed /\ req'[r].todo = req[r].todo \ {t}
          /\ req'[r].copy = [req[r].copy EXCEPT ![t] = Source(req[r].kind, t)]
          /\ req[r].copy \in [Tile -> Contents \union {None}] /\ req[r].kind \in Kind
      BY <1>a, <2>2 DEF StageTransfer, Requests
    <3>2. t \in req[r].todo /\ UNCHANGED tiles /\ req[r].phase = "staging"
      BY <2>2 DEF StageTransfer
    <3>3. Shaped(r) /\ Unguarded(r)
      BY <2>1, <3>2
    <3>4. Source(req[r].kind, t) # None
      BY <3>1, <3>2, <3>3 DEF Shaped, Source, Kind
    <3>5. Staged(r)' = Staged(r) \union {t}
      BY <3>1, <3>4 DEF Staged
    <3>6. req'[r].todo \union Staged(r)' = req[r].todo \union Staged(r)
      BY <3>1, <3>2, <3>5
    <3>7. \A x \in Tile : Source(req[r].kind, x)' = Source(req'[r].kind, x)
      BY <3>1, <3>2 DEF Source, tiles
    <3>8. \A x \in Staged(r)' : req'[r].copy[x] = Source(req[r].kind, x)'
      BY <3>1, <3>2, <3>3, <3>5 DEF Shaped, Source, tiles, Staged
    <3>9. Shaped(r)'
      BY <3>1, <3>2, <3>3, <3>6, <3>8 DEF Shaped, tiles
    <3> QED BY <1>a, <3>1, <3>3, <3>6, <3>9 DEF Unguarded
  <2>3. CASE \/ \E t \in Tile : MoveEnds(r, t)
             \/ LaterStageFails(r) \/ SubmitWorker(r)
    <3> DEFINE Advances == /\ req[r].phase # "committed" /\ UNCHANGED tiles
                           /\ req'[r].kind = req[r].kind /\ req'[r].tiles = req[r].tiles
                           /\ req'[r].fills = req[r].fills /\ req'[r].copy = req[r].copy
                           /\ req'[r].todo \subseteq req[r].todo
                           /\ req'[r].phase # "staging" => req'[r].todo = {} \/ req'[r].phase = req[r].phase
                           /\ ~req'[r].failed => ~req[r].failed /\ req'[r].todo = req[r].todo
    <3>1. ASSUME NEW t \in Tile, MoveEnds(r, t) PROVE Advances
      <4>1. PICK bad \in BOOLEAN :
               req' = [req EXCEPT ![r] = [req[r] EXCEPT !.arrived = @ \union {t}, !.failed = @ \/ bad]]
        BY <3>1 DEF MoveEnds
      <4>2. req'[r] = [req[r] EXCEPT !.arrived = @ \union {t}, !.failed = @ \/ bad]
        BY <4>1, <1>a
      <4>3. req[r].failed => req'[r].failed
        BY <4>2, <1>a DEF Requests
      <4>4. /\ req'[r].kind = req[r].kind /\ req'[r].tiles = req[r].tiles
            /\ req'[r].fills = req[r].fills /\ req'[r].copy = req[r].copy
            /\ req'[r].todo = req[r].todo /\ req'[r].phase = req[r].phase
        BY <4>2, <1>a DEF Requests
      <4> QED BY <1>2, <3>1, <4>3, <4>4 DEF MoveEnds, Deciding
    <3>2. ASSUME LaterStageFails(r) PROVE Advances
      <4>1. req' = [req EXCEPT ![r] = [req[r] EXCEPT !.todo = {}, !.failed = TRUE]]
        BY <3>2 DEF LaterStageFails
      <4>2. req'[r] = [req[r] EXCEPT !.todo = {}, !.failed = TRUE]
        BY <4>1, <1>a
      <4> QED BY <1>a, <3>2, <4>2 DEF LaterStageFails, Requests
    <3>3. ASSUME SubmitWorker(r) PROVE Advances
      <4>1. \/ req' = [req EXCEPT ![r] = [req[r] EXCEPT !.phase = "moving"]]
            \/ req' = [req EXCEPT ![r] = [req[r] EXCEPT !.phase = "aborting", !.failed = TRUE]]
        BY <3>3 DEF SubmitWorker
      <4>2. \/ req'[r] = [req[r] EXCEPT !.phase = "moving"]
            \/ req'[r] = [req[r] EXCEPT !.phase = "aborting", !.failed = TRUE]
        BY <4>1, <1>a
      <4>3. req[r].phase = "staging" /\ req[r].todo = {} /\ UNCHANGED tiles
        BY <3>3 DEF SubmitWorker
      <4>4. CASE req'[r] = [req[r] EXCEPT !.phase = "moving"]
        BY <1>a, <4>3, <4>4 DEF Requests
      <4>5. CASE req'[r] = [req[r] EXCEPT !.phase = "aborting", !.failed = TRUE]
        BY <1>a, <4>3, <4>5 DEF Requests
      <4> QED BY <4>2, <4>4, <4>5
    <3>4. Advances
      BY <2>3, <3>1, <3>2, <3>3
    <3>5. Shaped(r) /\ Unguarded(r) /\ Staged(r)' = Staged(r)
      BY <2>1, <3>4 DEF Staged
    <3> HIDE DEF Advances
    <3>6. Shaped(r)'
      BY <1>a, <3>4, <3>5 DEF Advances, Shaped, tiles, Source
    <3> QED BY <1>a, <3>4, <3>5, <3>6 DEF Advances, Unguarded
  <2>4. CASE FirstStageFails(r) \/ CommitTransition(r) \/ FailTransition(r) \/ FinishTransition(r)
    <3>1. req'[r].phase \in {"committed", "done"}
      <4>1. CASE CommitTransition(r)
        BY <1>a, <4>1 DEF CommitTransition, Requests
      <4>2. CASE FirstStageFails(r) \/ FailTransition(r) \/ FinishTransition(r)
        BY <1>a, <4>2 DEF FirstStageFails, FailTransition, FinishTransition, Blank
      <4> QED BY <2>4, <4>1, <4>2
    <3> QED BY <1>2, <3>1 DEF Deciding, InFlight
  <2> QED BY <2>2, <2>3, <2>4 DEF RequestStep
<1> QED BY <1>1, <1>2 DEF Decisions

(* Steps that leave the requests and the pins alone decide nothing.        *)
LEMMA DecisionsKept ==
    ASSUME Shapes, Decisions, UNCHANGED <<req, pins>>,
           \A t \in pending : SameTile(t), RequestCounts
    PROVE  Decisions'
<1>1. ASSUME NEW r \in Request, Deciding(r)' PROVE Shaped(r)' /\ Unguarded(r)'
  <2>1. Deciding(r) /\ InFlight(r) /\ Shaped(r) /\ Unguarded(r)
    BY <1>1 DEF Deciding, InFlight, Decisions
  <2>2. \A t \in req[r].tiles : SameTile(t)
    BY <2>1 DEF RequestCounts, Flights
  <2> QED BY <2>1, <2>2, ShapedKept, UnguardedKept
<1> QED BY <1>1 DEF Decisions

(* One more request, on tiles that are not pending.                        *)
LEMMA LaunchDecides ==
    ASSUME Accounts, OneHome, Decisions, UNCHANGED tiles,
           NEW r \in Free, NEW k \in Kind, NEW T \in SUBSET Tile,
           Admit(r, k, T) \/ LaunchLocked(r, k, T),
           k = "evict" => \A t \in Moves(k, T) : pins'[t] = 0,
           \A q \in Request : Deciding(q) /\ req[q].kind = "evict" =>
               \A t \in req[q].todo \union Staged(q) : pins'[t] = pins[t]
    PROVE  Decisions'
<1>1. r \in Request /\ \A q \in Request \ {r} : req'[q] = req[q]
  BY DEF Free, Accounts, Shapes, Admit, LaunchLocked
<1>2. ASSUME NEW q \in Request \ {r}, Deciding(q)' PROVE Shaped(q)' /\ Unguarded(q)'
  <2>1. req'[q] = req[q] /\ Deciding(q)
    BY <1>1, <1>2 DEF Deciding, InFlight
  <2>2. Shaped(q) /\ Unguarded(q)
    BY <2>1 DEF Decisions
  <2>3. \A t \in req[q].tiles : SameTile(t)
    BY DEF SameTile, tiles
  <2> QED BY <2>1, <2>2, <2>3, ShapedKept, UnguardedKept DEF Accounts
<1>3. Deciding(r)' => Shaped(r)' /\ Unguarded(r)'
  BY AdmittedDecides DEF Accounts
<1> QED BY <1>2, <1>3 DEF Decisions

LEMMA WorkStepDecides ==
    ASSUME Accounts, OneHome, Decisions, NEW w \in Work, WorkStep(w)
    PROVE  Decisions'
<1> USE DEF Accounts
<1>a. work[w].demand \in Demands /\ UNCHANGED tiles /\ \A t \in pending : SameTile(t)
  BY DEF Shapes, Leases, WorkStep, PromotionEnds, EndWork, EvictionEnds, CompleteWork, tiles, SameTile
<1>1. CASE PromotionEnds(w) \/ EvictionEnds(w) \/ CompleteWork(w)
  BY <1>1, <1>a, DecisionsKept DEF PromotionEnds, EvictionEnds, CompleteWork, counters
<1>2. ASSUME NEW apply \in BOOLEAN, EndWork(w, apply) PROVE Decisions'
  <2> DEFINE d == work[w].demand
             later == deferred \union (IF apply THEN d.evict ELSE {})
             ready == {t \in later : Unpinned(d)[t] = 0 /\ t \notin pending}
  <2>1. ready \in SUBSET Tile
    BY <1>a, DemandShape DEF Shapes
  <2>2. pins' = Unpinned(d) /\ Pinning(w)
    BY <1>2 DEF EndWork, Pinning
  <2>3. \A t \in Tile : pins[t] = 0 => pins'[t] = pins[t]
    BY <2>2, PinnedCounted DEF Unpinned
  <2>4. ASSUME NEW q \in Request, Deciding(q), req[q].kind = "evict",
               NEW t \in req[q].todo \union Staged(q)
        PROVE  pins'[t] = pins[t]
    <3>1. Unguarded(q) /\ t \in Tile
      BY <2>4 DEF Decisions, Shapes, Requests, Staged
    <3> QED BY <2>3, <2>4, <3>1 DEF Unguarded
  <2>5. CASE UNCHANGED req
    <3>1. ASSUME NEW q \in Request, Deciding(q)' PROVE Shaped(q)' /\ Unguarded(q)'
      <4>1. Deciding(q) /\ req'[q] = req[q]
        BY <2>5, <3>1 DEF Deciding, InFlight
      <4>2. Shaped(q) /\ Unguarded(q)
        BY <4>1 DEF Decisions
      <4>3. \A t \in req[q].tiles : SameTile(t)
        BY <1>a DEF tiles, SameTile
      <4> QED BY <2>4, <4>1, <4>2, <4>3, ShapedKept, UnguardedKept
    <3> QED BY <3>1 DEF Decisions
  <2>6. ASSUME NEW r \in Free, LaunchLocked(r, "evict", ready) PROVE Decisions'
    <3>1. \A t \in Moves("evict", ready) : pins'[t] = 0
      BY <2>2 DEF Moves
    <3> HIDE DEF ready
    <3> QED BY <1>a, <2>1, <2>4, <2>6, <3>1, LaunchDecides DEF Kind
  <2> QED BY <1>2, <2>5, <2>6 DEF EndWork
<1> QED BY <1>1, <1>2 DEF WorkStep

(* An admitted eviction moves no pinned tile.                              *)
LEMMA AdmissibleUnpinned ==
    ASSUME Shapes, PinsTotal, WorkCounts, NEW T \in SUBSET Tile, Admissible("evict", T, {}, pins)
    PROVE  \A t \in Moves("evict", T) : pins[t] = 0
<1>1. \A t \in Tile : pins[t] \in Nat
  BY WorksFinite, FS_CardinalityType DEF WorkCounts
<1> QED BY <1>1 DEF Admissible, Moves, Changes

LEMMA UserStepDecides ==
    ASSUME OneCaller, Accounts, OneHome, ReleaseAlone, Decisions, NEW u \in User, UserStep(u)
    PROVE  Decisions'
<1> USE DEF Accounts
<1>1. ASSUME NEW r \in Request, NEW k \in Kind, NEW T \in Prefetch, RequestResidency(u, r, k, T)
      PROVE  Decisions'
  <2>1. T \in SUBSET Tile
    BY TiledAssumption
  <2>2. r \in Free /\ Admissible(k, T, {}, pins) /\ Admit(r, k, T) /\ UNCHANGED <<tiles, pins>>
    BY <1>1 DEF RequestResidency, Admit
  <2>3. k = "evict" => \A t \in Moves(k, T) : pins'[t] = 0
    BY <2>1, <2>2, AdmissibleUnpinned
  <2> QED BY <2>1, <2>2, <2>3, LaunchDecides
<1>2. ASSUME NEW w \in Work, NEW d \in Demand, BeginWork(u, w, d) PROVE Decisions'
  <2>1. d \in Demands /\ ToPromote(d) \in SUBSET Tile
    BY TiledAssumption, DemandShape
  <2>2. PICK r \in Free : LaunchLocked(r, "promote", ToPromote(d))
    BY <1>2 DEF BeginWork
  <2>3. pins' = Pinned(d) /\ UNCHANGED tiles /\ pending \intersect Protected(d) = {}
    BY <1>2 DEF BeginWork
  <2>4. ASSUME NEW q \in Request, Deciding(q), req[q].kind = "evict",
               NEW t \in req[q].todo \union Staged(q)
        PROVE  pins'[t] = pins[t]
    <3>1. t \in req[q].tiles /\ InFlight(q) /\ t \in Tile
      BY <2>4 DEF Decisions, Shaped, Deciding, Shapes, Requests, Staged
    <3>2. t \in pending
      BY <3>1 DEF RequestCounts, Flights
    <3> QED BY <2>3, <3>1, <3>2 DEF Pinned
  <2> QED BY <2>1, <2>2, <2>3, <2>4, LaunchDecides DEF Kind
<1>3. CASE WritePromotes(u)
  <2>1. UNCHANGED <<tiles, pins>>
    BY <1>3 DEF WritePromotes
  <2>2. \A t \in pending : SameTile(t)
    BY <2>1 DEF tiles, SameTile
  <2>3. CASE UNCHANGED req
    BY <2>1, <2>2, <2>3, DecisionsKept
  <2>4. ASSUME NEW r \in Free, Admit(r, "promote", {call[u].tile}) PROVE Decisions'
    <3>1. call[u].tile \in Tile
      BY <1>3, WriteCall DEF WritePromotes, Shapes
    <3>2. {call[u].tile} \in SUBSET Tile
      BY <3>1
    <3> QED BY <2>1, <2>4, <3>2, LaunchDecides DEF Kind
  <2> QED BY <1>3, <2>3, <2>4 DEF WritePromotes
<1>4. CASE WriteResident(u) \/ WriteImplicit(u)
  <2>1. call[u].tile \notin pending /\ UNCHANGED <<req, pins>>
    BY <1>4 DEF WriteResident, WriteImplicit, Open, counters
  <2>2. \A t \in Tile \ {call[u].tile} : SameTile(t)
    BY <1>4 DEF WriteResident, WriteImplicit, SameTile, Shapes
  <2> QED BY <2>1, <2>2, DecisionsKept DEF Shapes
<1>5. CASE ReleaseEnds(u)
  <2>1. \A r \in Request : ~InFlight(r) /\ req' = req
    BY <1>5 DEF ReleaseEnds, ReleaseAlone
  <2> QED BY <2>1 DEF Decisions, Deciding, InFlight
<1>6. CASE \/ RequestReturns(u) \/ WriteRefused(u) \/ WriteEvicted(u) \/ WritePromoted(u)
           \/ ReleaseStarts(u) \/ ReleaseMarks(u)
           \/ \E c \in Child : ReleaseChild(u, c)
           \/ \E t \in Tile, s \in Slot, v \in Val : StartWrite(u, t, s, v)
  <2>1. UNCHANGED <<req, pins, primary, secondary, implicit>>
    BY <1>6 DEF RequestReturns, WriteRefused, WriteEvicted, WritePromoted, ReleaseStarts,
                ReleaseMarks, ReleaseChild, StartWrite, counters, tiles
  <2> QED BY <2>1, DecisionsKept DEF SameTile
<1> QED BY <1>1, <1>2, <1>3, <1>4, <1>5, <1>6 DEF UserStep, UserStarts, WriteStep, ReleaseStep
-----------------------------------------------------------------------------
(* The values.  A commit moves them and loses none.                        *)
LEMMA CommitKeepsValues ==
    ASSUME Shapes, OneHome, NEW r \in Request, Shaped(r), CommitTransition(r), NEW t \in Tile
    PROVE  /\ Logical(t)' = Logical(t)
           /\ req[r].kind = "promote" /\ primary[t] # None => primary'[t] # None
           /\ req[r].kind = "evict" /\ primary[t] # None /\ primary'[t] = None => t \in Staged(r)
           /\ req[r].kind = "promote" /\ t \in Staged(r) \union req[r].fills => primary'[t] # None
<1>1. /\ req[r].kind \in Kind /\ ~req[r].failed /\ req[r].todo = {}
      /\ Staged(r) \union req[r].fills \subseteq req[r].tiles /\ req[r].tiles \subseteq Tile
  BY DEF CommitTransition, Shapes, Requests, Shaped
<1>2. \A x \in Staged(r) : req[r].copy[x] = Source(req[r].kind, x) /\ req[r].copy[x] # None
  BY DEF Shaped, Staged
<1>3. [s \in Slot |-> Zero] # None
  BY CommittedContents
<1>4. CASE req[r].kind = "promote"
  <2>1. /\ \A x \in Staged(r) : primary[x] = None /\ secondary[x] # None /\ req[r].copy[x] = secondary[x]
        /\ \A x \in req[r].fills : primary[x] = None /\ secondary[x] = None /\ x \in implicit
    BY <1>2, <1>4 DEF Shaped, Source
  <2>2. CommitPromotion(r)
    BY <1>4 DEF CommitTransition
  <2> USE <1>1, <2>1, <2>2 DEF CommitPromotion, OneHome, Shapes
  <2>3. CASE t \in req[r].fills
    <3>1. primary'[t] = [s \in Slot |-> Zero] /\ secondary'[t] = None
      BY <2>3
    <3> QED BY <1>3, <1>4, <2>3, <3>1 DEF Logical
  <2>4. CASE t \in Staged(r) /\ t \notin req[r].fills
    <3>1. primary'[t] = req[r].copy[t]
      BY <2>4
    <3> QED BY <1>2, <1>4, <2>4, <3>1 DEF Logical
  <2>5. CASE t \notin Staged(r) \union req[r].fills
    <3>1. primary'[t] = primary[t] /\ secondary'[t] = secondary[t] /\ (t \in implicit' <=> t \in implicit)
      BY <2>5
    <3> QED BY <1>4, <2>5, <3>1 DEF Logical
  <2> QED BY <2>3, <2>4, <2>5
<1>5. CASE req[r].kind = "evict"
  <2>1. /\ \A x \in Staged(r) : primary[x] # None /\ req[r].copy[x] = primary[x]
        /\ \A x \in req[r].tiles : primary[x] # None => x \in Staged(r)
    BY <1>1, <1>2, <1>5 DEF Shaped, Source
  <2>2. CommitEviction(r)
    BY <1>5 DEF CommitTransition
  <2> USE <1>1, <2>1, <2>2 DEF CommitEviction, OneHome, Shapes
  <2>3. CASE t \in Staged(r)
    <3>1. primary'[t] = None /\ secondary'[t] = primary[t]
      BY <2>3
    <3> QED BY <1>2, <1>5, <2>3, <3>1 DEF Logical
  <2>4. CASE t \notin Staged(r)
    <3>1. primary'[t] = primary[t] /\ secondary'[t] = secondary[t] /\ (t \in implicit' <=> t \in implicit)
      BY <2>4
    <3> QED BY <1>5, <2>4, <3>1 DEF Logical
  <2> QED BY <2>3, <2>4
<1> QED BY <1>1, <1>4, <1>5 DEF Kind

(* What one thread or the workers may do to a pinned tile: nothing that    *)
(* changes its value or takes it out of primary.                           *)
LEMMA PinnedKept ==
    ASSUME Accounts, OneHome, ReleaseAlone, Decisions, [Next]_vars,
           NEW w \in Work, Pinning(w), NEW t \in Tile, t \in Protected(work[w].demand)
    PROVE  Logical(t)' = Logical(t) /\ (primary[t] # None => primary'[t] # None)
<1> USE DEF Accounts
<1>0. pins[t] # 0
  BY PinnedCounted
<1>1. CASE Quiet
  BY <1>1 DEF Quiet, Logical
<1>2. ASSUME NEW r \in Request, CommitTransition(r)
      PROVE  Logical(t)' = Logical(t) /\ (primary[t] # None => primary'[t] # None)
  <2>1. Shaped(r) /\ Unguarded(r) /\ req[r].kind \in Kind
    BY <1>2 DEF CommitTransition, Decisions, Deciding, InFlight, Shapes, Requests
  <2> QED BY <1>0, <1>2, <2>1, CommitKeepsValues DEF Unguarded, Kind
<1>3. ASSUME NEW u \in User, WriteResident(u) \/ Materializes(u)
      PROVE  Logical(t)' = Logical(t) /\ (primary[t] # None => primary'[t] # None)
  <2>1. t # call[u].tile
    BY <1>0, <1>3 DEF WriteResident, Materializes, Open
  <2>2. SameTile(t)
    BY <1>3, <2>1 DEF WriteResident, Materializes, SameTile, Shapes
  <2> QED BY <2>2 DEF SameTile, Logical
<1>4. ASSUME NEW u \in User, Clears(u) PROVE FALSE
  BY <1>4 DEF Clears, ReleaseEnds, ReleaseAlone, Pinning
<1> QED BY TileSteps, <1>1, <1>2, <1>3, <1>4

(* Works and threads start requests nobody uses or waits for; a request is *)
(* changed otherwise by its own steps only.                                *)
Fresh(r) == req'[r] = req[r] \/ (r \in Free /\ req'[r].phase \in {"staging", "moving", "done"})

LEMMA OthersStart ==
    ASSUME Shapes, NEW r \in Request,
           (\E w \in Work : WorkStep(w)) \/ (\E u \in User : UserStep(u))
    PROVE  Fresh(r)
<1> USE DEF Fresh
<1>1. ASSUME NEW q \in Free, NEW k, NEW T, Admit(q, k, T) \/ LaunchLocked(q, k, T)
      PROVE  Fresh(r)
  <2>1. /\ Blank("done", FALSE).phase = "done" /\ Admitted(k, T).phase = "staging"
        /\ \A S : Submitted(k, T, S).phase = "moving"
    BY DEF Blank, Admitted, Submitted
  <2>2. PICK v : req' = [req EXCEPT ![q] = v] /\ v.phase \in {"staging", "moving", "done"}
    BY <1>1, <2>1 DEF Admit, LaunchLocked
  <2> QED BY <2>2 DEF Shapes, Free
<1>2. ASSUME NEW w \in Work, WorkStep(w) PROVE Fresh(r)
  <2>1. CASE PromotionEnds(w) \/ EvictionEnds(w) \/ CompleteWork(w)
    BY <2>1 DEF PromotionEnds, EvictionEnds, CompleteWork
  <2>2. ASSUME NEW apply \in BOOLEAN, EndWork(w, apply) PROVE Fresh(r)
    <3>1. req' = req \/ \E q \in Free : \E T : LaunchLocked(q, "evict", T)
      BY <2>2 DEF EndWork
    <3> QED BY <1>1, <3>1
  <2> QED BY <1>2, <2>1, <2>2 DEF WorkStep
<1>3. ASSUME NEW u \in User, UserStep(u) PROVE Fresh(r)
  <2>1. CASE WritePromotes(u)
    BY <1>1, <2>1 DEF WritePromotes
  <2>2. ASSUME NEW q \in Request, NEW k \in Kind, NEW T \in Prefetch, RequestResidency(u, q, k, T)
        PROVE  Fresh(r)
    <3>1. q \in Free /\ Admit(q, k, T)
      BY <2>2 DEF RequestResidency, Admit
    <3> QED BY <1>1, <3>1
  <2>3. ASSUME NEW w \in Work, NEW d \in Demand, BeginWork(u, w, d) PROVE Fresh(r)
    BY <1>1, <2>3 DEF BeginWork
  <2>4. CASE \/ RequestReturns(u) \/ WriteRefused(u) \/ WriteResident(u) \/ WriteImplicit(u)
             \/ WriteEvicted(u) \/ WritePromoted(u) \/ ReleaseStarts(u) \/ ReleaseStep(u)
             \/ \E t \in Tile, s \in Slot, v \in Val : StartWrite(u, t, s, v)
    BY <2>4 DEF RequestReturns, WriteRefused, WriteResident, WriteImplicit, WriteEvicted,
       WritePromoted, ReleaseStarts, ReleaseStep, ReleaseChild, ReleaseEnds, ReleaseMarks, StartWrite
  <2> QED BY <1>3, <2>1, <2>2, <2>3, <2>4 DEF UserStep, UserStarts, WriteStep
<1> QED BY <1>2, <1>3

LEMMA CommittedKept == ASSUME Shapes, Committed, [Next]_vars PROVE Committed'
<1>a. ASSUME NEW r \in Request, req'[r] = req[r] PROVE AllArrived(r)' = AllArrived(r)
  BY <1>a DEF AllArrived, Staged
<1>1. ASSUME NEW q \in Request, RequestStep(q), NEW r \in Request, req'[r].phase = "committed"
      PROVE  ~req'[r].failed /\ AllArrived(r)'
  <2>1. req[q] \in Requests /\ req \in [Request -> Requests]
    BY DEF Shapes
  <2>2. CASE r # q
    <3>1. req'[r] = req[r]
      BY <1>1, <2>1, <2>2 DEF RequestStep, StageTransfer, MoveEnds, FirstStageFails, LaterStageFails,
         SubmitWorker, CommitTransition, FailTransition, FinishTransition
    <3> QED BY <1>1, <1>a, <3>1 DEF Committed
  <2>3. CASE r = q /\ CommitTransition(q)
    <3>1. req'[r] = [req[r] EXCEPT !.phase = "committed"]
      BY <2>1, <2>3 DEF CommitTransition
    <3>2. req'[r].failed = req[r].failed /\ req'[r].copy = req[r].copy /\ req'[r].arrived = req[r].arrived
      BY <2>1, <2>3, <3>1 DEF Requests
    <3> QED BY <2>3, <3>2 DEF CommitTransition, AllArrived, Staged
  <2>4. ASSUME r = q, NEW t \in Tile, MoveEnds(q, t) PROVE FALSE
    <3>1. req'[r].phase = req[r].phase /\ ~AllArrived(r)
      BY <2>1, <2>4 DEF MoveEnds, Requests, AllArrived
    <3> QED BY <1>1, <3>1 DEF Committed
  <2>5. ASSUME r = q, \/ \E t \in Tile : StageTransfer(q, t)
                      \/ LaterStageFails(q) \/ SubmitWorker(q)
        PROVE FALSE
    <3>1. ASSUME NEW t \in Tile, StageTransfer(q, t) PROVE FALSE
      BY <1>1, <2>1, <2>5, <3>1 DEF StageTransfer, Requests
    <3>2. CASE LaterStageFails(q)
      <4>1. req' = [req EXCEPT ![q] = [req[q] EXCEPT !.todo = {}, !.failed = TRUE]]
        BY <3>2 DEF LaterStageFails
      <4>2. req'[q] = [req[q] EXCEPT !.todo = {}, !.failed = TRUE] /\ req[q].phase = "staging"
        BY <2>1, <3>2, <4>1 DEF LaterStageFails
      <4>3. req'[q].phase = "staging"
        BY <2>1, <4>2 DEF Requests
      <4> QED BY <1>1, <2>5, <4>3
    <3>3. CASE SubmitWorker(q)
      <4>1. \/ req' = [req EXCEPT ![q] = [req[q] EXCEPT !.phase = "moving"]]
            \/ req' = [req EXCEPT ![q] = [req[q] EXCEPT !.phase = "aborting", !.failed = TRUE]]
        BY <3>3 DEF SubmitWorker
      <4>2. \/ req'[q] = [req[q] EXCEPT !.phase = "moving"]
            \/ req'[q] = [req[q] EXCEPT !.phase = "aborting", !.failed = TRUE]
        BY <2>1, <4>1
      <4>3. req'[q].phase \in {"moving", "aborting"}
        BY <2>1, <4>2 DEF Requests
      <4> QED BY <1>1, <2>5, <4>3
    <3> QED BY <2>5, <3>1, <3>2, <3>3
  <2>6. ASSUME r = q, FirstStageFails(q) \/ FailTransition(q) \/ FinishTransition(q) PROVE FALSE
    BY <1>1, <2>1, <2>6 DEF FirstStageFails, FailTransition, FinishTransition, Blank
  <2> QED BY <1>1, <2>2, <2>3, <2>4, <2>5, <2>6 DEF RequestStep
<1>2. ASSUME (\E w \in Work : WorkStep(w)) \/ (\E u \in User : UserStep(u)) PROVE Committed'
  BY <1>2, <1>a, OthersStart DEF Fresh, Committed
<1>3. CASE UNCHANGED vars
  BY <1>3, <1>a DEF vars, Committed
<1> QED BY <1>1, <1>2, <1>3 DEF Next, UserStep, Committed

(* A work that waits for its promotion keeps what it was promised.         *)
LEMMA PromiseKept ==
    ASSUME NEW w \in Work, Promised(w), work'[w] = work[w],
           req'[work[w].promotion] = req[work[w].promotion],
           \A t \in Protected(work[w].demand) : primary[t] # None => primary'[t] # None
    PROVE  Promised(w)'
<1>1. \A t : Coming(work[w].promotion, t)' = Coming(work[w].promotion, t)
  BY DEF Coming, Deciding, InFlight, Staged
<1>2. ToPromote(work[w].demand) \subseteq Protected(work[w].demand)
  BY DEF ToPromote, Protected
<1> QED BY <1>1, <1>2 DEF Promised

LEMMA RequestStepPromise ==
    ASSUME Accounts, OneHome, Decisions, Committed, NEW r \in Request, RequestStep(r),
           NEW w \in Work, Promised(w), work[w].promotion = r, work'[w] = work[w],
           work[w].demand \in Demands,
           \A t \in Protected(work[w].demand) : primary[t] # None => primary'[t] # None
    PROVE  Promised(w)'
<1> USE DEF Accounts
<1>a. req \in [Request -> Requests] /\ req[r] \in Requests
  BY DEF Shapes
<1>b. ToPromote(work[w].demand) \subseteq Protected(work[w].demand) /\ ToPromote(work[w].demand) \subseteq Tile
  BY DemandShape DEF ToPromote, Protected
<1>c. ASSUME req'[r].failed PROVE Promised(w)'
  BY <1>c DEF Promised
<1>d. ASSUME ~req[r].failed,
             \A t \in ToPromote(work[w].demand) : Coming(r, t) => Coming(r, t)' \/ primary'[t] # None
      PROVE  Promised(w)'
  <2>1. ASSUME NEW t \in ToPromote(work[w].demand) PROVE primary'[t] # None \/ Coming(r, t)'
    <3>1. primary[t] # None \/ Coming(r, t)
      BY <1>d DEF Promised
    <3> QED BY <1>b, <1>d, <3>1
  <2> QED BY <2>1 DEF Promised
<1>e. ASSUME req'[r].phase = req[r].phase, req'[r].kind = req[r].kind, req'[r].fills = req[r].fills,
             req'[r].todo \union Staged(r)' = req[r].todo \union Staged(r), NEW t
      PROVE  Coming(r, t)' = Coming(r, t)
  BY <1>e DEF Coming, Deciding, InFlight
<1>1. ASSUME NEW t \in Tile, StageTransfer(r, t) PROVE Promised(w)'
  <2>1. /\ req'[r].phase = req[r].phase /\ req'[r].kind = req[r].kind
        /\ req'[r].fills = req[r].fills /\ (req[r].failed => req'[r].failed)
        /\ req'[r].todo = req[r].todo \ {t}
        /\ req'[r].copy = [req[r].copy EXCEPT ![t] = Source(req[r].kind, t)]
        /\ req[r].copy \in [Tile -> Contents \union {None}] /\ req[r].kind \in Kind
    BY <1>a, <1>1 DEF StageTransfer, Requests
  <2>2. t \in req[r].todo /\ Shaped(r)
    BY <1>1 DEF StageTransfer, Decisions, Deciding, InFlight
  <2>3. Source(req[r].kind, t) # None
    BY <2>1, <2>2 DEF Shaped, Source, Kind
  <2>4. req'[r].todo \union Staged(r)' = req[r].todo \union Staged(r)
    BY <2>1, <2>2, <2>3 DEF Staged
  <2>5. \A x : Coming(r, x)' = Coming(r, x)
    BY ONLY <1>e, <2>1, <2>4
  <2>6. CASE ~req[r].failed
    BY <1>d, <2>5, <2>6
  <2> QED BY <1>c, <2>1, <2>6
<1>2. ASSUME NEW t \in Tile, MoveEnds(r, t) PROVE Promised(w)'
  <2>1. PICK bad \in BOOLEAN :
           req' = [req EXCEPT ![r] = [req[r] EXCEPT !.arrived = @ \union {t}, !.failed = @ \/ bad]]
    BY ONLY <1>2 DEF MoveEnds
  <2>2. req'[r] = [req[r] EXCEPT !.arrived = @ \union {t}, !.failed = @ \/ bad]
    BY <2>1, <1>a
  <2>3. /\ req[r].failed => req'[r].failed
        /\ req'[r].phase = req[r].phase /\ req'[r].kind = req[r].kind
        /\ req'[r].fills = req[r].fills /\ req'[r].todo = req[r].todo /\ req'[r].copy = req[r].copy
    BY <2>2, <1>a DEF Requests
  <2>4. Staged(r)' = Staged(r)
    BY <2>3 DEF Staged
  <2> QED BY <1>c, <1>d, <1>e, <2>3, <2>4
<1>3. CASE FirstStageFails(r) \/ FailTransition(r)
  BY <1>3, <1>a, <1>c DEF FirstStageFails, FailTransition, Blank
<1>4. CASE LaterStageFails(r)
  <2>1. req' = [req EXCEPT ![r] = [req[r] EXCEPT !.todo = {}, !.failed = TRUE]]
    BY <1>4 DEF LaterStageFails
  <2>2. req'[r].failed
    BY <2>1, <1>a DEF Requests
  <2> QED BY <1>c, <2>2
<1>5. CASE SubmitWorker(r)
  <2>1. CASE req' = [req EXCEPT ![r] = [req[r] EXCEPT !.phase = "moving"]]
    <3>1. /\ req'[r].phase = "moving" /\ req'[r].kind = req[r].kind /\ req'[r].failed = req[r].failed
          /\ req'[r].fills = req[r].fills /\ req'[r].todo = req[r].todo /\ req'[r].copy = req[r].copy
      BY <2>1, <1>a DEF Requests
    <3>2. \A t : Coming(r, t) => Coming(r, t)'
      BY <3>1 DEF Coming, Deciding, InFlight, Staged
    <3> QED BY <1>c, <1>d, <3>1, <3>2
  <2>2. CASE req' = [req EXCEPT ![r] = [req[r] EXCEPT !.phase = "aborting", !.failed = TRUE]]
    <3>1. req'[r].failed
      BY <2>2, <1>a DEF Requests
    <3> QED BY <1>c, <3>1
  <2> QED BY <1>5, <2>1, <2>2 DEF SubmitWorker
<1>6. CASE CommitTransition(r)
  <2>1. Shaped(r) /\ req[r].phase = "moving" /\ ~req[r].failed
    BY <1>6 DEF CommitTransition, Decisions, Deciding, InFlight
  <2>2. ASSUME NEW t \in ToPromote(work[w].demand), Coming(r, t) PROVE primary'[t] # None
    <3>1. t \in Staged(r) \union req[r].fills /\ req[r].kind = "promote"
      BY <2>1, <2>2 DEF Shaped, Coming
    <3> QED BY <1>6, <1>b, <2>1, <3>1, CommitKeepsValues
  <2> QED BY <1>d, <2>1, <2>2
<1>7. CASE FinishTransition(r)
  <2>1. ~req[r].failed /\ \A t : ~Coming(r, t)
    BY <1>7 DEF FinishTransition, Coming, Deciding, Committed
  <2> QED BY <1>d, <2>1
<1> QED BY <1>1, <1>2, <1>3, <1>4, <1>5, <1>6, <1>7 DEF RequestStep

(* What a work is promised when it begins.                                 *)
LEMMA LaunchPromises ==
    ASSUME Shapes, UNCHANGED tiles, NEW r \in Free, NEW T \in SUBSET Tile,
           LaunchLocked(r, "promote", T), \A t \in T : Valid(t),
           NEW t \in T
    PROVE  req'[r].failed \/ primary'[t] # None \/ Coming(r, t)'
<1>a. r \in Request /\ req \in [Request -> Requests] /\ primary' = primary
  BY DEF Free, Shapes, tiles
<1>b. primary[t] # None \/ t \in Moves("promote", T) \union Fills("promote", T)
  BY DEF Valid, Moves, Fills
<1>1. CASE Moves("promote", T) \union Fills("promote", T) = {}
  BY <1>1, <1>a, <1>b
<1>2. CASE Moves("promote", T) \union Fills("promote", T) # {}
  <2>1. PICK S \in Stageable("promote", T) : req' = [req EXCEPT ![r] = Submitted("promote", T, S)]
    BY <1>2 DEF LaunchLocked
  <2>2. req'[r] = Submitted("promote", T, S) /\ S \subseteq Moves("promote", T)
    BY <2>1, <1>a DEF Stageable
  <2>3. /\ req'[r].phase = "moving" /\ req'[r].kind = "promote"
        /\ req'[r].todo = {} /\ req'[r].fills = Fills("promote", T)
        /\ req'[r].copy = [x \in Tile |-> IF x \in S THEN Source("promote", x) ELSE None]
        /\ S # Moves("promote", T) => req'[r].failed
    BY <2>2 DEF Submitted, Admitted, Blank
  <2>4. Staged(r)' = S
    BY <2>2, <2>3 DEF Staged, Source, Moves
  <2> QED BY <1>a, <1>b, <2>3, <2>4 DEF Coming, Deciding, InFlight
<1> QED BY <1>1, <1>2

LEMMA PromisesKept ==
    ASSUME Accounts, OneHome, ReleaseAlone, Decisions, Committed, Promises, [Next]_vars
    PROVE  Promises'
<1> USE DEF Accounts
<1> DEFINE Kept(w) == /\ work[w].phase = "promoting" => Promised(w)
                      /\ work[w].phase = "body" =>
                            \A t \in ToPromote(work[w].demand) : primary[t] # None
<1>0. (\A w \in Work : Kept(w)) /\ ((\A w \in Work : Kept(w)') => Promises')
  BY DEF Promises, BodyResident
<1>a. ASSUME NEW w \in Work
      PROVE  /\ work[w].demand \in Demands
             /\ ToPromote(work[w].demand) \subseteq Protected(work[w].demand)
             /\ Protected(work[w].demand) \subseteq Tile
  BY DemandShape DEF Shapes, Leases, ToPromote, Protected
<1>b. ASSUME NEW w \in Work, Pinning(w), NEW t \in Protected(work[w].demand)
      PROVE  primary[t] # None => primary'[t] # None
  BY <1>a, <1>b, PinnedKept
<1>c. ASSUME NEW w \in Work, work'[w] = work[w],
             work[w].phase = "promoting" => req'[work[w].promotion] = req[work[w].promotion]
      PROVE  Kept(w)'
  <2>1. CASE work[w].phase = "promoting"
    BY <1>0, <1>b, <1>c, <2>1, PromiseKept DEF Pinning
  <2>2. CASE work[w].phase = "body"
    BY <1>0, <1>a, <1>b, <1>c, <2>2 DEF Pinning
  <2>3. CASE work[w].phase \notin {"promoting", "body"}
    BY <1>c, <2>3
  <2> QED BY <2>1, <2>2, <2>3
<1>1. ASSUME NEW r \in Request, RequestStep(r), NEW w \in Work PROVE Kept(w)'
  <2>1. work' = work /\ \A q \in Request \ {r} : req'[q] = req[q]
    BY <1>1 DEF RequestStep, StageTransfer, MoveEnds, FirstStageFails, LaterStageFails,
         SubmitWorker, CommitTransition, FailTransition, FinishTransition, Shapes
  <2>2. CASE work[w].phase = "promoting" /\ work[w].promotion = r
    <3>1. Promised(w) /\ Pinning(w)
      BY <1>0, <2>2 DEF Pinning
    <3>2. Promised(w)'
      BY <1>1, <1>a, <1>b, <2>1, <2>2, <3>1, RequestStepPromise
    <3> QED BY <2>1, <2>2, <3>2
  <2>3. CASE ~(work[w].phase = "promoting" /\ work[w].promotion = r)
    <3>1. work[w].phase = "promoting" => work[w].promotion \in Request
      BY <1>0 DEF Promised
    <3> QED BY <1>c, <2>1, <2>3, <3>1
  <2> QED BY <2>2, <2>3
<1>d. ASSUME (\E v \in Work : WorkStep(v)) \/ (\E u \in User : UserStep(u)),
             NEW w \in Work, work'[w] = work[w]
      PROVE  Kept(w)'
  <2>1. ASSUME work[w].phase = "promoting" PROVE req'[work[w].promotion] = req[work[w].promotion]
    <3>1. work[w].promotion \in Request \ Free
      BY <1>0, <2>1 DEF Promised, Free
    <3> QED BY <1>d, <3>1, OthersStart DEF Fresh
  <2> QED BY <1>c, <1>d, <2>1
<1>2. ASSUME NEW v \in Work, WorkStep(v), NEW w \in Work PROVE Kept(w)'
  <2>1. CASE w # v
    BY <1>2, <1>d, <2>1 DEF WorkStep, PromotionEnds, EndWork, EvictionEnds, CompleteWork, Shapes
  <2>2. CASE w = v /\ PromotionEnds(v)
    <3>1. work'[w] = [work[w] EXCEPT !.phase = "body"] /\ UNCHANGED primary
      BY <2>2 DEF PromotionEnds, Shapes, tiles
    <3>2. work'[w].phase = "body" /\ work'[w].demand = work[w].demand
      BY <3>1 DEF Shapes, Leases
    <3>3. \A t \in ToPromote(work[w].demand) : primary[t] # None
      <4>1. Promised(w) /\ ~req[work[w].promotion].failed /\ req[work[w].promotion].phase = "done"
        BY <1>0, <2>2 DEF PromotionEnds
      <4> QED BY <4>1 DEF Promised, Coming, Deciding, InFlight
    <3> QED BY <3>1, <3>2, <3>3
  <2>3. CASE w = v /\ (EvictionEnds(v) \/ CompleteWork(v) \/ \E apply \in BOOLEAN : EndWork(v, apply))
    <3>1. work'[w].phase \in {"completing", "evicting", "idle"}
      <4>1. CASE EvictionEnds(v)
        BY <2>3, <4>1 DEF EvictionEnds, Shapes, Leases
      <4>2. CASE CompleteWork(v)
        BY <2>3, <4>2 DEF CompleteWork, Shapes, NoLease
      <4>3. ASSUME NEW apply \in BOOLEAN, EndWork(v, apply) PROVE work'[w].phase \in {"completing", "evicting"}
        <5>0. work[v] \in Leases
          BY DEF Shapes
        <5>1. ASSUME NEW bad, work' = [work EXCEPT ![v].phase = "completing", ![v].failed = bad]
              PROVE  work'[w].phase = "completing"
          <6>1. work'[v] = [work[v] EXCEPT !.phase = "completing", !.failed = bad]
            BY <5>1 DEF Shapes
          <6> QED BY ONLY <2>3, <5>0, <6>1 DEF Leases
        <5>2. ASSUME NEW r, NEW T, NEW bad,
                     work' = [work EXCEPT ![v].phase = "evicting", ![v].eviction = r,
                                          ![v].ready = T, ![v].failed = bad]
              PROVE  work'[w].phase = "evicting"
          <6>1. work'[v] = [work[v] EXCEPT !.phase = "evicting", !.eviction = r, !.ready = T, !.failed = bad]
            BY <5>2 DEF Shapes
          <6> QED BY ONLY <2>3, <5>0, <6>1 DEF Leases
        <5> QED BY ONLY <4>3, <5>1, <5>2 DEF EndWork
      <4> QED BY <2>3, <4>1, <4>2, <4>3
    <3> QED BY <3>1
  <2> QED BY <1>2, <2>1, <2>2, <2>3 DEF WorkStep
<1>3. ASSUME NEW u \in User, UserStep(u), NEW w \in Work PROVE Kept(w)'
  <2>1. CASE work'[w] = work[w]
    BY <1>3, <1>d, <2>1
  <2>2. CASE work'[w] # work[w]
    <3>1. PICK v \in Work, d \in Demand : BeginWork(u, v, d)
      BY <1>3, <2>2 DEF UserStep, UserStarts, WriteStep, ReleaseStep, RequestResidency, StartWrite,
         ReleaseStarts, RequestReturns, WriteRefused, WriteResident,
         WriteImplicit, WriteEvicted, WritePromotes, WritePromoted, ReleaseChild,
         ReleaseEnds, ReleaseMarks
    <3>2. PICK r \in Free : /\ LaunchLocked(r, "promote", ToPromote(d))
                            /\ work' = [work EXCEPT ![v] = [NoLease EXCEPT !.phase = "promoting",
                                                               !.demand = d, !.promotion = r]]
      BY <3>1 DEF BeginWork
    <3>3. v = w
      BY <2>2, <3>2 DEF Shapes
    <3>4. work'[w].phase = "promoting" /\ work'[w].demand = d /\ work'[w].promotion = r
      BY <3>2, <3>3 DEF Shapes, NoLease
    <3>5. ToPromote(d) \in SUBSET Tile
      BY TiledAssumption, DemandShape
    <3>6. UNCHANGED tiles /\ \A t \in ToPromote(d) : Valid(t)
      BY <3>1 DEF BeginWork, Admissible
    <3>7. \A t \in ToPromote(d) : req'[r].failed \/ primary'[t] # None \/ Coming(r, t)'
      BY <3>2, <3>5, <3>6, LaunchPromises
    <3>8. Promised(w)'
      BY <3>4, <3>7 DEF Promised, Free
    <3> QED BY <3>4, <3>8
  <2> QED BY <2>1, <2>2
<1>4. ASSUME UNCHANGED vars, NEW w \in Work PROVE Kept(w)'
  BY <1>4, <1>c DEF vars
<1> HIDE DEF Kept
<1> QED BY <1>0, <1>1, <1>2, <1>3, <1>4 DEF Next, UserStep
-----------------------------------------------------------------------------
(* The release.                                                            *)
Emptied == /\ \A u \in User : Emptying(u)
           /\ released => Held = {} /\ implicit = {}

LEMMA EmptiedKept ==
    ASSUME OneCaller, Accounts, ReleaseAlone, Emptied, [Next]_vars
    PROVE  Emptied'
<1> DEFINE Releasing(u) == call[u].op \in {"release", "mark"}
<1> USE DEF Accounts
<1>a. ASSUME NEW t \in Tile, primary[t] # None PROVE Held # {}
  BY <1>a DEF Held
<1>b. ASSUME UNCHANGED <<primary, secondary>> PROVE Held' = Held
  BY <1>b DEF Held
<1>c. ASSUME UNCHANGED <<primary, secondary, implicit, gone, call, released>> PROVE Emptied'
  BY <1>b, <1>c DEF Emptied, Emptying
<1>d. ASSUME UNCHANGED released, \A v \in User : ~Releasing(v)'
      PROVE  Emptied'
  <2>1. (released => Held' = {} /\ implicit' = {}) => Emptied'
    BY <1>d DEF Emptied, Emptying
  <2>2. ASSUME released PROVE Quiet
    <3>1. \A r \in Request : ~CommitTransition(r)
      BY <2>2 DEF CommitTransition
    <3>2. Held = {} /\ implicit = {}
      BY <2>2 DEF Emptied
    <3>3. \A u \in User : ~WriteResident(u)
      BY <1>a, <3>2, WriteCall DEF WriteResident, Looping, Shapes
    <3>4. \A u \in User : ~Materializes(u)
      BY <3>2 DEF Materializes
    <3>5. ASSUME NEW u \in User, Clears(u) PROVE FALSE
      BY <1>d, <3>5 DEF Clears, ReleaseEnds, Shapes
    <3> QED BY TileSteps, <3>1, <3>3, <3>4, <3>5
  <2> QED BY <1>b, <2>1, <2>2 DEF Quiet, Emptied
<1>1. ASSUME NEW r \in Request, RequestStep(r) PROVE Emptied'
  <2>1. \A u \in User : ~Releasing(u) /\ call'[u] = call[u]
    BY <1>1, RequestStepCalls
  <2>2. UNCHANGED released
    BY <1>1 DEF RequestStep, StageTransfer, MoveEnds, FirstStageFails, LaterStageFails,
       SubmitWorker, CommitTransition, FailTransition, FinishTransition
  <2> QED BY <1>d, <2>1, <2>2
<1>2. ASSUME NEW w \in Work, WorkStep(w) PROVE Emptied'
  BY <1>2, <1>c DEF WorkStep, PromotionEnds, EndWork, EvictionEnds, CompleteWork, tiles
<1>3. ASSUME NEW u \in User, UserStep(u) PROVE Emptied'
  <2>1. ASSUME NEW v \in User \ {u}, Releasing(v) PROVE FALSE
    BY <2>1 DEF ReleaseAlone, OneCaller
  <2>2. ASSUME ~Releasing(u)', UNCHANGED released PROVE Emptied'
    <3>1. \A v \in User \ {u} : ~Releasing(v)'
      BY <1>3, <2>1, UserStepCalls
    <3> QED BY <1>d, <2>2, <3>1
  <2>3. ASSUME Emptying(u)', released' => Held' = {} /\ implicit' = {} PROVE Emptied'
    <3>1. \A v \in User \ {u} : ~Releasing(v)'
      BY <1>3, <2>1, UserStepCalls
    <3> QED BY <2>3, <3>1 DEF Emptied, Emptying
  <2>4. CASE ReleaseStarts(u)
    <3>1. /\ call'[u] = [op |-> "release", todo |-> Held, failed |-> FALSE]
          /\ UNCHANGED <<primary, secondary, released>> /\ ~released
      BY <2>4 DEF ReleaseStarts, Shapes, tiles
    <3> QED BY <1>b, <2>3, <3>1 DEF Emptying
  <2>5. ASSUME NEW c \in Child, ReleaseChild(u, c) PROVE Emptied'
    <3>1. /\ UNCHANGED <<primary, secondary, implicit, released>> /\ call[u].op = "release"
          /\ \/ gone' = gone \union {c} /\ call'[u] = [call[u] EXCEPT !.todo = @ \ {c}]
             \/ call'[u] = [call[u] EXCEPT !.todo = @ \ {c}, !.failed = TRUE]
      BY <2>5 DEF ReleaseChild, Shapes
    <3>2. call[u] \in Calls
      BY DEF Shapes
    <3>3. /\ call'[u].op = "release"
          /\ \/ call'[u].failed
             \/ /\ gone' = gone \union {c} /\ call'[u].todo = call[u].todo \ {c}
                /\ call[u].failed => call'[u].failed
      <4>1. CASE gone' = gone \union {c} /\ call'[u] = [call[u] EXCEPT !.todo = @ \ {c}]
        BY <3>1, <3>2, <4>1 DEF Calls
      <4>2. CASE call'[u] = [call[u] EXCEPT !.todo = @ \ {c}, !.failed = TRUE]
        BY <3>1, <3>2, <4>2 DEF Calls
      <4> QED BY <3>1, <4>1, <4>2
    <3>4. Held' = Held
      BY <1>b, <3>1
    <3>5. Emptying(u)'
      BY <3>1, <3>3, <3>4 DEF Emptied, Emptying
    <3> QED BY <2>3, <3>1, <3>4, <3>5 DEF Emptied
  <2>6. CASE ReleaseEnds(u)
    <3>1. CASE call[u].failed
      BY <2>2, <2>6, <3>1 DEF ReleaseEnds, Shapes, IdleCall
    <3>2. CASE ~call[u].failed
      <4>1. Held' = {} /\ implicit' = {} /\ call'[u] = [op |-> "mark"]
        BY <2>6, <3>2 DEF ReleaseEnds, Held, NoCopy, Shapes
      <4> QED BY <2>3, <4>1 DEF Emptying
    <3> QED BY <3>1, <3>2
  <2>7. CASE ReleaseMarks(u)
    <3>1. Held = {} /\ implicit = {} /\ UNCHANGED <<primary, secondary, implicit>> /\ call'[u].op = "idle"
      BY <2>7 DEF ReleaseMarks, Emptied, Emptying, tiles, Shapes, IdleCall
    <3> QED BY <1>b, <2>3, <3>1 DEF Emptying
  <2>8. CASE \/ RequestReturns(u) \/ WriteStep(u)
             \/ \E r \in Request, k \in Kind, T \in Prefetch : RequestResidency(u, r, k, T)
             \/ \E t \in Tile, s \in Slot, v \in Val : StartWrite(u, t, s, v)
             \/ \E w \in Work, d \in Demand : BeginWork(u, w, d)
    <3>1. ~Releasing(u)' /\ UNCHANGED released
      <4>1. CASE WriteStep(u)
        BY <4>1, WriteStepCalls DEF WriteStep, WriteRefused, WriteResident,
           WriteImplicit, WriteEvicted, WritePromotes, WritePromoted
      <4>2. CASE \/ RequestReturns(u)
                 \/ \E r \in Request, k \in Kind, T \in Prefetch : RequestResidency(u, r, k, T)
                 \/ \E t \in Tile, s \in Slot, v \in Val : StartWrite(u, t, s, v)
        BY <4>2 DEF RequestReturns, RequestResidency, StartWrite, IdleCall, Shapes
      <4>3. ASSUME NEW w \in Work, NEW d \in Demand, BeginWork(u, w, d)
            PROVE  ~Releasing(u)' /\ UNCHANGED released
        BY <4>3 DEF BeginWork, IdleCall
      <4> QED BY <2>8, <4>1, <4>2, <4>3
    <3> QED BY <2>2, <3>1
  <2> QED BY <1>3, <2>4, <2>5, <2>6, <2>7, <2>8 DEF UserStep, UserStarts, ReleaseStep
<1>4. CASE UNCHANGED vars
  BY <1>4, <1>c DEF vars, tiles
<1> QED BY <1>1, <1>2, <1>3, <1>4 DEF Next, UserStep
-----------------------------------------------------------------------------
(* The inductive invariant, and what it implies.                           *)
Sound == /\ Accounts /\ OneHome /\ ReleaseAlone /\ Decisions /\ Committed /\ Promises
         /\ Emptied

LEMMA InitSound == Init => Sound
<1> SUFFICES ASSUME Init PROVE Sound
  OBVIOUS
<1>1. Accounts
  BY InitShapes, InitCounts DEF Accounts, Init, PinsTotal
<1>2. OneHome
  BY TiledAssumption DEF Init, OneHome, NoCopy
<1>3. \A u \in User : call[u].op = "idle"
  BY DEF Init, IdleCall
<1>4. \A r \in Request : req[r].phase = "idle"
  BY DEF Init, Blank
<1>5. \A w \in Work : work[w].phase = "idle"
  BY DEF Init, NoLease
<1> QED BY <1>1, <1>2, <1>3, <1>4, <1>5 DEF Init, Sound, ReleaseAlone, Decisions, Deciding, InFlight,
           Committed, Promises, BodyResident, Emptied, Emptying

LEMMA SoundKept == ASSUME OneCaller, Sound, [Next]_vars PROVE Sound'
<1>1. Accounts'
  BY AccountsKept DEF Sound
<1>2. Decisions'
  <2>1. CASE UNCHANGED vars
    <3>1. UNCHANGED <<req, pins, primary, secondary, implicit>>
      BY <2>1 DEF vars, tiles, counters
    <3> QED BY <3>1, DecisionsKept DEF Sound, Accounts, SameTile
  <2> QED BY <2>1, RequestStepDecides, WorkStepDecides, UserStepDecides DEF Sound, Next, UserStep
<1> QED BY <1>1, <1>2, OneHomeKept, AloneKept, CommittedKept, PromisesKept, EmptiedKept
           DEF Sound, Accounts

LEMMA SoundInvariant == ASSUME OneCaller PROVE Spec => []Sound
<1>1. Sound /\ [Next]_vars => Sound'
  BY SoundKept
<1> QED BY <1>1, InitSound, PTL DEF Spec

(* A tile never has two homes, and only primary tiles are dirty, for any   *)
(* number of threads, whoever releases the carrier.                        *)
THEOREM OneHomeAlways == Spec => []OneHome
<1>1. Init => OneHome
  BY InitSound DEF Sound
<1> QED BY <1>1, OneHomeKept, AccountsInvariant, PTL DEF Spec, Accounts

(* What a request decides under the lock and stages outside it stays true  *)
(* until its commit.                                                       *)
THEOREM DecisionsHold == ASSUME OneCaller PROVE Spec => []RequestShape
<1>1. Sound => RequestShape
  BY DEF Sound, Decisions, Deciding, Shaped, RequestShape
<1> QED BY <1>1, SoundInvariant, PTL

(* No step of another thread or of a worker changes the value of a tile    *)
(* that a work has pinned or takes it out of primary, and in its body the  *)
(* work has every tile it asked for in primary.                            *)
THEOREM PinsProtect == ASSUME OneCaller PROVE Spec => PinnedUntouched
<1> DEFINE Untouched == \A w \in Work : Pinning(w) /\ Pinning(w)' =>
                           \A t \in Protected(work[w].demand) :
                              /\ Logical(t)' = Logical(t)
                              /\ primary[t] # None => primary'[t] # None
<1>1. Sound /\ [Next]_vars => Untouched
  <2> SUFFICES ASSUME Sound, [Next]_vars, NEW w \in Work, Pinning(w),
                      NEW t \in Protected(work[w].demand)
               PROVE  Logical(t)' = Logical(t) /\ (primary[t] # None => primary'[t] # None)
    OBVIOUS
  <2>1. t \in Tile
    BY DemandShape DEF Sound, Accounts, Shapes, Leases
  <2> QED BY <2>1, PinnedKept DEF Sound
<1>2. Sound => BodyResident
  BY DEF Sound, Promises
<1> QED BY <1>1, <1>2, SoundInvariant, PTL DEF Spec, PinnedUntouched

(* A release by the only program thread meets no request and no work, it   *)
(* forgets the children only when each has been released, and after it no  *)
(* child is ever installed.                                                *)
THEOREM ReleaseForgetsNothing == ASSUME OneCaller PROVE Spec => ReleaseLeaksNothing
<1> DEFINE Forgets == \A u \in User : call[u].op = "release" /\ call'[u].op = "mark" => Held \subseteq gone
<1>1. Sound /\ [Next]_vars => Forgets
  <2> SUFFICES ASSUME Sound, [Next]_vars, NEW u \in User, call[u].op = "release", call'[u].op = "mark"
               PROVE  Held \subseteq gone
    OBVIOUS
  <2> USE DEF Sound, Accounts
  <2>1. PICK v \in User : UserStep(v)
    <3>1. ASSUME NEW r \in Request, RequestStep(r) PROVE FALSE
      BY <3>1, RequestStepCalls
    <3>2. ASSUME NEW w \in Work, WorkStep(w) PROVE FALSE
      BY <3>2 DEF WorkStep, PromotionEnds, EndWork, EvictionEnds, CompleteWork
    <3>3. ASSUME UNCHANGED vars PROVE FALSE
      BY <3>3 DEF vars
    <3> QED BY <3>1, <3>2, <3>3 DEF Next, UserStep
  <2>2. v = u
    BY <2>1, UserStepCalls
  <2>3. ReleaseEnds(u) /\ ~call[u].failed
    <3>1. ASSUME NEW c \in Child, ReleaseChild(u, c) PROVE FALSE
      <4>1. call[u] \in Calls
        BY DEF Shapes
      <4>2. \/ call'[u] = [call[u] EXCEPT !.todo = @ \ {c}]
            \/ call'[u] = [call[u] EXCEPT !.todo = @ \ {c}, !.failed = TRUE]
        BY <3>1 DEF ReleaseChild, Shapes
      <4>3. call'[u].op = "release"
        BY <4>1, <4>2 DEF Calls
      <4> QED BY <4>3
    <3>2. ~WriteStep(u)
      BY WriteStepCalls
    <3>3. CASE ReleaseEnds(u)
      BY <3>3 DEF ReleaseEnds, Shapes, IdleCall
    <3>4. ~UserStarts(u) /\ ~RequestReturns(u)
      <4>1. call[u] # IdleCall
        BY DEF IdleCall
      <4>2. ~UserStarts(u)
        BY <4>1 DEF UserStarts, RequestResidency, StartWrite, BeginWork, ReleaseStarts
      <4> QED BY <4>2 DEF RequestReturns
    <3>5. ~ReleaseMarks(u)
      BY DEF ReleaseMarks
    <3> QED BY <2>1, <2>2, <3>1, <3>2, <3>3, <3>4, <3>5 DEF UserStep, ReleaseStep
  <2>4. Held \subseteq call[u].todo \union gone /\ call[u].todo = {}
    BY <2>3 DEF Emptied, Emptying, ReleaseEnds
  <2> QED BY <2>4
<1>2. Sound => ReleaseAlone /\ (released => Held = {})
  BY DEF Sound, Emptied
<1> QED BY <1>1, <1>2, SoundInvariant, PTL DEF Spec, ReleaseLeaksNothing
-----------------------------------------------------------------------------
(* The carrier implements a flat memory.                                   *)

LEMMA CellsKept == ASSUME \A t \in Tile : Logical(t)' = Logical(t) PROVE Cells' = Cells
  BY DEF Cells

(* What a thread is writing, by what its call is.                          *)
NotWriting(u) == call[u].op \notin {"write", "promote"}
SameWrite(u) == \/ call'[u] = call[u]
                \/ NotWriting(u) /\ NotWriting(u)'
                \/ /\ ~NotWriting(u) /\ ~NotWriting(u)'
                   /\ call'[u].tile = call[u].tile /\ call'[u].slot = call[u].slot
                   /\ call'[u].val = call[u].val

LEMMA WritingKept == ASSUME \A u \in User : SameWrite(u) PROVE Writing' = Writing
<1> SUFFICES ASSUME NEW u \in User PROVE Writing[u]' = Writing[u]
  BY DEF Writing
<1> QED BY DEF Writing, SameWrite, NotWriting

LEMMA WritingEnds ==
    ASSUME NEW u \in User, ~NotWriting(u), NotWriting(u)', \A v \in User \ {u} : call'[v] = call[v]
    PROVE  /\ Writing[u] = [tile |-> call[u].tile, slot |-> call[u].slot, val |-> call[u].val]
           /\ Writing' = [Writing EXCEPT ![u] = None]
<1>1. Writing[u] = [tile |-> call[u].tile, slot |-> call[u].slot, val |-> call[u].val]
  BY DEF Writing, NotWriting
<1>2. \A v \in User : Writing'[v] = [Writing EXCEPT ![u] = None][v]
  BY DEF Writing, NotWriting
<1> QED BY <1>1, <1>2 DEF Writing

Stutters == Cells' = Cells /\ Writing' = Writing /\ wrote' = wrote

LEMMA RequestStepFlat ==
    ASSUME Sound, NEW r \in Request, RequestStep(r)
    PROVE  Stutters
<1> USE DEF Sound, Accounts
<1>1. wrote' = wrote
  BY DEF RequestStep, StageTransfer, MoveEnds, FirstStageFails, LaterStageFails,
         SubmitWorker, CommitTransition, FailTransition, FinishTransition
<1>2. \A u \in User : SameWrite(u)
  BY RequestStepCalls DEF SameWrite
<1>3. CASE CommitTransition(r)
  <2>1. Shaped(r)
    BY <1>3 DEF CommitTransition, Decisions, Deciding, InFlight
  <2> QED BY <1>1, <1>2, <1>3, <2>1, CommitKeepsValues, CellsKept, WritingKept DEF Stutters
<1>4. CASE ~CommitTransition(r)
  <2>1. UNCHANGED <<primary, secondary, implicit>>
    BY <1>4 DEF RequestStep, StageTransfer, MoveEnds, FirstStageFails, LaterStageFails,
                SubmitWorker, FailTransition, FinishTransition, tiles
  <2> QED BY <1>1, <1>2, <2>1, CellsKept, WritingKept DEF Logical, Stutters
<1> QED BY <1>3, <1>4

LEMMA WriteOver ==
    ASSUME Shapes, NEW u \in User, WriteStep(u), NEW ok, WriteReturns(u, ok)
    PROVE  /\ Writing[u] = [tile |-> call[u].tile, slot |-> call[u].slot, val |-> call[u].val]
           /\ Writing[u] # None
           /\ Writing' = [Writing EXCEPT ![u] = None]
           /\ wrote' = [wrote EXCEPT ![u] = ok]
<1>1. ~NotWriting(u) /\ NotWriting(u)' /\ \A v \in User \ {u} : call'[v] = call[v]
  BY WriteStepCalls DEF NotWriting, WriteReturns, Shapes, IdleCall
<1>2. call[u].tile \in Tile /\ call[u].slot \in Slot /\ call[u].val \in Val
  BY <1>1, WriteCall DEF Shapes, NotWriting
<1>3. [tile |-> call[u].tile, slot |-> call[u].slot, val |-> call[u].val] # None
  BY <1>2, TiledAssumption
<1>4. /\ Writing[u] = [tile |-> call[u].tile, slot |-> call[u].slot, val |-> call[u].val]
      /\ Writing' = [Writing EXCEPT ![u] = None]
  BY <1>1, WritingEnds
<1> QED BY <1>3, <1>4 DEF WriteReturns

LEMMA FailsFlat ==
    ASSUME Shapes, NEW u \in User, WriteStep(u), WriteReturns(u, FALSE),
           UNCHANGED <<primary, secondary, implicit>>
    PROVE  Memory!WriteFails(u)
<1>1. Cells' = Cells
  BY DEF Cells, Logical
<1> QED BY <1>1, WriteOver DEF Memory!WriteFails

(* The write takes effect on its element when it returns successfully.     *)
LEMMA ResidentFlat ==
    ASSUME Sound, NEW u \in User, WriteStep(u), WriteResident(u)
    PROVE  Memory!WriteSucceeds(u)
<1> DEFINE t == call[u].tile
           s == call[u].slot
           v == call[u].val
<1>1. t \in Tile /\ primary[t] # None /\ s \in Slot /\ v \in Val
  BY WriteCall DEF WriteResident, Looping, Sound, Accounts, Shapes
<1>2. /\ primary' = [primary EXCEPT ![t] = [primary[t] EXCEPT ![s] = v]]
      /\ secondary' = secondary /\ implicit' = implicit \ {t} /\ WriteReturns(u, TRUE)
  BY DEF WriteResident
<1>3. /\ Writing[u] = [tile |-> t, slot |-> s, val |-> v] /\ Writing[u] # None
      /\ Writing' = [Writing EXCEPT ![u] = None] /\ wrote' = [wrote EXCEPT ![u] = TRUE]
  BY <1>2, WriteOver DEF Sound, Accounts
<1> HIDE DEF t, s, v
<1>4. Cells[t] = primary[t] /\ primary \in [Tile -> Contents \union {None}]
  BY <1>1 DEF Cells, Logical, Sound, Accounts, Shapes
<1>5. [primary[t] EXCEPT ![s] = v] # None
  <2>1. [primary[t] EXCEPT ![s] = v] \in Contents
    BY <1>1, <1>4 DEF Contents
  <2> QED BY <2>1, TiledAssumption
<1>6. Cells' = [Cells EXCEPT ![t] = [Cells[t] EXCEPT ![s] = v]]
  <2> DEFINE new == [primary[t] EXCEPT ![s] = v]
  <2>1. ASSUME NEW x \in Tile PROVE Logical(x)' = IF x = t THEN new ELSE Logical(x)
    <3>1. CASE x = t
      <4>1. primary'[x] = new
        BY <1>1, <1>2, <1>4, <3>1
      <4> QED BY <1>5, <3>1, <4>1 DEF Logical
    <3>2. CASE x # t
      <4>1. primary'[x] = primary[x] /\ secondary'[x] = secondary[x] /\ (x \in implicit' <=> x \in implicit)
        BY <1>1, <1>2, <1>4, <3>2
      <4> QED BY <3>2, <4>1 DEF Logical
    <3> QED BY <3>1, <3>2
  <2>2. Cells' = [x \in Tile |-> IF x = t THEN new ELSE Logical(x)]
    BY <2>1 DEF Cells
  <2>3. new = [Cells[t] EXCEPT ![s] = v]
    BY <1>4
  <2>4. Cells = [x \in Tile |-> Logical(x)]
    BY DEF Cells
  <2> HIDE DEF new
  <2>5. [Cells EXCEPT ![t] = new] = [x \in Tile |-> IF x = t THEN new ELSE Logical(x)]
    BY ONLY <1>1, <2>4
  <2> QED BY ONLY <2>2, <2>3, <2>5
<1>7. Writing[u].tile = t /\ Writing[u].slot = s /\ Writing[u].val = v
  BY ONLY <1>3
<1>8. Cells[t] # None
  BY <1>1, <1>4
<1>9. /\ Cells[Writing[u].tile] # None
      /\ Cells' = [Cells EXCEPT ![Writing[u].tile][Writing[u].slot] = Writing[u].val]
  BY ONLY <1>6, <1>7, <1>8
<1> QED BY ONLY <1>3, <1>9 DEF Memory!WriteSucceeds

(* An implicit tile reads as zero before and after it is materialized.     *)
LEMMA ImplicitFlat ==
    ASSUME Sound, NEW u \in User, WriteStep(u), WriteImplicit(u)
    PROVE  Stutters \/ Memory!WriteSucceeds(u) \/ Memory!WriteFails(u)
<1> DEFINE t == call[u].tile
           zero == [s \in Slot |-> Zero]
<1>1. /\ t \in Tile /\ primary[t] = None /\ secondary[t] = None /\ t \in implicit
      /\ secondary' = secondary
  BY WriteCall DEF WriteImplicit, Looping, Sound, Accounts, Shapes
<1>2. Logical(t) = zero /\ Cells[t] = zero /\ zero # None
  BY <1>1, TiledAssumption DEF Cells, Logical, Contents
<1>3. CASE WriteReturns(u, FALSE) /\ UNCHANGED <<primary, implicit>>
  BY <1>1, <1>3, FailsFlat DEF Sound, Accounts
<1>4. CASE call[u].val = Zero /\ WriteReturns(u, TRUE) /\ UNCHANGED <<primary, implicit>>
  <2>1. /\ Writing[u] = [tile |-> t, slot |-> call[u].slot, val |-> call[u].val] /\ Writing[u] # None
        /\ Writing' = [Writing EXCEPT ![u] = None] /\ wrote' = [wrote EXCEPT ![u] = TRUE]
    BY <1>4, WriteOver DEF Sound, Accounts
  <2>2. Cells' = Cells
    BY <1>1, <1>4, CellsKept DEF Logical
  <2>3. Cells = [Cells EXCEPT ![t] = [Cells[t] EXCEPT ![call[u].slot] = call[u].val]]
    <3>1. [zero EXCEPT ![call[u].slot] = Zero] = zero
      OBVIOUS
    <3>2. [Cells EXCEPT ![t] = Cells[t]] = Cells
      BY DEF Cells
    <3> QED BY <1>2, <1>4, <3>1, <3>2
  <2> QED BY <1>2, <2>1, <2>2, <2>3 DEF Memory!WriteSucceeds
<1>5. CASE /\ primary' = [primary EXCEPT ![t] = zero] /\ implicit' = implicit \ {t}
           /\ UNCHANGED <<call, wrote>>
  <2> HIDE DEF t, zero
  <2>1. ASSUME NEW x \in Tile PROVE Logical(x)' = Logical(x)
    <3>1. CASE x = t
      BY <1>1, <1>2, <1>5, <3>1 DEF Logical, Sound, Accounts, Shapes
    <3>2. CASE x # t
      <4>1. primary'[x] = primary[x] /\ secondary'[x] = secondary[x] /\ (x \in implicit' <=> x \in implicit)
        BY <1>1, <1>5, <3>2 DEF Sound, Accounts, Shapes
      <4> QED BY <4>1 DEF Logical
    <3> QED BY <3>1, <3>2
  <2> QED BY <1>5, <2>1, CellsKept, WritingKept DEF Stutters, SameWrite
<1> QED BY <1>3, <1>4, <1>5 DEF WriteImplicit

LEMMA WriteStepFlat ==
    ASSUME Sound, NEW u \in User, WriteStep(u)
    PROVE  Stutters \/ Memory!WriteSucceeds(u) \/ Memory!WriteFails(u)
<1> USE DEF Sound, Accounts
<1>1. CASE WriteResident(u)
  BY <1>1, ResidentFlat
<1>2. CASE WriteImplicit(u)
  BY <1>2, ImplicitFlat
<1>3. CASE WriteReturns(u, FALSE) /\ UNCHANGED tiles
  BY <1>3, FailsFlat DEF tiles
<1>4. CASE UNCHANGED <<tiles, wrote>> /\ \A v \in User : SameWrite(v)
  BY <1>4, CellsKept, WritingKept DEF Stutters, Logical, tiles
<1>a. ASSUME NEW k, call' = [call EXCEPT ![u] = k], k.op \in {"write", "promote"},
             k.tile = call[u].tile, k.slot = call[u].slot, k.val = call[u].val
      PROVE  \A v \in User : SameWrite(v)
  BY <1>a, WriteStepCalls DEF SameWrite, NotWriting, Shapes
<1>b. call[u] \in Calls /\ call[u].op \in {"write", "promote"}
  BY WriteStepCalls DEF Shapes
<1>5. CASE WriteEvicted(u)
  <2>1. call' = [call EXCEPT ![u] = [call[u] EXCEPT !.op = "promote"]] /\ UNCHANGED <<tiles, wrote>>
    BY <1>5 DEF WriteEvicted
  <2> DEFINE k == [call[u] EXCEPT !.op = "promote"]
  <2>2. k.op = "promote" /\ k.tile = call[u].tile /\ k.slot = call[u].slot /\ k.val = call[u].val
    BY <1>b DEF Calls
  <2> HIDE DEF k
  <2>3. call' = [call EXCEPT ![u] = k]
    BY <2>1 DEF k
  <2> QED BY <1>4, <1>a, <2>1, <2>2, <2>3
<1>6. CASE WritePromotes(u)
  <2>1. ASSUME NEW r, call' = [call EXCEPT ![u].handle = r], UNCHANGED wrote PROVE Stutters
    <3> DEFINE k == [call[u] EXCEPT !.handle = r]
    <3>1. k.op = call[u].op /\ k.tile = call[u].tile /\ k.slot = call[u].slot /\ k.val = call[u].val
      BY <1>b DEF Calls
    <3>2. call' = [call EXCEPT ![u] = k]
      BY <2>1
    <3> HIDE DEF k
    <3>3. \A v \in User : SameWrite(v)
      BY <1>a, <1>b, <3>1, <3>2
    <3> QED BY <1>6, <2>1, <3>3, CellsKept, WritingKept DEF Stutters, Logical, tiles, WritePromotes
  <2> QED BY <1>3, <1>6, <2>1 DEF WritePromotes
<1>7. CASE WritePromoted(u)
  <2>1. CASE call' = [call EXCEPT ![u].op = "write", ![u].handle = None] /\ UNCHANGED wrote
    <3> DEFINE k == [call[u] EXCEPT !.op = "write", !.handle = None]
    <3>1. k.op = "write" /\ k.tile = call[u].tile /\ k.slot = call[u].slot /\ k.val = call[u].val
      BY <1>b DEF Calls
    <3>2. call' = [call EXCEPT ![u] = k]
      BY <2>1
    <3> HIDE DEF k
    <3>3. \A v \in User : SameWrite(v)
      BY <1>a, <3>1, <3>2
    <3> QED BY <1>4, <1>7, <2>1, <3>3 DEF WritePromoted
  <2> QED BY <1>3, <1>7, <2>1 DEF WritePromoted
<1> QED BY <1>1, <1>2, <1>3, <1>5, <1>6, <1>7 DEF WriteStep, WriteRefused

LEMMA UserStepFlat ==
    ASSUME Sound, NEW u \in User, UserStep(u)
    PROVE  Stutters \/ Memory!Next
<1> USE DEF Sound, Accounts
<1>1. CASE WriteStep(u)
  BY <1>1, WriteStepFlat DEF Memory!Next
<1>a. \A v \in User \ {u} : call'[v] = call[v]
  BY UserStepCalls
<1>b. ASSUME UNCHANGED <<primary, secondary, implicit, wrote>>, NotWriting(u), NotWriting(u)'
      PROVE  Stutters
  <2>1. \A v \in User : SameWrite(v)
    BY <1>a, <1>b DEF SameWrite
  <2> QED BY <1>b, <2>1, CellsKept, WritingKept DEF Stutters, Logical
<1>2. ASSUME NEW t \in Tile, NEW s \in Slot, NEW v \in Val, StartWrite(u, t, s, v)
      PROVE  Memory!Next
  <2> DEFINE w == [tile |-> t, slot |-> s, val |-> v]
  <2>1. /\ call[u] = IdleCall /\ UNCHANGED <<primary, secondary, implicit, wrote>>
        /\ call'[u] = [op |-> "write", tile |-> t, slot |-> s, val |-> v, handle |-> None]
    BY <1>2 DEF StartWrite, tiles, Shapes
  <2>2. Writing[u] = None /\ \A x \in User : Writing'[x] = [Writing EXCEPT ![u] = w][x]
    BY <1>a, <2>1 DEF Writing, IdleCall
  <2>3. Writing' = [Writing EXCEPT ![u] = w]
    BY <2>2 DEF Writing
  <2>4. Cells' = Cells
    BY <2>1, CellsKept DEF Logical
  <2>5. w \in Memory!Write
    BY DEF Memory!Write
  <2>6. Memory!StartWrite(u, w)
    BY <2>1, <2>2, <2>3, <2>4 DEF Memory!StartWrite
  <2> HIDE DEF w
  <2> QED BY <2>5, <2>6 DEF Memory!Next
<1>3. CASE ReleaseEnds(u)
  <2>0. NotWriting(u) /\ NotWriting(u)'
    BY <1>3 DEF ReleaseEnds, NotWriting, IdleCall, Shapes
  <2>1. CASE call[u].failed
    BY <1>3, <1>b, <2>0, <2>1 DEF ReleaseEnds, tiles
  <2>2. CASE ~call[u].failed
    <3>1. primary' = NoCopy /\ secondary' = NoCopy /\ implicit' = {} /\ wrote' = wrote
      BY <1>3, <2>2 DEF ReleaseEnds
    <3>2. \A v \in User : SameWrite(v)
      BY <1>a, <2>0 DEF SameWrite
    <3>3. Cells' = [t \in Tile |-> None]
      BY <3>1 DEF Cells, Logical, NoCopy
    <3> QED BY <3>1, <3>2, <3>3, WritingKept DEF Memory!Next, Memory!Release
  <2> QED BY <2>1, <2>2
<1>4. CASE RequestReturns(u) \/ ReleaseMarks(u) \/ ReleaseStarts(u)
           \/ \E r \in Request, k \in Kind, T \in Prefetch : RequestResidency(u, r, k, T)
  <2>1. NotWriting(u) /\ NotWriting(u)' /\ UNCHANGED <<primary, secondary, implicit, wrote>>
    BY <1>4 DEF RequestReturns, ReleaseMarks, ReleaseStarts, RequestResidency, NotWriting,
       IdleCall, Shapes, tiles
  <2> QED BY <1>b, <2>1
<1>5. ASSUME NEW w \in Work, NEW d \in Demand, BeginWork(u, w, d) PROVE Stutters
  <2>1. NotWriting(u) /\ NotWriting(u)' /\ UNCHANGED <<primary, secondary, implicit, wrote>>
    BY <1>5 DEF BeginWork, NotWriting, IdleCall, tiles
  <2> QED BY <1>b, <2>1
<1>6. ASSUME NEW c \in Child, ReleaseChild(u, c) PROVE Stutters
  <2>1. call[u].op = "release" /\ call[u] \in Calls /\ UNCHANGED <<primary, secondary, implicit, wrote>>
    BY <1>6 DEF ReleaseChild, Shapes
  <2>2. \/ call'[u] = [call[u] EXCEPT !.todo = @ \ {c}]
        \/ call'[u] = [call[u] EXCEPT !.todo = @ \ {c}, !.failed = TRUE]
    BY <1>6 DEF ReleaseChild, Shapes
  <2>3. call'[u].op = "release"
    BY <2>1, <2>2 DEF Calls
  <2> QED BY <1>b, <2>1, <2>3 DEF NotWriting
<1> QED BY <1>1, <1>2, <1>3, <1>4, <1>5, <1>6 DEF UserStep, UserStarts, ReleaseStep

(* The carrier implements a flat memory: a write takes effect on its one   *)
(* element when it returns successfully or not at all; a promotion, an     *)
(* eviction, a work or a failure of one of them changes no value.          *)
THEOREM CarrierIsFlat == ASSUME OneCaller PROVE Spec => FlatMemory
<1>1. Init => Memory!Init
  <2> SUFFICES ASSUME Init PROVE Memory!Init
    OBVIOUS
  <2>1. Sound
    BY InitSound
  <2>2. \A t \in Tile : Logical(t) \in Contents \union {None}
    BY <2>1, TiledAssumption DEF Sound, Accounts, Shapes, Logical, Contents
  <2>3. Cells \in [Tile -> Memory!Contents \union {None}]
    BY <2>2 DEF Cells, Memory!Contents, Contents
  <2>4. Writing = [u \in User |-> None] /\ wrote = [u \in User |-> TRUE]
    BY DEF Init, Writing, IdleCall
  <2> QED BY <2>3, <2>4 DEF Memory!Init
<1>2. Sound /\ [Next]_vars => [Memory!Next]_(Memory!vars)
  <2> SUFFICES ASSUME Sound, [Next]_vars PROVE Stutters \/ Memory!Next
    BY DEF Stutters, Memory!vars
  <2>1. ASSUME NEW w \in Work, WorkStep(w) PROVE Stutters
    <3>1. UNCHANGED <<primary, secondary, implicit, call, wrote>>
      BY <2>1 DEF WorkStep, PromotionEnds, EndWork, EvictionEnds, CompleteWork, tiles
    <3> QED BY <3>1, CellsKept, WritingKept DEF Stutters, Logical, SameWrite
  <2>2. CASE UNCHANGED vars
    BY <2>2, CellsKept, WritingKept DEF Stutters, Logical, SameWrite, vars, tiles
  <2> QED BY <2>1, <2>2, RequestStepFlat, UserStepFlat DEF Next, UserStep
<1> QED BY <1>1, <1>2, SoundInvariant, PTL DEF Spec, FlatMemory, Memory!Spec
================================================================================
