--------------------------- MODULE TiledResidency ---------------------------
(***************************************************************************)
(* One TiledEvictable carrier (carriers/tiled_evictable/carrier.py): the   *)
(* tile records, the pins, the pending residency requests, the deferred    *)
(* evictions and the release, driven by the threads of the program and by  *)
(* the residency and selection workers.                                    *)
(*                                                                         *)
(* A block of the code that runs under self._lock is one step.  What runs  *)
(* outside the lock -- staging each transfer, the moves themselves,        *)
(* releasing the children one at a time, the gap between the end of        *)
(* _release_storage and the native released flag -- is a step of its own.  *)
(*                                                                         *)
(* A child carrier is represented by the contents it holds.  A staged      *)
(* transfer may fail to start, and a move may fail, at any time.           *)
(***************************************************************************)
EXTENDS Naturals, FiniteSets

CONSTANTS Tile, Slot, Val,
          Zero,       \* the implicit value (storage_zero of the dtype)
          None,
          User,       \* the threads of the program
          Releaser,   \* those of them that ever release the carrier
          Request,    \* identities of residency requests
          Work,       \* identities of projections, scatters and operations
          Demand,     \* what a work may ask for, with its policy's plan
          Prefetch    \* the tile sets a program thread promotes or evicts

Contents == [Slot -> Val]
Kind == {"promote", "evict"}
Demands == {d \in [required : SUBSET Tile, ensure : BOOLEAN,
                   promote : SUBSET Tile, retain : SUBSET Tile,
                   evict : SUBSET Tile] :
                /\ d.promote \intersect d.retain = {}
                /\ d.promote \intersect d.evict = {}
                /\ d.retain \intersect d.evict = {}}

ASSUME TiledAssumption ==
    /\ Zero \in Val
    /\ None \notin Contents
    /\ None \notin Request
    /\ None \notin [tile : Tile, slot : Slot, val : Val]
    /\ Releaser \subseteq User
    /\ Demand \subseteq Demands
    /\ Prefetch \subseteq SUBSET Tile
    /\ IsFiniteSet(Request) /\ IsFiniteSet(Work)

VARIABLES
    primary,     \* record.primary: contents of the compute-tier child, or None
    secondary,   \* record.secondary: contents of the backing-tier child, or None
    implicit,    \* the tiles whose record.implicit_value is set (to Zero)
    dirty,       \* the tiles whose record.dirty is set
    pins,        \* _pin_counts
    pending,     \* _pending_tiles
    requests,    \* _pending_requests
    active,      \* _active_work_requests
    deferred,    \* _deferred_evictions
    released,    \* is_released()
    gone,        \* children still referenced by a record but already released
    req,         \* the residency requests and their staged transfers
    work,        \* the work leases
    call,        \* what each program thread is doing
    wrote        \* whether the last write of each thread succeeded

tiles == <<primary, secondary, implicit, dirty, gone>>
counters == <<pins, pending, requests, active, deferred>>
vars == <<tiles, counters, released, req, work, call, wrote>>
-----------------------------------------------------------------------------
(* The shapes of the local state of requests, works and threads.           *)

NoCopy == [t \in Tile |-> None]

Requests == [phase : {"idle", "staging", "moving", "aborting", "committed", "done"},
             kind : Kind, tiles : SUBSET Tile,
             todo : SUBSET Tile,      \* actionable tiles not yet staged
             copy : [Tile -> Contents \union {None}],   \* the staged transfers
             fills : SUBSET Tile,     \* implicit tiles being materialized
             arrived : SUBSET Tile,   \* staged transfers whose move is terminal
             failed : BOOLEAN]

Blank(ph, bad) == [phase |-> ph, kind |-> "promote", tiles |-> {}, todo |-> {},
                   copy |-> NoCopy, fills |-> {}, arrived |-> {}, failed |-> bad]

InFlight(r) == req[r].phase \notin {"idle", "done"}
Staged(r) == {t \in Tile : req[r].copy[t] # None}

Leases == [phase : {"idle", "promoting", "body", "evicting", "completing"},
           demand : Demands, promotion : Request \union {None},
           eviction : Request \union {None}, ready : SUBSET Tile,
           failed : BOOLEAN]   \* completes with an error

NoDemand == [required |-> {}, ensure |-> FALSE, promote |-> {}, retain |-> {},
             evict |-> {}]
NoLease == [phase |-> "idle", demand |-> NoDemand, promotion |-> None,
            eviction |-> None, ready |-> {}, failed |-> FALSE]

(* to_promote and protected of _begin_tiled_work.                          *)
ToPromote(d) == d.promote \union (IF d.ensure THEN d.required ELSE {})
Protected(d) == d.required \union d.promote \union d.retain

(* A work holds its pins until _end_tiled_work.                            *)
Pinning(w) == work[w].phase \in {"promoting", "body"}

Child == Tile \X {"primary", "secondary"}
Calls == [op : {"idle"}]
         \union [op : {"stage"}, handle : Request]
         \union [op : {"write", "promote"}, tile : Tile, slot : Slot, val : Val,
                 handle : Request \union {None}]
         \union [op : {"release"}, todo : SUBSET Child, failed : BOOLEAN]
         \union [op : {"mark"}]
IdleCall == [op |-> "idle"]

(* The request ids nobody uses or waits for.                               *)
Free == {r \in Request :
            /\ ~InFlight(r)
            /\ \A w \in Work : work[w].phase # "idle" => r \notin {work[w].promotion, work[w].eviction}
            /\ \A u \in User : call[u].op \in {"stage", "write", "promote"} => call[u].handle # r}
-----------------------------------------------------------------------------
(* Decisions of _transition_async, all taken under the lock.               *)

Valid(t) == primary[t] # None \/ secondary[t] # None \/ t \in implicit

(* The tiles whose value has to move, and those with no stored value.      *)
Moves(k, T) == IF k = "promote" THEN {t \in T : primary[t] = None /\ secondary[t] # None}
                                ELSE {t \in T : primary[t] # None}
Fills(k, T) == IF k = "promote"
               THEN {t \in T : primary[t] = None /\ secondary[t] = None /\ t \in implicit}
               ELSE {}
Changes(k, T) == IF k = "promote" THEN {t \in T : primary[t] = None}
                                  ELSE {t \in T : primary[t] # None}

(* Mutant: the pins are not consulted.                                      *)
AdmissiblePinned(k, T, own, pin) ==
    /\ ~released
    /\ pending \intersect T = {}
    /\ k = "promote" => \A t \in T : Valid(t)

(* The request conflicts with no pending tile, moves no tile pinned by     *)
(* other work, and promotes no invalid tile.  own is the pinned_owner.     *)
Admissible(k, T, own, pin) ==
    /\ ~released
    /\ pending \intersect T = {}
    /\ \A t \in Changes(k, T) : pin[t] <= (IF t \in own THEN 1 ELSE 0)
    /\ k = "promote" => \A t \in T : Valid(t)

Source(k, t) == IF k = "promote" THEN secondary[t] ELSE primary[t]
SourceLive(k, t) == <<t, IF k = "promote" THEN "secondary" ELSE "primary">> \notin gone

Admitted(k, T) == [Blank("staging", FALSE) EXCEPT
                      !.kind = k, !.tiles = T, !.todo = Moves(k, T), !.fills = Fills(k, T)]

(* The request once the transfers of S are staged and the worker is        *)
(* submitted; failed when a later transfer could not be started.           *)
Submitted(k, T, S) == [Admitted(k, T) EXCEPT
                          !.phase = "moving", !.todo = {},
                          !.copy = [t \in Tile |-> IF t \in S THEN Source(k, t) ELSE None],
                          !.failed = S # Moves(k, T)]
Stageable(k, T) == {S \in SUBSET Moves(k, T) :
                       /\ \A t \in S : SourceLive(k, t)
                       /\ S = {} => Moves(k, T) = {}}
-----------------------------------------------------------------------------
Init ==
    /\ \/ /\ primary \in [Tile -> Contents]               \* a full primary seed
          /\ secondary = NoCopy /\ implicit = {}
          /\ dirty \in {{}, Tile}                          \* a scatter result
       \/ /\ secondary \in [Tile -> Contents]             \* a full secondary seed
          /\ primary = NoCopy /\ implicit = {} /\ dirty = {}
       \/ /\ implicit \in SUBSET Tile                     \* new_like, _implicit_zero_like
          /\ primary \in [Tile -> Contents \union {None}]
          /\ \A t \in Tile : (primary[t] = None) <=> (t \in implicit)
          /\ secondary = NoCopy /\ dirty = {}
       \/ /\ primary = NoCopy /\ secondary = NoCopy       \* an invalid allocation
          /\ implicit = {} /\ dirty = {}
    /\ pins = [t \in Tile |-> 0]
    /\ pending = {} /\ requests = 0 /\ active = 0 /\ deferred = {}
    /\ released = FALSE /\ gone = {}
    /\ req = [r \in Request |-> Blank("idle", FALSE)]
    /\ work = [w \in Work |-> NoLease]
    /\ call = [u \in User |-> IdleCall]
    /\ wrote = [u \in User |-> TRUE]
-----------------------------------------------------------------------------
(* Residency requests.                                                     *)

(* The locked part of _transition_async, for the thread in call c.  With   *)
(* nothing to do the handle is born completed.                             *)
Admit(r, k, T) ==
    /\ r \in Free
    /\ Admissible(k, T, {}, pins)
    /\ IF Moves(k, T) \union Fills(k, T) = {}
       THEN /\ req' = [req EXCEPT ![r] = Blank("done", FALSE)]
            /\ UNCHANGED <<pending, requests>>
       ELSE /\ req' = [req EXCEPT ![r] = Admitted(k, T)]
            /\ pending' = pending \union T
            /\ requests' = requests + 1

(* promote_async and evict_async of a program thread.                      *)
RequestResidency(u, r, k, T) ==
    /\ call[u] = IdleCall
    /\ Admit(r, k, T)
    /\ call' = [call EXCEPT ![u] = [op |-> "stage", handle |-> r]]
    /\ UNCHANGED <<tiles, pins, active, deferred, released, work, wrote>>

(* The thread has its handle back: staging is over and the worker runs.    *)
RequestReturns(u) ==
    /\ call[u].op = "stage"
    /\ req[call[u].handle].phase \notin {"staging", "aborting"}
    /\ call' = [call EXCEPT ![u] = IdleCall]
    /\ UNCHANGED <<tiles, counters, released, req, work, wrote>>

(* _stage_transfer copies the source under owner access, outside the lock. *)
StageTransfer(r, t) ==
    /\ req[r].phase = "staging"
    /\ t \in req[r].todo
    /\ SourceLive(req[r].kind, t)
    /\ req' = [req EXCEPT ![r].todo = @ \ {t},
                          ![r].copy[t] = Source(req[r].kind, t)]
    /\ UNCHANGED <<tiles, counters, released, work, call, wrote>>

(* Mutants: one request counted per tile; the count not given back.         *)
EndPendingTiles(r) == /\ pending' = pending \ req[r].tiles
                      /\ requests' = requests - Cardinality(req[r].tiles)
EndPendingUncounted(r) == /\ pending' = pending \ req[r].tiles
                          /\ UNCHANGED requests

EndPending(r) == /\ pending' = pending \ req[r].tiles
                 /\ requests' = requests - 1

(* Materializing an implicit tile or staging the first transfer raises:    *)
(* nothing has started and the request is withdrawn.                       *)
FirstStageFails(r) ==
    /\ req[r].phase = "staging" /\ Staged(r) = {}
    /\ req' = [req EXCEPT ![r] = Blank("done", TRUE)]
    /\ EndPending(r)
    /\ UNCHANGED <<tiles, pins, active, deferred, released, work, call, wrote>>

(* A later transfer fails: it becomes setup_error, the rest is not staged. *)
LaterStageFails(r) ==
    /\ req[r].phase = "staging" /\ Staged(r) # {} /\ req[r].todo # {}
    /\ req' = [req EXCEPT ![r].todo = {}, ![r].failed = TRUE]
    /\ UNCHANGED <<tiles, counters, released, work, call, wrote>>

(* The worker is submitted, or the executor refuses it and the calling     *)
(* thread waits for the transfers before it withdraws the request.         *)
SubmitWorker(r) ==
    /\ req[r].phase = "staging" /\ req[r].todo = {}
    /\ \/ req' = [req EXCEPT ![r].phase = "moving"]
       \/ req' = [req EXCEPT ![r].phase = "aborting", ![r].failed = TRUE]
    /\ UNCHANGED <<tiles, counters, released, work, call, wrote>>

(* The move of a staged transfer becomes terminal.                         *)
MoveEnds(r, t) ==
    /\ InFlight(r)
    /\ t \in Staged(r) \ req[r].arrived
    /\ \E bad \in BOOLEAN :
          req' = [req EXCEPT ![r].arrived = @ \union {t}, ![r].failed = @ \/ bad]
    /\ UNCHANGED <<tiles, counters, released, work, call, wrote>>

AllArrived(r) == req[r].arrived = Staged(r)

(* A child that leaves its record is released by the worker; a release     *)
(* under way would find it released already.                               *)
Detach(C) ==
    /\ gone' = gone \ C
    /\ call' = [u \in User |-> IF call[u].op = "release"
                               THEN [call[u] EXCEPT !.todo = @ \ C] ELSE call[u]]

(* Mutant: the secondary child stays in the record.                         *)
CommitPromotionKeeping(r) ==
    LET new == Staged(r) \union req[r].fills
    IN /\ primary' = [t \in Tile |-> IF t \in req[r].fills THEN [s \in Slot |-> Zero]
                                     ELSE IF t \in new THEN req[r].copy[t] ELSE primary[t]]
       /\ implicit' = implicit \ new
       /\ dirty' = dirty \ new
       /\ UNCHANGED secondary /\ Detach({})

CommitPromotion(r) ==
    LET new == Staged(r) \union req[r].fills
    IN /\ primary' = [t \in Tile |-> IF t \in req[r].fills THEN [s \in Slot |-> Zero]
                                     ELSE IF t \in new THEN req[r].copy[t] ELSE primary[t]]
       /\ secondary' = [t \in Tile |-> IF t \in new THEN None ELSE secondary[t]]
       /\ implicit' = implicit \ new
       /\ dirty' = dirty \ new
       /\ Detach(new \X {"secondary"})

CommitEviction(r) ==
    LET old == {t \in req[r].tiles : primary[t] # None}
        new == old \intersect Staged(r)
    IN /\ primary' = [t \in Tile |-> IF t \in old THEN None ELSE primary[t]]
       /\ secondary' = [t \in Tile |-> IF t \in new THEN req[r].copy[t] ELSE secondary[t]]
       /\ implicit' = implicit \ new
       /\ dirty' = dirty \ old
       /\ Detach((old \X {"primary"}) \union (new \X {"secondary"}))

(* _commit_transition, once the worker has waited for every move.          *)
CommitTransition(r) ==
    /\ req[r].phase = "moving" /\ AllArrived(r)
    /\ ~req[r].failed /\ ~released
    /\ IF req[r].kind = "promote" THEN CommitPromotion(r) ELSE CommitEviction(r)
    /\ req' = [req EXCEPT ![r].phase = "committed"]
    /\ UNCHANGED <<counters, released, work, wrote>>

(* A move failed, or the carrier was released meanwhile: staged carriers   *)
(* are cleaned up, the request ends failed and no tile has changed.        *)
FailTransition(r) ==
    /\ req[r].phase \in {"moving", "aborting"} /\ AllArrived(r)
    /\ req[r].failed \/ released
    /\ req' = [req EXCEPT ![r] = Blank("done", TRUE)]
    /\ EndPending(r)
    /\ UNCHANGED <<tiles, pins, active, deferred, released, work, call, wrote>>

FinishTransition(r) ==
    /\ req[r].phase = "committed"
    /\ req' = [req EXCEPT ![r] = Blank("done", FALSE)]
    /\ EndPending(r)
    /\ UNCHANGED <<tiles, pins, active, deferred, released, work, call, wrote>>

RequestStep(r) ==
    \/ \E t \in Tile : StageTransfer(r, t) \/ MoveEnds(r, t)
    \/ FirstStageFails(r) \/ LaterStageFails(r) \/ SubmitWorker(r)
    \/ CommitTransition(r) \/ FailTransition(r) \/ FinishTransition(r)
-----------------------------------------------------------------------------
(* Writing one element: _write, a loop around the lock.                    *)

StartWrite(u, t, s, v) ==
    /\ call[u] = IdleCall
    /\ ~released
    /\ call' = [call EXCEPT ![u] = [op |-> "write", tile |-> t, slot |-> s, val |-> v,
                                    handle |-> None]]
    /\ UNCHANGED <<tiles, counters, released, req, work, wrote>>

(* The thread is at the top of the loop.                                   *)
Looping(u) == call[u].op = "write" /\ call[u].handle = None
(* Mutant: pending tiles may be written.                                    *)
OpenPending(t) == pins[t] = 0
Open(t) == t \notin pending /\ pins[t] = 0
WriteReturns(u, ok) == /\ call' = [call EXCEPT ![u] = IdleCall]
                       /\ wrote' = [wrote EXCEPT ![u] = ok]

(* Pending, pinned, invalid, or a child that is released already.          *)
WriteRefused(u) ==
    /\ Looping(u)
    /\ LET t == call[u].tile
       IN \/ ~Open(t)
          \/ ~Valid(t)
          \/ primary[t] # None /\ <<t, "primary">> \in gone
    /\ WriteReturns(u, FALSE)
    /\ UNCHANGED <<tiles, counters, released, req, work>>

WriteResident(u) ==
    /\ Looping(u)
    /\ LET t == call[u].tile
       IN /\ Open(t) /\ primary[t] # None /\ <<t, "primary">> \notin gone
          /\ primary' = [primary EXCEPT ![t][call[u].slot] = call[u].val]
          /\ dirty' = dirty \union {t}
          /\ implicit' = implicit \ {t}
    /\ WriteReturns(u, TRUE)
    /\ UNCHANGED <<secondary, gone, counters, released, req, work>>

(* An implicit tile already reads as Zero; any other value materializes it *)
(* (or fails to) and goes round the loop.                                  *)
WriteImplicit(u) ==
    /\ Looping(u)
    /\ LET t == call[u].tile
       IN /\ Open(t) /\ primary[t] = None /\ secondary[t] = None /\ t \in implicit
          /\ \/ /\ call[u].val = Zero
                /\ WriteReturns(u, TRUE)
                /\ UNCHANGED <<primary, implicit>>
             \/ /\ call[u].val # Zero
                /\ primary' = [primary EXCEPT ![t] = [s \in Slot |-> Zero]]
                /\ implicit' = implicit \ {t}
                /\ UNCHANGED <<call, wrote>>
             \/ /\ call[u].val # Zero
                /\ WriteReturns(u, FALSE)
                /\ UNCHANGED <<primary, implicit>>
    /\ UNCHANGED <<secondary, dirty, gone, counters, released, req, work>>

(* A secondary tile is promoted first, after the lock is dropped.          *)
WriteEvicted(u) ==
    /\ Looping(u)
    /\ LET t == call[u].tile IN Open(t) /\ primary[t] = None /\ secondary[t] # None
    /\ call' = [call EXCEPT ![u].op = "promote"]
    /\ UNCHANGED <<tiles, counters, released, req, work, wrote>>

WritePromotes(u) ==
    /\ call[u].op = "promote" /\ call[u].handle = None
    /\ LET T == {call[u].tile}
       IN \/ /\ ~Admissible("promote", T, {}, pins)
             /\ WriteReturns(u, FALSE)
             /\ UNCHANGED <<req, pending, requests>>
          \/ \E r \in Free : /\ Admit(r, "promote", T)
                             /\ call' = [call EXCEPT ![u].handle = r]
                             /\ UNCHANGED wrote
    /\ UNCHANGED <<tiles, pins, active, deferred, released, work>>

WritePromoted(u) ==
    /\ call[u].op = "promote" /\ call[u].handle # None
    /\ req[call[u].handle].phase = "done"
    /\ IF req[call[u].handle].failed
       THEN WriteReturns(u, FALSE)
       ELSE /\ call' = [call EXCEPT ![u].op = "write", ![u].handle = None]
            /\ UNCHANGED wrote
    /\ UNCHANGED <<tiles, counters, released, req, work>>

WriteStep(u) == WriteRefused(u) \/ WriteResident(u) \/ WriteImplicit(u)
                \/ WriteEvicted(u) \/ WritePromotes(u) \/ WritePromoted(u)
-----------------------------------------------------------------------------
(* Work: a projection, a scatter, a direct operation or its backward.      *)

Pinned(d) == [t \in Tile |-> IF t \in Protected(d) THEN pins[t] + 1 ELSE pins[t]]
Unpinned(d) == [t \in Tile |-> IF t \in Protected(d) THEN pins[t] - 1 ELSE pins[t]]

(* A request made while the lock is held: staging and submission happen in *)
(* the same step.                                                          *)
LaunchLocked(r, k, T) ==
    IF Moves(k, T) \union Fills(k, T) = {}
    THEN /\ req' = [req EXCEPT ![r] = Blank("done", FALSE)]
         /\ UNCHANGED <<pending, requests>>
    ELSE /\ \E S \in Stageable(k, T) : req' = [req EXCEPT ![r] = Submitted(k, T, S)]
         /\ pending' = pending \union T
         /\ requests' = requests + 1

(* _begin_tiled_work; when it raises it has undone its pins.               *)
BeginWork(u, w, d) ==
    /\ call[u] = IdleCall
    /\ work[w].phase = "idle"
    /\ pending \intersect Protected(d) = {}
    /\ Admissible("promote", ToPromote(d), Protected(d), Pinned(d))
    /\ \E r \in Free :
          /\ LaunchLocked(r, "promote", ToPromote(d))
          /\ work' = [work EXCEPT ![w] = [NoLease EXCEPT !.phase = "promoting",
                                             !.demand = d, !.promotion = r]]
    /\ pins' = Pinned(d)
    /\ active' = active + 1
    /\ UNCHANGED <<tiles, deferred, released, call, wrote>>

(* The work has waited for its promotion and uses the tiles.               *)
PromotionEnds(w) ==
    /\ work[w].phase = "promoting"
    /\ req[work[w].promotion].phase = "done" /\ ~req[work[w].promotion].failed
    /\ work' = [work EXCEPT ![w].phase = "body"]
    /\ UNCHANGED <<tiles, counters, released, req, call, wrote>>

(* The locked part of _end_tiled_work.  A work that failed before its body *)
(* (its promotion failed, reading the ready tiles failed, the executor     *)
(* refused it) does not apply its policy's evictions.                      *)
EndWork(w, apply) ==
    /\ \/ work[w].phase = "body"
       \/ work[w].phase = "promoting" /\ ~apply
    /\ LET d == work[w].demand
           later == deferred \union (IF apply THEN d.evict ELSE {})
           ready == {t \in later : Unpinned(d)[t] = 0 /\ t \notin pending}
       IN /\ pins' = Unpinned(d)
          /\ \/ \* nothing is ready, or starting the eviction raises
                /\ ready = {} \/ released \/ Moves("evict", ready) # {}
                /\ deferred' = later
                /\ work' = [work EXCEPT ![w].phase = "completing",
                                        ![w].failed = ~apply \/ ready # {}]
                /\ UNCHANGED <<req, pending, requests>>
             \/ \* nothing ready is in primary: the eviction is complete at once
                /\ ready # {} /\ ~released /\ Moves("evict", ready) = {}
                /\ deferred' = later \ ready
                /\ work' = [work EXCEPT ![w].phase = "completing", ![w].failed = ~apply]
                /\ UNCHANGED <<req, pending, requests>>
             \/ /\ Moves("evict", ready) # {} /\ Admissible("evict", ready, {}, Unpinned(d))
                /\ deferred' = later \ ready
                /\ \E r \in Free :
                      /\ LaunchLocked(r, "evict", ready)
                      /\ work' = [work EXCEPT ![w].phase = "evicting", ![w].eviction = r,
                                              ![w].ready = ready, ![w].failed = ~apply]
    /\ UNCHANGED <<tiles, active, released, call, wrote>>

(* Mutant: a failed policy eviction is never observed.                      *)
EvictionEndsWell(w) ==
    /\ work[w].phase = "evicting"
    /\ req[work[w].eviction].phase = "done" /\ ~req[work[w].eviction].failed
    /\ work' = [work EXCEPT ![w].phase = "completing"]
    /\ UNCHANGED <<tiles, counters, released, req, call, wrote>>

(* The rest of _end_tiled_work: a failed eviction stays deferred.          *)
EvictionEnds(w) ==
    /\ work[w].phase = "evicting"
    /\ req[work[w].eviction].phase = "done"
    /\ deferred' = IF req[work[w].eviction].failed
                   THEN deferred \union work[w].ready ELSE deferred
    /\ work' = [work EXCEPT ![w].phase = "completing",
                            ![w].failed = @ \/ req[work[w].eviction].failed]
    /\ UNCHANGED <<tiles, pins, pending, requests, active, released, req, call, wrote>>

(* The work becomes terminal and publishes its outcome.                    *)
CompleteWork(w) ==
    /\ work[w].phase = "completing"
    /\ work' = [work EXCEPT ![w] = NoLease]
    /\ active' = active - 1
    /\ UNCHANGED <<tiles, pins, pending, requests, deferred, released, req, call, wrote>>

WorkStep(w) == PromotionEnds(w) \/ (\E apply \in BOOLEAN : EndWork(w, apply))
               \/ EvictionEnds(w) \/ CompleteWork(w)
-----------------------------------------------------------------------------
(* Release: _release_storage, then the native flag.                        *)

Held == {<<t, "primary">> : t \in {x \in Tile : primary[x] # None}}
        \union {<<t, "secondary">> : t \in {x \in Tile : secondary[x] # None}}

ReleaseStarts(u) ==
    /\ call[u] = IdleCall
    /\ ~released
    /\ requests = 0 /\ active = 0
    /\ call' = [call EXCEPT ![u] = [op |-> "release", todo |-> Held, failed |-> FALSE]]
    /\ UNCHANGED <<tiles, counters, released, req, work, wrote>>

(* Mutant: an error is swallowed.                                           *)
ReleaseChildQuietly(u, c) ==
    /\ call[u].op = "release"
    /\ c \in call[u].todo
    /\ call' = [call EXCEPT ![u].todo = @ \ {c}]
    /\ gone' \in {gone, gone \union {c}}
    /\ UNCHANGED <<primary, secondary, implicit, dirty, counters, released, req, work, wrote>>

(* Each child is released outside the lock; one that raises stays live.    *)
ReleaseChild(u, c) ==
    /\ call[u].op = "release"
    /\ c \in call[u].todo
    /\ \/ /\ gone' = gone \union {c}
          /\ call' = [call EXCEPT ![u].todo = @ \ {c}]
       \/ /\ call' = [call EXCEPT ![u].todo = @ \ {c}, ![u].failed = TRUE]
          /\ UNCHANGED gone
    /\ UNCHANGED <<primary, secondary, implicit, dirty, counters, released, req, work, wrote>>

(* The first error is raised and the carrier stays live; otherwise the     *)
(* records are cleared.                                                    *)
ReleaseEnds(u) ==
    /\ call[u].op = "release" /\ call[u].todo = {}
    /\ IF call[u].failed
       THEN /\ call' = [call EXCEPT ![u] = IdleCall]
            /\ UNCHANGED <<tiles, deferred>>
       ELSE /\ primary' = NoCopy /\ secondary' = NoCopy
            /\ implicit' = {} /\ dirty' = {} /\ deferred' = {} /\ gone' = {}
            /\ call' = [call EXCEPT ![u] = [op |-> "mark"]]
    /\ UNCHANGED <<pins, pending, requests, active, released, req, work, wrote>>

(* Carrier::release sets is_released_ after _release returned.             *)
ReleaseMarks(u) ==
    /\ call[u].op = "mark"
    /\ released' = TRUE
    /\ call' = [call EXCEPT ![u] = IdleCall]
    /\ UNCHANGED <<tiles, counters, req, work, wrote>>

ReleaseStep(u) == (\E c \in Child : ReleaseChild(u, c)) \/ ReleaseEnds(u) \/ ReleaseMarks(u)
-----------------------------------------------------------------------------
UserStarts(u) ==
    \/ \E r \in Request, k \in Kind, T \in Prefetch : RequestResidency(u, r, k, T)
    \/ \E t \in Tile, s \in Slot, v \in Val : StartWrite(u, t, s, v)
    \/ \E w \in Work, d \in Demand : BeginWork(u, w, d)
    \/ u \in Releaser /\ ReleaseStarts(u)

Next == \/ \E r \in Request : RequestStep(r)
        \/ \E w \in Work : WorkStep(w)
        \/ \E u \in User : UserStarts(u) \/ RequestReturns(u) \/ WriteStep(u) \/ ReleaseStep(u)

Spec == Init /\ [][Next]_vars

(* Threads and workers keep running and every move ends; nobody has to     *)
(* start anything.                                                         *)
Fairness == /\ \A r \in Request : WF_vars(RequestStep(r))
            /\ \A w \in Work : WF_vars(WorkStep(w))
            /\ \A u \in User : WF_vars(RequestReturns(u) \/ WriteStep(u) \/ ReleaseStep(u))

FairSpec == Spec /\ Fairness
-----------------------------------------------------------------------------
TypeOK ==
    /\ primary \in [Tile -> Contents \union {None}]
    /\ secondary \in [Tile -> Contents \union {None}]
    /\ implicit \in SUBSET Tile /\ dirty \in SUBSET Tile
    /\ gone \in SUBSET Child
    /\ pins \in [Tile -> Nat] /\ pending \in SUBSET Tile
    /\ requests \in Nat /\ active \in Nat
    /\ deferred \in SUBSET Tile
    /\ released \in BOOLEAN
    /\ req \in [Request -> Requests]
    /\ work \in [Work -> Leases]
    /\ call \in [User -> Calls]
    /\ wrote \in [User -> BOOLEAN]
-----------------------------------------------------------------------------
(* The value a reader of tile t finds, whatever tier holds it.             *)
Logical(t) == IF primary[t] # None THEN primary[t]
              ELSE IF secondary[t] # None THEN secondary[t]
              ELSE IF t \in implicit THEN [s \in Slot |-> Zero] ELSE None

(* A tile has one home: _read prefers the primary child and eviction       *)
(* overwrites the secondary one, so a second copy would be a stale value   *)
(* waiting to come back.  Only primary tiles are ever dirty.               *)
OneHome ==
    /\ \A t \in Tile : /\ primary[t] # None => secondary[t] = None /\ t \notin implicit
                       /\ secondary[t] # None => t \notin implicit
    /\ \A t \in dirty : primary[t] # None

(* The admission checks look at _pending_tiles, _pin_counts and the two    *)
(* counters only.  They tell the truth at every moment: requests in flight *)
(* cover disjoint tiles, and every exit of a request or of a work, failed  *)
(* or not, gives back exactly what its entry took.                         *)
CountersExact ==
    /\ \A q, r \in Request : q # r /\ InFlight(q) /\ InFlight(r)
                                => req[q].tiles \intersect req[r].tiles = {}
    /\ pending = UNION {req[r].tiles : r \in {q \in Request : InFlight(q)}}
    /\ requests = Cardinality({r \in Request : InFlight(r)})
    /\ active = Cardinality({w \in Work : work[w].phase # "idle"})
    /\ \A t \in Tile : pins[t] = Cardinality({w \in Work : Pinning(w) /\ t \in Protected(work[w].demand)})

(* What a request has decided under the lock and staged outside it, long   *)
(* before its commit, stays true until that commit: a staged copy is what  *)
(* the tile holds now, a promotion overwrites no primary child, and an     *)
(* eviction that has not failed has a copy of every primary child it is    *)
(* going to drop.                                                          *)
RequestShape ==
    \A r \in Request : InFlight(r) /\ req[r].phase # "committed" =>
        /\ req[r].todo \union Staged(r) \union req[r].fills \subseteq req[r].tiles
        /\ req[r].phase # "staging" => req[r].todo = {}
        /\ \A t \in Staged(r) : req[r].copy[t] = Source(req[r].kind, t)
        /\ req[r].kind = "promote" =>
              /\ \A t \in req[r].todo \union Staged(r) : primary[t] = None /\ secondary[t] # None
              /\ \A t \in req[r].fills : primary[t] = None /\ secondary[t] = None /\ t \in implicit
        /\ req[r].kind = "evict" =>
              /\ req[r].fills = {}
              /\ \A t \in req[r].todo \union Staged(r) : primary[t] # None
              /\ ~req[r].failed => \A t \in req[r].tiles : primary[t] # None => t \in req[r].todo \union Staged(r)

(* The thread that releases the carrier is the only program thread.        *)
OneCaller == \A u \in Releaser, v \in User : u = v

(* Under that discipline a release meets no request and no work.           *)
ReleaseAlone ==
    \A u \in User : call[u].op \in {"release", "mark"} =>
        /\ u \in Releaser
        /\ \A r \in Request : ~InFlight(r)
        /\ \A w \in Work : work[w].phase = "idle"

(* While a work computes, every tile it asked for is in primary storage.   *)
BodyResident ==
    \A w \in Work : work[w].phase = "body" =>
        \A t \in ToPromote(work[w].demand) : primary[t] # None

(* From its initiation until it unpins them, no step of any other thread   *)
(* changes the value of a work's tiles or takes one out of primary: the    *)
(* projection reads some of them when it is called and the rest on its     *)
(* worker, and must see one state of the tensor.                           *)
PinnedUntouched ==
    /\ []BodyResident
    /\ [][\A w \in Work : Pinning(w) /\ Pinning(w)' =>
             \A t \in Protected(work[w].demand) :
                /\ Logical(t)' = Logical(t)
                /\ primary[t] # None => primary'[t] # None]_vars

(* release() fails while a request or a work is not terminal, and then it  *)
(* releases no tile.                                                       *)
ReleaseWaits == [][gone' \ gone # {} => requests = 0 /\ active = 0]_vars

(* A release by the only program thread meets nothing in flight, and it    *)
(* leaves no child carrier live: the records are cleared only when every   *)
(* child they hold has been released, and nothing is installed afterwards. *)
ReleaseLeaksNothing ==
    /\ []ReleaseAlone
    /\ [][\A u \in User : call[u].op = "release" /\ call'[u].op = "mark" => Held \subseteq gone]_vars
    /\ [](released => Held = {})

(* Every residency request and every work becomes terminal, whatever       *)
(* fails on the way.                                                       *)
EveryRequestEnds == /\ \A r \in Request : InFlight(r) ~> ~InFlight(r)
                    /\ \A w \in Work : work[w].phase # "idle" ~> work[w].phase = "idle"

(* The carrier is a flat memory: see TiledMemory.                          *)
Cells == [t \in Tile |-> Logical(t)]
Writing == [u \in User |-> IF call[u].op \in {"write", "promote"}
                           THEN [tile |-> call[u].tile, slot |-> call[u].slot, val |-> call[u].val]
                           ELSE None]
Memory == INSTANCE TiledMemory WITH cell <- Cells, writing <- Writing
FlatMemory == Memory!Spec
=============================================================================
