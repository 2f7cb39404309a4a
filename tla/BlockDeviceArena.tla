-------------------------- MODULE BlockDeviceArena --------------------------
(***************************************************************************)
(* One BlockDevice and its carriers (carriers/block_device/carrier.py):    *)
(* the free ranges, allocation and initialization, transfers, release, the *)
(* finalizer of a carrier nobody references, faults and close.             *)
(*                                                                         *)
(* The device lock is explicit.  A block that only computes under the lock *)
(* is one step; a block that does device I/O takes the lock in one step    *)
(* and lets the I/O end, and the lock go, in a second one.  Positions and  *)
(* sizes count Float32 slots.  The overflow checks against _INDEX_MAX are  *)
(* left out: a capacity is far below it.                                   *)
(***************************************************************************)
EXTENDS Integers, FiniteSets

CONSTANTS User,         \* threads
          Carrier,      \* carrier objects; one that was collected is reused
          Val,          \* element values; a carrier filled with zeros holds one of them
          Capacity,     \* capacity_bytes
          Alignment,    \* allocation_alignment
          Size,         \* the sizes asked for
          Window,       \* the slots that transfers ask for
          MaxVersion,   \* bound on the version of a carrier
          None

ASSUME ArenaAssumption ==
    /\ Capacity \in Nat \ {0} /\ Alignment \in Nat \ {0}
    /\ Size \subseteq Nat
    /\ Window \subseteq SUBSET Int
    /\ MaxVersion \in Nat
    /\ None \notin User /\ None \notin Val
    /\ None \notin Int /\ None \notin Int \X Int

VARIABLES
    free,       \* _free_ranges: pairs of a start and a length
    extent,     \* _allocations: the reserved range of a carrier, or None
    size,       \* _size
    object,     \* the life of each carrier object
    released,   \* is_released()
    version,    \* version()
    device,     \* its contents; None is what a slot held when it was opened
    holder,     \* the thread in a block under _lock that does I/O, or None
    faulted, closed,
    call        \* what each thread is doing

allocation == <<free, extent, size>>
health == <<faulted, closed>>
vars == <<allocation, object, released, version, device, holder, health, call>>

Position == 0 .. Capacity - 1
Ranges == (0 .. Capacity) \X (0 .. Capacity)
Objects == {"none", "pending", "live", "retired"}

Calls == [op : {"idle"}]
         \union [op : {"allocate"}, carrier : Carrier, size : Size, val : Val \union {None}]
         \union [op : {"read", "write"}, carrier : Carrier, window : Window, val : Val \union {None},
                 before : 0 .. MaxVersion, at : 0 .. Capacity]
         \union [op : {"release", "mark"}, carrier : Carrier]
IdleCall == [op |-> "idle"]
Idle(u) == call[u] = IdleCall
Returns(u) == call' = [call EXCEPT ![u] = IdleCall]
-----------------------------------------------------------------------------
(* Free ranges.                                                            *)

RoundUp(n) == ((n + Alignment - 1) \div Alignment) * Alignment
Stop(r) == r[1] + r[2]

(* Mutant: only the start of a range is looked at.                         *)
SuitableAnywhere(n) == {r \in free : RoundUp(r[1]) < Stop(r)}

(* The free ranges in which n aligned slots fit.                           *)
Suitable(n) == {r \in free : RoundUp(r[1]) + n <= Stop(r)}
Lowest(R) == CHOOSE r \in R : \A q \in R : r[1] <= q[1]

(* What is left of free range r around the n slots from a on.              *)
Rest(r, a, n) == {q \in {<<r[1], a - r[1]>>, <<a + n, Stop(r) - (a + n)>>} : q[2] > 0}

(* Mutant: a freed range is not joined with the one after it.              *)
WithFreedLeftOnly(e) ==
    IF e[2] = 0 THEN free
    ELSE LET left == {r \in free : Stop(r) = e[1]}
             first == IF left = {} THEN e[1] ELSE Lowest(left)[1]
         IN (free \ left) \union {<<first, Stop(e) - first>>}

(* _free_locked: the list is sorted and joined, so that range e grows by   *)
(* the free ranges that touch it.                                          *)
WithFreed(e) ==
    IF e[2] = 0 THEN free
    ELSE LET left == {r \in free : Stop(r) = e[1]}
             right == {r \in free : r[1] = Stop(e)}
             first == IF left = {} THEN e[1] ELSE Lowest(left)[1]
             last == IF right = {} THEN Stop(e) ELSE Stop(Lowest(right))
         IN (free \ (left \union right)) \union {<<first, last - first>>}
-----------------------------------------------------------------------------
Init ==
    /\ free = {<<0, Capacity>>}
    /\ extent = [c \in Carrier |-> None]
    /\ size = [c \in Carrier |-> 0]
    /\ object = [c \in Carrier |-> "none"]
    /\ released = {}
    /\ version = [c \in Carrier |-> 0]
    /\ device = [x \in Position |-> None]
    /\ holder = None
    /\ faulted = FALSE /\ closed = FALSE
    /\ call = [u \in User |-> IdleCall]
-----------------------------------------------------------------------------
(* Allocation: allocate, allocate_like and new_like.                       *)

(* The inputs are normalized and a carrier object is created, unlocked.    *)
(* All its slots start as v, or as they are if v is None (empty=True).     *)
CallAllocate(u, c, n, v) ==
    /\ Idle(u) /\ object[c] = "none"
    /\ object' = [object EXCEPT ![c] = "pending"]
    /\ call' = [call EXCEPT ![u] = [op |-> "allocate", carrier |-> c, size |-> n, val |-> v]]
    /\ UNCHANGED <<allocation, released, version, device, holder, health>>

(* Closed, faulted or no range large enough: nothing is reserved.          *)
RefuseAllocation(u) ==
    /\ call[u].op = "allocate" /\ holder = None
    /\ \/ closed \/ faulted
       \/ call[u].size > 0 /\ Suitable(RoundUp(call[u].size)) = {}
    /\ object' = [object EXCEPT ![call[u].carrier] = "none"]
    /\ Returns(u)
    /\ UNCHANGED <<allocation, released, version, device, holder, health>>

(* _reserve_locked; then the initialization starts.                        *)
Reserve(u) ==
    /\ call[u].op = "allocate" /\ holder = None
    /\ ~closed /\ ~faulted
    /\ LET c == call[u].carrier
           n == RoundUp(call[u].size)
       IN IF n = 0
          THEN /\ extent' = [extent EXCEPT ![c] = <<0, 0>>]
               /\ UNCHANGED free
          ELSE /\ Suitable(n) # {}
               /\ LET r == Lowest(Suitable(n))
                      a == RoundUp(r[1])
                  IN /\ extent' = [extent EXCEPT ![c] = <<a, n>>]
                     /\ free' = (free \ {r}) \union Rest(r, a, n)
    /\ holder' = u
    /\ UNCHANGED <<size, object, released, version, device, health, call>>

(* The device after the first n slots of u's new carrier are initialized.  *)
Initialized(u, n) ==
    LET a == extent[call[u].carrier][1]
    IN [x \in Position |-> IF call[u].val # None /\ x \in a .. a + n - 1
                           THEN call[u].val ELSE device[x]]

Activate(u) ==
    /\ call[u].op = "allocate" /\ holder = u
    /\ device' = Initialized(u, call[u].size)
    /\ object' = [object EXCEPT ![call[u].carrier] = "live"]
    /\ size' = [size EXCEPT ![call[u].carrier] = call[u].size]
    /\ holder' = None
    /\ Returns(u)
    /\ UNCHANGED <<free, extent, released, version, health>>

(* Mutant: the reserved range is not given back.                           *)
AbandonAllocationKeeping(u) ==
    /\ call[u].op = "allocate" /\ holder = u
    /\ \/ device' = Initialized(u, call[u].size) /\ UNCHANGED faulted
       \/ /\ call[u].val # None
          /\ faulted' = TRUE
          /\ \E n \in 0 .. call[u].size - 1 : device' = Initialized(u, n)
    /\ object' = [object EXCEPT ![call[u].carrier] = "none"]
    /\ extent' = [extent EXCEPT ![call[u].carrier] = None]
    /\ holder' = None
    /\ Returns(u)
    /\ UNCHANGED <<free, size, released, version, closed>>

(* The initialization fails after some of the slots, and the device is     *)
(* faulted, or installing the carrier raises.  The range is free again.    *)
AbandonAllocation(u) ==
    /\ call[u].op = "allocate" /\ holder = u
    /\ \/ device' = Initialized(u, call[u].size) /\ UNCHANGED faulted
       \/ /\ call[u].val # None
          /\ faulted' = TRUE
          /\ \E n \in 0 .. call[u].size - 1 : device' = Initialized(u, n)
    /\ object' = [object EXCEPT ![call[u].carrier] = "none"]
    /\ free' = WithFreed(extent[call[u].carrier])
    /\ extent' = [extent EXCEPT ![call[u].carrier] = None]
    /\ holder' = None
    /\ Returns(u)
    /\ UNCHANGED <<size, released, version, closed>>
-----------------------------------------------------------------------------
(* Transfers: get_value, set_value, and the CPU moves in either direction. *)

CallTransfer(u, c, op, w, v) ==
    /\ Idle(u) /\ object[c] \in {"live", "retired"}
    /\ call' = [call EXCEPT ![u] = [op |-> op, carrier |-> c, window |-> w, val |-> v,
                                    before |-> version[c], at |-> 0]]
    /\ UNCHANGED <<allocation, object, released, version, device, holder, health>>

InTransfer(u) == call[u].op \in {"read", "write"}

(* The checks made again under the lock.                                   *)
Accessible(c, w) == /\ object[c] = "live" /\ c \notin released
                    /\ ~closed /\ ~faulted
                    /\ w \subseteq 0 .. size[c] - 1

(* Inaccessible, out of bounds, not mutable, or owned by a move.           *)
RefuseTransfer(u) ==
    /\ InTransfer(u) /\ holder = None
    /\ Returns(u)
    /\ UNCHANGED <<allocation, object, released, version, device, holder, health>>

(* Mutant: the version does not move.                                      *)
StartTransferUnversioned(u) ==
    /\ InTransfer(u) /\ holder = None
    /\ Accessible(call[u].carrier, call[u].window)
    /\ holder' = u
    /\ call' = [call EXCEPT ![u].at = extent[call[u].carrier][1]]
    /\ UNCHANGED <<allocation, object, released, version, device, health>>

(* A write moves the version just before its first attempt.                *)
StartTransfer(u) ==
    /\ InTransfer(u) /\ holder = None
    /\ LET c == call[u].carrier
       IN /\ Accessible(c, call[u].window)
          /\ IF call[u].op = "write"
             THEN /\ version[c] < MaxVersion
                  /\ version' = [version EXCEPT ![c] = @ + 1]
             ELSE UNCHANGED version
          /\ call' = [call EXCEPT ![u].at = extent[c][1]]
    /\ holder' = u
    /\ UNCHANGED <<allocation, object, released, device, health>>

(* The device after the first n slots of u's window have been written.     *)
Before(u, i) == {j \in call[u].window : j < i}
Written(u, n) ==
    [x \in Position |-> LET i == x - call[u].at
                        IN IF i \in call[u].window /\ Cardinality(Before(u, i)) < n
                           THEN call[u].val ELSE device[x]]

(* The transfer is complete; or it ends after some of its slots, which     *)
(* faults the device.                                                      *)
EndTransfer(u) ==
    /\ InTransfer(u) /\ holder = u
    /\ \E n \in 0 .. Cardinality(call[u].window) :
          /\ device' = IF call[u].op = "write" THEN Written(u, n) ELSE device
          /\ faulted' = (n < Cardinality(call[u].window))
    /\ holder' = None
    /\ Returns(u)
    /\ UNCHANGED <<allocation, object, released, version, closed>>
-----------------------------------------------------------------------------
(* Release, collection, close.                                             *)

CallRelease(u, c) ==
    /\ Idle(u) /\ object[c] \in {"live", "retired"} /\ c \notin released
    /\ call' = [call EXCEPT ![u] = [op |-> "release", carrier |-> c]]
    /\ UNCHANGED <<allocation, object, released, version, device, holder, health>>

(* Mutant: a release does not wait for the lock.                           *)
RetireUnlocked(u) ==
    /\ call[u].op = "release"
    /\ LET c == call[u].carrier
       IN /\ free' = IF extent[c] = None THEN free ELSE WithFreed(extent[c])
          /\ extent' = [extent EXCEPT ![c] = None]
          /\ size' = [size EXCEPT ![c] = 0]
          /\ object' = [object EXCEPT ![c] = "retired"]
    /\ call' = [call EXCEPT ![u].op = "mark"]
    /\ UNCHANGED <<released, version, device, holder, health>>

(* Mutant: the released extent is not forgotten.                           *)
RetireRemembering(u) ==
    /\ call[u].op = "release" /\ holder = None
    /\ LET c == call[u].carrier
       IN /\ free' = IF extent[c] = None THEN free ELSE WithFreed(extent[c])
          /\ size' = [size EXCEPT ![c] = 0]
          /\ object' = [object EXCEPT ![c] = "retired"]
    /\ call' = [call EXCEPT ![u].op = "mark"]
    /\ UNCHANGED <<extent, released, version, device, holder, health>>

(* _retire_carrier; a second release that got this far frees nothing.      *)
Retire(u) ==
    /\ call[u].op = "release" /\ holder = None
    /\ LET c == call[u].carrier
       IN /\ free' = IF extent[c] = None THEN free ELSE WithFreed(extent[c])
          /\ extent' = [extent EXCEPT ![c] = None]
          /\ size' = [size EXCEPT ![c] = 0]
          /\ object' = [object EXCEPT ![c] = "retired"]
    /\ call' = [call EXCEPT ![u].op = "mark"]
    /\ UNCHANGED <<released, version, device, holder, health>>

(* Carrier::release sets the native flag.                                  *)
Mark(u) ==
    /\ call[u].op = "mark"
    /\ released' = released \union {call[u].carrier}
    /\ Returns(u)
    /\ UNCHANGED <<allocation, object, version, device, holder, health>>

(* Nobody references the carrier any more: its finalizer runs.             *)
Collect(c) ==
    /\ holder = None
    /\ object[c] \in {"live", "retired"}
    /\ \A u \in User : ~Idle(u) => call[u].carrier # c
    /\ free' = IF extent[c] = None THEN free ELSE WithFreed(extent[c])
    /\ extent' = [extent EXCEPT ![c] = None]
    /\ size' = [size EXCEPT ![c] = 0]
    /\ object' = [object EXCEPT ![c] = "none"]
    /\ released' = released \ {c}
    /\ version' = [version EXCEPT ![c] = 0]
    /\ UNCHANGED <<device, holder, health, call>>

Close(u) ==
    /\ Idle(u) /\ holder = None /\ ~closed
    /\ \A c \in Carrier : object[c] \in {"none", "pending"}
    /\ closed' = TRUE
    /\ UNCHANGED <<allocation, object, released, version, device, holder, faulted, call>>
-----------------------------------------------------------------------------
UserCalls(u) ==
    \/ \E c \in Carrier, n \in Size, v \in Val \union {None} : CallAllocate(u, c, n, v)
    \/ \E c \in Carrier, w \in Window :
          \/ CallTransfer(u, c, "read", w, None)
          \/ \E v \in Val : CallTransfer(u, c, "write", w, v)
    \/ \E c \in Carrier : CallRelease(u, c)
    \/ Close(u)

CallStep(u) ==
    \/ RefuseAllocation(u) \/ Reserve(u) \/ Activate(u) \/ AbandonAllocation(u)
    \/ RefuseTransfer(u) \/ StartTransfer(u) \/ EndTransfer(u)
    \/ Retire(u) \/ Mark(u)

Next == \/ \E u \in User : UserCalls(u) \/ CallStep(u)
        \/ \E c \in Carrier : Collect(c)

Spec == Init /\ [][Next]_vars
-----------------------------------------------------------------------------
TypeOK ==
    /\ free \in SUBSET Ranges
    /\ extent \in [Carrier -> Ranges \union {None}]
    /\ size \in [Carrier -> Size \union {0}]
    /\ object \in [Carrier -> Objects]
    /\ released \in SUBSET Carrier
    /\ version \in [Carrier -> 0 .. MaxVersion]
    /\ device \in [Position -> Val \union {None}]
    /\ holder \in User \union {None}
    /\ faulted \in BOOLEAN /\ closed \in BOOLEAN
    /\ call \in [User -> Calls]

Cells(r) == r[1] .. Stop(r) - 1
Reserved == {c \in Carrier : extent[c] # None}
Used == UNION {Cells(extent[c]) : c \in Reserved}

(* The search of the free ranges finds exactly the lowest aligned place    *)
(* that no carrier uses, and MemoryError means that there is none.         *)
Places(n) == {a \in 0 .. Capacity - n : a % Alignment = 0 /\ (a .. a + n - 1) \intersect Used = {}}
FirstFit ==
    \A n \in {RoundUp(s) : s \in Size \ {0}} :
        IF Suitable(n) = {} THEN Places(n) = {}
        ELSE LET a == RoundUp(Lowest(Suitable(n))[1])
             IN a \in Places(n) /\ \A b \in Places(n) : a <= b

(* Every slot of the device is in one free range or in one extent, at any  *)
(* moment and after any failure: nothing is lost, nothing is given out     *)
(* twice.  The free ranges never touch, so what was freed side by side can *)
(* be reused as one, and the search finds the first place there is.        *)
Partition ==
    /\ FirstFit
    /\ \A r \in free : r[2] > 0 /\ Cells(r) \intersect Used = {}
    /\ \A q, r \in free : q # r => Cells(q) \intersect Cells(r) = {} /\ Stop(q) # r[1]
    /\ \A c, d \in Reserved : c # d => Cells(extent[c]) \intersect Cells(extent[d]) = {}
    /\ Position = Used \union UNION {Cells(r) : r \in free}

(* The extent of a live carrier is aligned and covers its payload; a       *)
(* carrier that is not live has none, but for the one being initialized.   *)
(* A device is not closed under a transfer or a live carrier.              *)
ExtentsCover ==
    /\ \A c \in Carrier :
          /\ object[c] = "live" => /\ extent[c] # None
                                   /\ extent[c][1] % Alignment = 0
                                   /\ extent[c][2] = RoundUp(size[c])
                                   /\ c \notin released
          /\ extent[c] # None => object[c] = "live" \/ \E u \in User : holder = u /\ call[u].op = "allocate"
                                                                /\ call[u].carrier = c
    /\ closed => holder = None /\ \A c \in Carrier : object[c] \in {"none", "pending"}

(* A transfer under way touches the payload of its own carrier only, and   *)
(* that payload stays its carrier's until the transfer is over: no release *)
(* or collection hands the slots to somebody else meanwhile.               *)
TransferOwnsPayload ==
    \A u \in User : holder = u /\ InTransfer(u) =>
        LET c == call[u].carrier
        IN /\ object[c] = "live" /\ extent[c] # None
           /\ \A i \in call[u].window : i \in 0 .. size[c] - 1
                                        /\ call[u].at + i \in Cells(extent[c])

(* Whatever a write call has changed, even one that failed half-way, the   *)
(* version of its carrier is not the one it had when the call was made: a  *)
(* saved version that still matches vouches for the values.                *)
WritesAreVersioned ==
    [][\A u \in User : holder = u /\ InTransfer(u) /\ device' # device =>
          version[call[u].carrier] > call[u].before]_vars

(* The device is a memory of separate arrays: see ArenaMemory.             *)
Alive(c) == object[c] = "live"
Place == [c \in Carrier |-> IF Alive(c) THEN extent[c][1] ELSE None]
Data == [c \in Carrier |-> IF Alive(c) THEN [i \in 0 .. size[c] - 1 |-> device[extent[c][1] + i]]
                           ELSE None]
Arrays == INSTANCE ArenaMemory WITH place <- Place, data <- Data
SeparateArrays == Arrays!Spec
=============================================================================
