------------------------- MODULE EvictableHierarchy -------------------------
(***************************************************************************)
(* Evictable (carriers/evictable/carrier.py): one logical array kept in    *)
(* one of two storage carriers, the tiers.  The hierarchy claims both;     *)
(* eviction and promotion move the value between them, allocating a fresh  *)
(* tier when the other one is empty or released.                           *)
(*                                                                         *)
(* Nothing locks the hierarchy.  What keeps threads apart is the owner     *)
(* access of the native carrier (core/native/_carrier.hpp), which one      *)
(* thread at a time has to one tier.  Each step below is what a thread     *)
(* does between two places where another can run; a native call is one     *)
(* step.  An array has one element.                                        *)
(***************************************************************************)
EXTENDS Naturals, FiniteSets

CONSTANTS Storage,       \* the carriers that can be tiers
          First, Second, \* the two handed to the constructor
          Datum,         \* the values of an element
          Caller,        \* the threads
          Nobody, Nothing

ASSUME EvictableAssumption == /\ First \in Storage /\ Second \in Storage /\ First # Second
                              /\ Nothing \notin Datum /\ Nothing \notin Storage /\ Nobody \notin Caller

VARIABLES
    life,        \* of each carrier: live or released
    data,        \* its element, Nothing when its size is 0
    owned,       \* the carriers whose token the hierarchy holds
    access,      \* the thread that has owner access to a carrier
    tier,        \* _primary and _secondary
    evicted,     \* _evicted
    state,       \* of the hierarchy: unbuilt, half, claimed, live, released, refused, gone
    value,       \* history: the logical value, the last one written
    dropped,     \* history: a tier has been released by release(), or by a move that
                 \* then returned another carrier than its destination
    astray,      \* history: a transition has moved a tier that it had not entered
    leaked,      \* history: the fresh destinations that a transition has left behind
    does         \* what each thread is doing

evictableVars == <<life, data, owned, access, tier, evicted, state, value, dropped, astray, leaked, does>>
storageVars == <<life, data, owned, access>>
hierarchyVars == <<tier, evicted, state, value, dropped, astray, leaked>>
-----------------------------------------------------------------------------
Rests == [op |-> "rest", to |-> "primary", src |-> Nothing, dst |-> Nothing,
          fresh |-> FALSE, beside |-> FALSE]
Resting(u) == does[u] = Rests

Transition == {"prepare", "enter", "copy", "free", "install", "dispose", "undo"}
Releasing == {"dropPrimary", "dropSecondary", "mark"}
Writing == {"write", "store"}

Goes(u, op) == does' = [does EXCEPT ![u].op = op]
Stops(u) == does' = [does EXCEPT ![u] = Rests]

From(u) == tier[IF does[u].to = "primary" THEN "secondary" ELSE "primary"]

(* begin_owner_access by u succeeds: the token is current and no other     *)
(* thread has access.                                                      *)
Enterable(u, c) == c \in owned /\ access[c] \in {Nobody, u}

EvictableInit ==
    /\ life = [c \in Storage |-> IF c \in {First, Second} THEN "live" ELSE "released"]
    /\ \E v \in Datum, w \in Datum \union {Nothing} :
          /\ data = [c \in Storage |-> IF c = First THEN v ELSE IF c = Second THEN w ELSE Nothing]
          /\ value = v
    /\ owned = {} /\ access = [c \in Storage |-> Nobody]
    /\ tier = [primary |-> First, secondary |-> Second]
    /\ evicted = FALSE /\ state = "unbuilt" /\ dropped = FALSE /\ astray = FALSE /\ leaked = {}
    /\ does = [u \in Caller |-> Rests]
-----------------------------------------------------------------------------
(* The constructor: it claims the primary, then the secondary, then        *)
(* freezes the capabilities; what fails gives the claims back.             *)

ClaimPrimary == /\ state = "unbuilt"
                /\ \/ owned' = {First} /\ state' = "half"
                   \/ state' = "refused" /\ UNCHANGED owned
                /\ UNCHANGED <<life, data, access, tier, evicted, value, dropped, astray, leaked, does>>

ClaimSecondary == /\ state = "half"
                  /\ \/ owned' = {First, Second} /\ state' = "claimed"
                     \/ state' = "refused" /\ owned' = {}
                  /\ UNCHANGED <<life, data, access, tier, evicted, value, dropped, astray, leaked, does>>

Finalize == /\ state = "claimed"
            /\ \/ state' = "live" /\ UNCHANGED owned
               \/ state' = "refused" /\ owned' = {}
            /\ UNCHANGED <<life, data, access, tier, evicted, value, dropped, astray, leaked, does>>
-----------------------------------------------------------------------------
(* evict (to the secondary) and promote (to the primary).                  *)

CallTransition(u, to) ==
    /\ Resting(u) /\ state = "live"
    /\ evicted = (to = "primary")
    /\ does' = [t \in Caller |->
                  IF t = u THEN [Rests EXCEPT !.op = "prepare", !.to = to]
                  ELSE IF does[t].op \in Releasing THEN [does[t] EXCEPT !.beside = TRUE] ELSE does[t]]
    /\ UNCHANGED <<storageVars, hierarchyVars>>

(* A carrier that nothing refers to may come back as a new one.            *)
Forgotten(c) == /\ c \notin {tier.primary, tier.secondary} \union leaked /\ access[c] = Nobody
                /\ \A t \in Caller : c # does[t].src /\ c # does[t].dst

(* _prepare_destination: the other tier, if it is live and not empty, or   *)
(* a fresh one of its class; the allocation may raise.                     *)
Prepare(u) ==
    /\ does[u].op = "prepare"
    /\ LET prototype == tier[does[u].to]
       IN IF life[prototype] = "live" /\ data[prototype] # Nothing
          THEN /\ does' = [does EXCEPT ![u] = [@ EXCEPT !.op = "enter", !.dst = prototype]]
               /\ UNCHANGED storageVars
          ELSE \/ LET c == CHOOSE x \in Storage : Forgotten(x)
                  IN /\ \E x \in Storage : Forgotten(x)
                     /\ life' = [life EXCEPT ![c] = "live"]
                     /\ \E v \in Datum : data' = [data EXCEPT ![c] = v]
                     /\ owned' = owned \union {c}
                     /\ does' = [does EXCEPT ![u] = [@ EXCEPT !.op = "enter", !.dst = c, !.fresh = TRUE]]
                     /\ UNCHANGED access
               \/ Stops(u) /\ UNCHANGED storageVars
    /\ UNCHANGED hierarchyVars

(* Leaving the two owner accesses, whatever happened.                      *)
Left(u) == [c \in Storage |-> IF access[c] = u THEN Nobody ELSE access[c]]

(* What is left to do is to dispose of a carrier.                          *)
Disposes(u, op, c) == does' = [does EXCEPT ![u] = [Rests EXCEPT !.op = op, !.dst = c, !.fresh = TRUE]]

(* An exception in the move: a fresh destination is disposed of.           *)
Fails(u) == /\ IF does[u].fresh THEN Disposes(u, "undo", does[u].dst) ELSE Stops(u)
            /\ access' = Left(u)

(* An exception outside the try: a fresh destination stays live and        *)
(* claimed, with nobody to give it up.                                     *)
Leaks(u) == /\ leaked' = leaked \union (IF does[u].fresh THEN {does[u].dst} ELSE {})
            /\ Stops(u)
            /\ access' = Left(u)

(* dispatch_move, which may raise before the try; then both owner          *)
(* accesses, or a failure before the move.                                 *)
Enter(u) ==
    /\ does[u].op = "enter"
    /\ \/ /\ Enterable(u, From(u)) /\ Enterable(u, does[u].dst)
          /\ access' = [access EXCEPT ![From(u)] = u, ![does[u].dst] = u]
          /\ Goes(u, "copy")
          /\ UNCHANGED leaked
       \/ Fails(u) /\ UNCHANGED leaked
       \/ Leaks(u)
    /\ UNCHANGED <<life, data, owned, tier, evicted, state, value, dropped, astray>>

(* MoveOperation._forward: the tier is read again, and its value copied;   *)
(* another thread may have replaced the tier since it was entered.  A copy *)
(* that fails may have written the destination; an operation of another    *)
(* package may return another carrier, and leave the source as it is.      *)
Copy(u) ==
    LET src == From(u)
        dst == does[u].dst
        copied == life[src] = "live" /\ data[src] # Nothing /\ life[dst] = "live"
    IN /\ does[u].op = "copy"
       /\ \/ /\ copied
             /\ data' = [data EXCEPT ![dst] = data[src]]
             /\ does' = [does EXCEPT ![u] = [@ EXCEPT !.op = "free", !.src = src]]
             /\ astray' = (astray \/ access[src] # u)
             /\ UNCHANGED <<access, leaked>>
          \/ /\ \/ UNCHANGED data
                \/ copied /\ \E v \in Datum : data' = [data EXCEPT ![dst] = v]
             /\ \/ Fails(u) /\ UNCHANGED leaked
                \/ Leaks(u)
             /\ UNCHANGED astray
       /\ UNCHANGED <<life, owned, tier, evicted, state, value, dropped>>

(* release() by u: the carrier is claimed by nobody or u has owner access. *)
Freed(u, c) == /\ c \in owned => access[c] = u
               /\ life' = [life EXCEPT ![c] = "released"]
               /\ data' = [data EXCEPT ![c] = Nothing]

(* The source is released last.                                            *)
Free(u) ==
    /\ does[u].op = "free"
    /\ \/ /\ Freed(u, does[u].src)
          /\ access' = Left(u)
          /\ does' = [does EXCEPT ![u] = [@ EXCEPT !.op = "install", !.src = Nothing]]
       \/ Fails(u) /\ UNCHANGED <<life, data>>
    /\ UNCHANGED <<owned, hierarchyVars>>

(* The destination becomes the tier; a replaced one is disposed of next.   *)
(* If the operation returned another carrier the transition raises, though *)
(* the source is released.                                                 *)
Install(u) ==
    /\ does[u].op = "install"
    /\ \/ /\ tier' = [tier EXCEPT ![does[u].to] = does[u].dst]
          /\ evicted' = (does[u].to = "secondary")
          /\ IF does[u].fresh THEN Disposes(u, "dispose", tier[does[u].to]) ELSE Stops(u)
          /\ UNCHANGED <<access, dropped, leaked>>
       \/ /\ Leaks(u)
          /\ dropped' = TRUE
          /\ UNCHANGED <<tier, evicted>>
    /\ UNCHANGED <<life, data, owned, state, value, astray>>

(* Mutant: the token of a tier that cannot be released is kept.            *)
DisposeReleased(u) ==
    LET c == does[u].dst
    IN /\ does[u].op \in {"dispose", "undo"}
       /\ \/ /\ life[c] = "live" /\ Enterable(u, c)
             /\ life' = [life EXCEPT ![c] = "released"]
             /\ data' = [data EXCEPT ![c] = Nothing]
             /\ owned' = owned \ {c}
          \/ UNCHANGED <<life, data, owned>>
       /\ Stops(u)
       /\ UNCHANGED <<access, hierarchyVars>>

(* _dispose_tier: the tier is released if it can be, and given up in any   *)
(* case; a token is not given up while another thread has access.          *)
Dispose(u) ==
    LET c == does[u].dst
    IN /\ does[u].op \in {"dispose", "undo"}
       /\ \/ /\ life[c] = "live" /\ Enterable(u, c)
             /\ life' = [life EXCEPT ![c] = "released"]
             /\ data' = [data EXCEPT ![c] = Nothing]
          \/ UNCHANGED <<life, data>>       \* released before, or its release raises
       /\ owned' = IF access[c] = Nobody THEN owned \ {c} ELSE owned
       /\ Stops(u)
       /\ UNCHANGED <<access, hierarchyVars>>
-----------------------------------------------------------------------------
(* set_value: the active tier is read, then entered with the token of the  *)
(* primary of that moment, then written; the value matters only then.      *)

CallWrite(u) ==
    /\ Resting(u) /\ state = "live" /\ ~evicted
    /\ does' = [does EXCEPT ![u] = [Rests EXCEPT !.op = "write", !.dst = tier.primary]]
    /\ UNCHANGED <<storageVars, hierarchyVars>>

EnterWrite(u) ==
    /\ does[u].op = "write"
    /\ \/ /\ does[u].dst = tier.primary /\ Enterable(u, does[u].dst)
          /\ access' = [access EXCEPT ![does[u].dst] = u]
          /\ Goes(u, "store")
       \/ Stops(u) /\ UNCHANGED access
    /\ UNCHANGED <<life, data, owned, hierarchyVars>>

Store(u) ==
    LET c == does[u].dst
    IN /\ does[u].op = "store"
       /\ \/ /\ life[c] = "live" /\ data[c] # Nothing
             /\ \E v \in Datum : data' = [data EXCEPT ![c] = v] /\ value' = v
          \/ UNCHANGED <<data, value>>      \* released, or the value is not accepted
       /\ access' = Left(u) /\ Stops(u)
       /\ UNCHANGED <<life, owned, tier, evicted, state, dropped, astray, leaked>>
-----------------------------------------------------------------------------
(* release: each tier that is not released yet, under owner access, the    *)
(* primary first; one that raises ends the call.                           *)

CallRelease(u) ==
    /\ Resting(u) /\ state = "live"
    /\ does' = [does EXCEPT ![u] = [Rests EXCEPT !.op = "dropPrimary",
                  !.beside = \E t \in Caller : does[t].op \in Transition]]
    /\ UNCHANGED <<storageVars, hierarchyVars>>

DropTier(u, t, next) ==
    LET c == tier[t]
    IN \/ /\ life[c] = "released"
          /\ Goes(u, next)
          /\ UNCHANGED <<life, data, dropped>>
       \/ /\ life[c] = "live" /\ Enterable(u, c)
          /\ life' = [life EXCEPT ![c] = "released"]
          /\ data' = [data EXCEPT ![c] = Nothing]
          /\ dropped' = TRUE
          /\ Goes(u, next)
       \/ /\ life[c] = "live"
          /\ Stops(u)
          /\ UNCHANGED <<life, data, dropped>>

(* Mutant: a primary that is released already ends the release.            *)
DropPrimaryOnly(u) == /\ does[u].op = "dropPrimary"
                      /\ DropTier(u, "primary", IF life[tier.primary] = "released" THEN "mark" ELSE "dropSecondary")
                      /\ UNCHANGED <<owned, access, tier, evicted, state, value, astray, leaked>>

DropPrimary(u) == /\ does[u].op = "dropPrimary"
                  /\ DropTier(u, "primary", "dropSecondary")
                  /\ UNCHANGED <<owned, access, tier, evicted, state, value, astray, leaked>>

DropSecondary(u) == /\ does[u].op = "dropSecondary"
                    /\ DropTier(u, "secondary", "mark")
                    /\ UNCHANGED <<owned, access, tier, evicted, state, value, astray, leaked>>

Mark(u) == /\ does[u].op = "mark"
           /\ state' = "released" /\ Stops(u)
           /\ UNCHANGED <<storageVars, tier, evicted, value, dropped, astray, leaked>>

(* __del__: what is still owned is given up, not released.                 *)
Collect == /\ state \in {"live", "released"}
           /\ \A u \in Caller : Resting(u)
           /\ owned' = owned \ {tier.primary, tier.secondary}
           /\ state' = "gone"
           /\ UNCHANGED <<life, data, access, tier, evicted, value, dropped, astray, leaked, does>>
-----------------------------------------------------------------------------
EvictableNext ==
    \/ ClaimPrimary \/ ClaimSecondary \/ Finalize \/ Collect
    \/ \E u \in Caller :
          \/ \E t \in {"primary", "secondary"} : CallTransition(u, t)
          \/ Prepare(u) \/ Enter(u) \/ Copy(u) \/ Free(u) \/ Install(u) \/ Dispose(u)
          \/ CallWrite(u) \/ EnterWrite(u) \/ Store(u)
          \/ CallRelease(u) \/ DropPrimary(u) \/ DropSecondary(u) \/ Mark(u)

EvictableSpec == EvictableInit /\ [][EvictableNext]_evictableVars
-----------------------------------------------------------------------------
Calls == [op : {"rest"} \union Transition \union Releasing \union Writing,
          to : {"primary", "secondary"}, src : Storage \union {Nothing},
          dst : Storage \union {Nothing}, fresh : BOOLEAN, beside : BOOLEAN]

EvictableTypeOK ==
    /\ life \in [Storage -> {"live", "released"}]
    /\ data \in [Storage -> Datum \union {Nothing}]
    /\ owned \in SUBSET Storage
    /\ access \in [Storage -> Caller \union {Nobody}]
    /\ tier \in [primary : Storage, secondary : Storage]
    /\ evicted \in BOOLEAN /\ dropped \in BOOLEAN /\ astray \in BOOLEAN
    /\ state \in {"unbuilt", "half", "claimed", "live", "released", "refused", "gone"}
    /\ value \in Datum /\ leaked \in SUBSET Storage
    /\ does \in [Caller -> Calls]

Holds(c) == life[c] = "live" /\ data[c] = value

(* carrier-composition/spec.md:26: a transition changes residency "without *)
(* changing logical values".  The value is in the tier that is said to be  *)
(* active, or a transition has released that tier and is about to install  *)
(* the new one.                                                            *)
ValueKept ==
    ~dropped => \/ Holds(IF evicted THEN tier.secondary ELSE tier.primary)
                \/ \E u \in Caller : does[u].op = "install" /\ Holds(does[u].dst)

(* The carriers a call of the hierarchy has in hand.                       *)
Held == {does[u].dst : u \in {w \in Caller : does[w].fresh}}

(* Whatever threads evict, promote, write and release at the same time and *)
(* whatever fails, as long as every transition has moved the tier that it  *)
(* entered: the value is kept, and ownership is not lost.  Both tiers stay *)
(* claimed while the hierarchy is usable; a live carrier that is claimed   *)
(* is a tier, or in the hands of a transition, or one of those that a      *)
(* transition leaves behind when dispatch_move raises or the operation     *)
(* returns another carrier, and no other failure leaves one behind.        *)
(* Nothing else stays claimed when the constructor fails or the hierarchy  *)
(* is collected.                                                           *)
TiersOwned ==
    ~astray =>
        /\ state = "live" => {tier.primary, tier.secondary} \subseteq owned
        /\ \A c \in owned \ leaked : life[c] = "live" =>
              \/ c \in Held
              \/ c \in {tier.primary, tier.secondary} /\ state \notin {"refused", "gone"}
        /\ ValueKept

(* A release that succeeds has released both tiers, also after an earlier  *)
(* one stopped half-way, unless a transition ran beside it.                *)
ReleaseComplete ==
    [][\A u \in Caller : does[u].op = "mark" /\ ~does[u].beside /\ state' = "released" =>
          life[tier.primary] = "released" /\ life[tier.secondary] = "released"]_evictableVars
=============================================================================
