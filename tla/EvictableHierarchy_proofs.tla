----------------------- MODULE EvictableHierarchy_proofs -----------------------
(***************************************************************************)
(* Proofs about EvictableHierarchy, for any carriers, values and threads.  *)
(*                                                                         *)
(* A release that no transition runs beside finds the tiers as it left     *)
(* them (Returning).  As long as no transition has moved a tier that it    *)
(* had not entered, what is active and what is not never gets confused     *)
(* (Orderly): the inactive tier is released or a transition's destination, *)
(* a fresh destination is private, who is about to install has released    *)
(* the active tier, and who is about to release it has owner access to it  *)
(* and a destination that holds the value.                                 *)
(***************************************************************************)
EXTENDS EvictableHierarchy, TLAPS

Moving == {"enter", "copy", "free", "install"}
Is(u, ops) == does[u].op \in ops
Tiers == {tier.primary, tier.secondary}
Active == IF evicted THEN tier.secondary ELSE tier.primary
Released(c) == life[c] = "released"
Empty(c) == life[c] = "live" /\ data[c] = Nothing
-----------------------------------------------------------------------------
Returning ==
    \A u \in Caller : Is(u, Releasing) /\ ~does[u].beside =>
        /\ \A t \in Caller : ~Is(t, Transition)
        /\ Is(u, {"dropSecondary", "mark"}) => Released(tier.primary)
        /\ Is(u, {"mark"}) => Released(tier.secondary)
-----------------------------------------------------------------------------
(* The life of the hierarchy and what it claims.                           *)
Claims ==
    /\ state \in {"unbuilt", "half", "claimed"} =>
          tier = [primary |-> First, secondary |-> Second] /\ ~evicted
    /\ state \in {"unbuilt", "refused"} => owned = {}
    /\ state = "half" => owned = {First}
    /\ state = "claimed" => owned = {First, Second}
    /\ state \in {"live", "released"} => Tiers \subseteq owned
    /\ state \notin {"live", "released"} => \A u \in Caller : Is(u, {"rest"})
    /\ \A c \in owned \ leaked : life[c] = "live" => c \in Held \/ (c \in Tiers /\ state \notin {"refused", "gone"})

(* The tier that is not active is released, or not used yet.               *)
Residency ==
    /\ tier.primary # tier.secondary
    /\ evicted => Released(tier.primary)
    /\ ~evicted => \/ Released(tier.secondary)
                   \/ \A u \in Caller : Is(u, Moving \union {"prepare"}) =>
                         /\ does[u].to = "secondary"
                         /\ does[u].fresh /\ Is(u, Moving) => Empty(tier.secondary)
    /\ ~Empty(Active)

(* The destination of a transition: a fresh one is nobody else's, another  *)
(* is the inactive tier as long as it is live.                             *)
Private(u) ==
    does[u].fresh /\ Is(u, Moving \union {"undo"}) =>
        /\ does[u].dst \in owned /\ does[u].dst \notin Tiers
        /\ access[does[u].dst] \in {Nobody, u}
        /\ \A t \in Caller \ {u} : does[t].dst # does[u].dst /\ does[t].src # does[u].dst

Aimed(u) ==
    /\ Is(u, Moving) => ~Empty(does[u].dst)
    /\ ~does[u].fresh /\ Is(u, Moving) => Released(does[u].dst) \/ does[u].dst = tier[does[u].to]
    /\ ~does[u].fresh /\ Is(u, {"free", "install"}) => does[u].to = "secondary" /\ does[u].dst = tier.secondary
    /\ Is(u, {"dispose", "undo"}) => does[u].fresh /\ does[u].dst \in Storage
    /\ does[u].fresh => Is(u, Moving \union {"dispose", "undo"})
    /\ Is(u, {"dispose"}) => does[u].dst \notin Tiers /\ (Released(does[u].dst) \/ Empty(does[u].dst))

Destinations == \A u \in Caller : Private(u) /\ Aimed(u)

(* Who has owner access to what.                                           *)
Entered(u) ==
    /\ Is(u, {"copy", "free", "store"}) => access[does[u].dst] = u
    /\ Is(u, {"undo"}) => access[does[u].dst] = Nobody
    /\ Is(u, {"store"}) => /\ does[u].dst \in Storage
                           /\ Released(does[u].dst) \/ (does[u].dst = tier.primary /\ ~evicted)

Accesses == /\ \A c \in Storage : access[c] # Nobody => ~Empty(c)
            /\ \A u \in Caller : Entered(u)

(* A transition that has copied the value goes the way that the hierarchy  *)
(* can go, and no other one is as far.                                     *)
Turns ==
    \A u \in Caller :
        /\ Is(u, {"free", "install"}) => evicted = (does[u].to = "primary")
        /\ Is(u, {"free"}) => does[u].src = Active /\ access[Active] = u /\ life[Active] = "live"
        /\ Is(u, {"install"}) => Released(Active) /\ \A t \in Caller : Is(t, {"install"}) => t = u

(* Where the value is.                                                     *)
Values ==
    ~dropped =>
        /\ \A u \in Caller : Is(u, {"free", "install"}) => Holds(does[u].dst)
        /\ Holds(Active) \/ \E u \in Caller : Is(u, {"install"})

Orderly == Claims /\ Residency /\ Destinations /\ Accesses /\ Turns /\ Values
(* A transition that has found its destination has one.                    *)
Targets == \A u \in Caller : Is(u, Moving) => does[u].dst \in Storage

Settled == EvictableTypeOK /\ Targets /\ Returning /\ (~astray => Orderly)
-----------------------------------------------------------------------------
(* What a step of u leaves it doing; the other threads do what they did.   *)
Doing(u, op, to, src, dst, fresh) ==
    /\ does' \in [Caller -> Calls]
    /\ does'[u].op = op /\ does'[u].to = to /\ does'[u].src = src /\ does'[u].dst = dst
    /\ does'[u].fresh = fresh
    /\ \A t \in Caller : t # u => does'[t] = does[t]

Ops == {"rest"} \union Transition \union Releasing \union Writing

LEMMA FieldTypes ==
    ASSUME NEW r \in Calls
    PROVE  /\ r.op \in Ops /\ r.to \in {"primary", "secondary"} /\ r.src \in Storage \union {Nothing}
           /\ r.dst \in Storage \union {Nothing} /\ r.fresh \in BOOLEAN /\ r.beside \in BOOLEAN
  BY DEF Calls, Ops

LEMMA RestsType == Rests \in Calls
  BY DEF Rests, Calls

LEMMA OneDoes ==
    ASSUME does \in [Caller -> Calls], NEW u \in Caller, NEW r \in Calls, does' = [does EXCEPT ![u] = r]
    PROVE  does' \in [Caller -> Calls] /\ does'[u] = r /\ \A t \in Caller : t # u => does'[t] = does[t]
  OBVIOUS

LEMMA Goes_ ==
    ASSUME does \in [Caller -> Calls], NEW u \in Caller, NEW op \in Ops, Goes(u, op)
    PROVE  /\ Doing(u, op, does[u].to, does[u].src, does[u].dst, does[u].fresh)
           /\ does'[u].beside = does[u].beside
<1> DEFINE r == [does[u] EXCEPT !.op = op]
<1>1. does' = [does EXCEPT ![u] = r]
  BY DEF Goes
<1>2. /\ r \in Calls /\ r.op = op /\ r.to = does[u].to /\ r.src = does[u].src /\ r.dst = does[u].dst
      /\ r.fresh = does[u].fresh /\ r.beside = does[u].beside
  BY DEF Calls, Ops
<1> HIDE DEF r
<1> QED BY <1>1, <1>2, OneDoes DEF Doing

LEMMA Stops_ ==
    ASSUME does \in [Caller -> Calls], NEW u \in Caller, Stops(u)
    PROVE  Doing(u, "rest", "primary", Nothing, Nothing, FALSE) /\ does'[u].beside = FALSE
<1>1. does' = [does EXCEPT ![u] = Rests]
  BY DEF Stops
<1> QED BY <1>1, RestsType, OneDoes DEF Doing, Rests

LEMMA Disposes_ ==
    ASSUME does \in [Caller -> Calls], NEW u \in Caller, NEW op \in Ops, NEW c \in Storage \union {Nothing}, Disposes(u, op, c)
    PROVE  Doing(u, op, "primary", Nothing, c, TRUE) /\ does'[u].beside = FALSE
<1> DEFINE r == [Rests EXCEPT !.op = op, !.dst = c, !.fresh = TRUE]
<1>1. does' = [does EXCEPT ![u] = r]
  BY DEF Disposes
<1>2. /\ r \in Calls /\ r.op = op /\ r.to = "primary" /\ r.src = Nothing /\ r.dst = c
      /\ r.fresh = TRUE /\ r.beside = FALSE
  BY DEF Calls, Ops, Rests
<1> HIDE DEF r
<1> QED BY <1>1, <1>2, OneDoes DEF Doing

LEMMA Enters_ ==
    ASSUME does \in [Caller -> Calls], NEW u \in Caller, NEW c \in Storage,
           does' = [does EXCEPT ![u] = [@ EXCEPT !.op = "enter", !.dst = c]]
    PROVE  /\ Doing(u, "enter", does[u].to, does[u].src, c, does[u].fresh)
           /\ does'[u].beside = does[u].beside
<1> DEFINE r == [does[u] EXCEPT !.op = "enter", !.dst = c]
<1>1. does' = [does EXCEPT ![u] = r]
  OBVIOUS
<1>2. /\ r \in Calls /\ r.op = "enter" /\ r.to = does[u].to /\ r.src = does[u].src /\ r.dst = c
      /\ r.fresh = does[u].fresh /\ r.beside = does[u].beside
  BY DEF Calls, Transition
<1> HIDE DEF r
<1> QED BY <1>1, <1>2, OneDoes DEF Doing

LEMMA EntersFresh ==
    ASSUME does \in [Caller -> Calls], NEW u \in Caller, NEW c \in Storage,
           does' = [does EXCEPT ![u] = [@ EXCEPT !.op = "enter", !.dst = c, !.fresh = TRUE]]
    PROVE  /\ Doing(u, "enter", does[u].to, does[u].src, c, TRUE)
           /\ does'[u].beside = does[u].beside
<1> DEFINE r == [does[u] EXCEPT !.op = "enter", !.dst = c, !.fresh = TRUE]
<1>1. does' = [does EXCEPT ![u] = r]
  OBVIOUS
<1>2. /\ r \in Calls /\ r.op = "enter" /\ r.to = does[u].to /\ r.src = does[u].src /\ r.dst = c
      /\ r.fresh = TRUE /\ r.beside = does[u].beside
  BY DEF Calls, Transition
<1> HIDE DEF r
<1> QED BY <1>1, <1>2, OneDoes DEF Doing

LEMMA Sources_ ==
    ASSUME does \in [Caller -> Calls], NEW u \in Caller, NEW op \in Ops, NEW c \in Storage \union {Nothing},
           does' = [does EXCEPT ![u] = [@ EXCEPT !.op = op, !.src = c]]
    PROVE  /\ Doing(u, op, does[u].to, c, does[u].dst, does[u].fresh)
           /\ does'[u].beside = does[u].beside
<1> DEFINE r == [does[u] EXCEPT !.op = op, !.src = c]
<1>1. does' = [does EXCEPT ![u] = r]
  OBVIOUS
<1>2. /\ r \in Calls /\ r.op = op /\ r.to = does[u].to /\ r.src = c /\ r.dst = does[u].dst
      /\ r.fresh = does[u].fresh /\ r.beside = does[u].beside
  BY DEF Calls, Ops
<1> HIDE DEF r
<1> QED BY <1>1, <1>2, OneDoes DEF Doing

LEMMA Writes_ ==
    ASSUME does \in [Caller -> Calls], NEW u \in Caller, NEW c \in Storage,
           does' = [does EXCEPT ![u] = [Rests EXCEPT !.op = "write", !.dst = c]]
    PROVE  Doing(u, "write", "primary", Nothing, c, FALSE) /\ does'[u].beside = FALSE
<1> DEFINE r == [Rests EXCEPT !.op = "write", !.dst = c]
<1>2. /\ r \in Calls /\ r.op = "write" /\ r.to = "primary" /\ r.src = Nothing /\ r.dst = c
      /\ r.fresh = FALSE /\ r.beside = FALSE
  BY DEF Calls, Writing, Rests
<1> HIDE DEF r
<1> QED BY <1>2, OneDoes DEF Doing, r

LEMMA Releases_ ==
    ASSUME does \in [Caller -> Calls], NEW u \in Caller, NEW b \in BOOLEAN,
           does' = [does EXCEPT ![u] = [Rests EXCEPT !.op = "dropPrimary", !.beside = b]]
    PROVE  Doing(u, "dropPrimary", "primary", Nothing, Nothing, FALSE) /\ does'[u].beside = b
<1> DEFINE r == [Rests EXCEPT !.op = "dropPrimary", !.beside = b]
<1>2. /\ r \in Calls /\ r.op = "dropPrimary" /\ r.to = "primary" /\ r.src = Nothing /\ r.dst = Nothing
      /\ r.fresh = FALSE /\ r.beside = b
  BY DEF Calls, Releasing, Rests
<1> HIDE DEF r
<1> QED BY <1>2, OneDoes DEF Doing, r

(* A call of evict or promote tells the releases that run.                 *)
LEMMA Calls_ ==
    ASSUME does \in [Caller -> Calls], NEW u \in Caller, NEW to \in {"primary", "secondary"}, CallTransition(u, to)
    PROVE  /\ does' \in [Caller -> Calls]
           /\ does'[u].op = "prepare" /\ does'[u].to = to /\ does'[u].src = Nothing /\ does'[u].dst = Nothing
           /\ does'[u].fresh = FALSE /\ does'[u].beside = FALSE
           /\ \A t \in Caller : t # u =>
                 /\ does'[t].op = does[t].op /\ does'[t].to = does[t].to /\ does'[t].src = does[t].src
                 /\ does'[t].dst = does[t].dst /\ does'[t].fresh = does[t].fresh
                 /\ does'[t].op \in Releasing => does'[t].beside = TRUE
<1> DEFINE r == [Rests EXCEPT !.op = "prepare", !.to = to]
           told(t) == [does[t] EXCEPT !.beside = TRUE]
<1>1. /\ r \in Calls /\ r.op = "prepare" /\ r.to = to /\ r.src = Nothing /\ r.dst = Nothing
      /\ r.fresh = FALSE /\ r.beside = FALSE
  BY DEF Calls, Transition, Rests
<1>2. ASSUME NEW t \in Caller
      PROVE  /\ told(t) \in Calls /\ told(t).op = does[t].op /\ told(t).to = does[t].to /\ told(t).src = does[t].src
             /\ told(t).dst = does[t].dst /\ told(t).fresh = does[t].fresh /\ told(t).beside = TRUE
  BY DEF Calls
<1>3. does' = [t \in Caller |-> IF t = u THEN r ELSE IF does[t].op \in Releasing THEN told(t) ELSE does[t]]
  BY DEF CallTransition
<1> HIDE DEF r, told
<1>4. does'[u] = r /\ \A t \in Caller : t # u => does'[t] = IF does[t].op \in Releasing THEN told(t) ELSE does[t]
  BY <1>3
<1>5. does' \in [Caller -> Calls]
  BY <1>1, <1>2, <1>3
<1> QED BY <1>1, <1>2, <1>4, <1>5
-----------------------------------------------------------------------------
(* A carrier that nothing refers to is a carrier.                          *)
LEMMA NewCarrier ==
    ASSUME \E x \in Storage : Forgotten(x)
    PROVE  (CHOOSE x \in Storage : Forgotten(x)) \in Storage /\ Forgotten(CHOOSE x \in Storage : Forgotten(x))
<1>1. PICK x \in Storage : Forgotten(x)
  OBVIOUS
<1> DEFINE P(y) == y \in Storage /\ Forgotten(y)
<1>2. P(CHOOSE y : P(y))
  BY <1>1
<1> QED BY <1>2

(* The types of what Left, Fails and release leave.                        *)
LEMMA LeftType ==
    ASSUME access \in [Storage -> Caller \union {Nobody}], NEW u \in Caller
    PROVE  Left(u) \in [Storage -> Caller \union {Nobody}]
  BY DEF Left

LEMMA Fails_ ==
    ASSUME EvictableTypeOK, NEW u \in Caller, Fails(u)
    PROVE  /\ does' \in [Caller -> Calls] /\ does'[u].beside = FALSE
           /\ \A t \in Caller : t # u => does'[t] = does[t]
           /\ \/ does[u].fresh /\ Doing(u, "undo", "primary", Nothing, does[u].dst, TRUE)
              \/ ~does[u].fresh /\ Doing(u, "rest", "primary", Nothing, Nothing, FALSE)
           /\ access' = Left(u) /\ access' \in [Storage -> Caller \union {Nobody}]
<1>1. does \in [Caller -> Calls] /\ does[u] \in Calls /\ access \in [Storage -> Caller \union {Nobody}]
  BY DEF EvictableTypeOK
<1>2. does[u].dst \in Storage \union {Nothing} /\ "undo" \in Ops
  BY <1>1, FieldTypes DEF Ops, Transition
<1>3. CASE does[u].fresh
  BY <1>1, <1>2, <1>3, Disposes_, LeftType DEF Fails, Doing
<1>4. CASE ~does[u].fresh
  BY <1>1, <1>2, <1>4, Stops_, LeftType DEF Fails, Doing
<1> QED BY <1>3, <1>4

LEMMA Leaks_ ==
    ASSUME EvictableTypeOK, NEW u \in Caller, Leaks(u), does[u].op \in Moving, Targets
    PROVE  /\ Doing(u, "rest", "primary", Nothing, Nothing, FALSE)
           /\ leaked' \in SUBSET Storage /\ leaked \subseteq leaked' /\ (does[u].fresh => does[u].dst \in leaked')
           /\ access' = Left(u) /\ access' \in [Storage -> Caller \union {Nobody}]
<1>1. does \in [Caller -> Calls] /\ access \in [Storage -> Caller \union {Nobody}] /\ leaked \in SUBSET Storage
  BY DEF EvictableTypeOK
<1>2. does[u].dst \in Storage
  BY DEF Targets, Is
<1>3. Doing(u, "rest", "primary", Nothing, Nothing, FALSE)
  BY <1>1, Stops_ DEF Leaks
<1> QED BY <1>1, <1>2, <1>3, LeftType DEF Leaks

LEMMA TargetsKept ==
    ASSUME Targets, NEW u \in Caller, NEW op, NEW to, NEW src, NEW dst, NEW fr,
           Doing(u, op, to, src, dst, fr), op \in Moving => dst \in Storage
    PROVE  Targets' /\ does' \in [Caller -> Calls]
  BY DEF Targets, Is, Doing

FreshTypes == /\ life' \in [Storage -> {"live", "released"}]
              /\ data' \in [Storage -> Datum \union {Nothing}]
              /\ owned' \in SUBSET Storage
              /\ access' \in [Storage -> Caller \union {Nobody}]

LEMMA TypesKept == EvictableTypeOK /\ Targets /\ [EvictableNext]_evictableVars => EvictableTypeOK' /\ Targets'
<1> DEFINE Typed == EvictableTypeOK /\ Targets
<1> SUFFICES ASSUME EvictableTypeOK, Targets, [EvictableNext]_evictableVars PROVE Typed'
  OBVIOUS
<1> USE EvictableAssumption
<1>0. /\ life \in [Storage -> {"live", "released"}] /\ data \in [Storage -> Datum \union {Nothing}]
      /\ owned \in SUBSET Storage /\ access \in [Storage -> Caller \union {Nobody}]
      /\ tier \in [primary : Storage, secondary : Storage] /\ evicted \in BOOLEAN /\ astray \in BOOLEAN
      /\ value \in Datum /\ leaked \in SUBSET Storage /\ does \in [Caller -> Calls] /\ Targets
      /\ tier.primary \in Storage /\ tier.secondary \in Storage
      /\ \A u \in Caller : From(u) \in Storage
      /\ \A u \in Caller : does[u].op \in Ops /\ does[u].to \in {"primary", "secondary"} /\ does[u].fresh \in BOOLEAN
                           /\ does[u].dst \in Storage \union {Nothing} /\ tier[does[u].to] \in Storage
  BY FieldTypes DEF EvictableTypeOK, From
<1>1. CASE ClaimPrimary \/ ClaimSecondary \/ Finalize \/ Collect
  BY <1>1 DEF Targets, Is, EvictableTypeOK, ClaimPrimary, ClaimSecondary, Finalize, Collect
<1>2. ASSUME NEW u \in Caller, NEW t \in {"primary", "secondary"}, CallTransition(u, t)
      PROVE  Typed'
  <2>1. does' \in [Caller -> Calls] /\ Targets'
    <3>1. /\ does' \in [Caller -> Calls] /\ does'[u].op = "prepare"
          /\ \A w \in Caller : w # u => does'[w].op = does[w].op /\ does'[w].dst = does[w].dst
      <4>1. does \in [Caller -> Calls]
        BY <1>0
      <4> QED BY ONLY <4>1, <1>2, Calls_
    <3> QED BY <3>1, <1>0 DEF Targets, Is, Moving
  <2> QED BY <2>1, <1>2 DEF CallTransition, EvictableTypeOK, storageVars, hierarchyVars
<1>3. ASSUME NEW u \in Caller, Prepare(u)
      PROVE  Typed'
  <2>1. does' \in [Caller -> Calls] /\ Targets' /\ FreshTypes
    <3>1. CASE Stops(u) /\ UNCHANGED storageVars
      BY <3>1, <1>0, Stops_ DEF Targets, Is, Moving, Doing, storageVars, FreshTypes
    <3>2. ASSUME NEW c \in Storage, does' = [does EXCEPT ![u] = [@ EXCEPT !.op = "enter", !.dst = c]], UNCHANGED storageVars
          PROVE  does' \in [Caller -> Calls] /\ Targets' /\ FreshTypes
      <4>1. Doing(u, "enter", does[u].to, does[u].src, c, does[u].fresh)
        BY <3>2, <1>0, Enters_
      <4> QED BY <4>1, <3>2, <1>0, TargetsKept DEF storageVars, FreshTypes
    <3>3. ASSUME NEW c \in Storage, does' = [does EXCEPT ![u] = [@ EXCEPT !.op = "enter", !.dst = c, !.fresh = TRUE]],
                 NEW v \in Datum, data' = [data EXCEPT ![c] = v], life' = [life EXCEPT ![c] = "live"],
                 owned' = owned \union {c}, UNCHANGED access
          PROVE  does' \in [Caller -> Calls] /\ Targets' /\ FreshTypes
      <4>1. Doing(u, "enter", does[u].to, does[u].src, c, TRUE)
        BY <3>3, <1>0, EntersFresh
      <4> QED BY <4>1, <3>3, <1>0, TargetsKept DEF FreshTypes
    <3> QED BY <3>1, <3>2, <3>3, <1>0, <1>3, NewCarrier DEF Prepare
  <2> QED BY <2>1, <1>3 DEF Prepare, EvictableTypeOK, hierarchyVars, FreshTypes
<1>4. ASSUME NEW u \in Caller, Enter(u)
      PROVE  Typed'
  <2>1. does' \in [Caller -> Calls] /\ Targets' /\ access' \in [Storage -> Caller \union {Nobody}] /\ leaked' \in SUBSET Storage
    <3>1. CASE Fails(u) /\ UNCHANGED leaked
      BY <3>1, <1>0, Fails_ DEF Targets, Is, Moving, Doing
    <3>3. CASE Leaks(u)
      <4>1. does[u].op \in Moving
        BY <1>4 DEF Enter, Moving
      <4> QED BY <3>3, <4>1, <1>0, Leaks_ DEF Targets, Is, Moving, Doing
    <3>2. CASE Goes(u, "copy") /\ access' = [access EXCEPT ![From(u)] = u, ![does[u].dst] = u] /\ UNCHANGED leaked
      <4>1. "copy" \in Ops
        BY DEF Ops, Transition
      <4>2. Doing(u, "copy", does[u].to, does[u].src, does[u].dst, does[u].fresh)
        BY <3>2, <4>1, <1>0, Goes_
      <4>3. does[u].dst \in Storage
        BY <1>0, <1>4 DEF Enter, Targets, Is, Moving
      <4> QED BY <3>2, <4>2, <4>3, <1>0, TargetsKept
    <3> QED BY <3>1, <3>2, <3>3, <1>4 DEF Enter
  <2> QED BY <2>1, <1>4 DEF Enter, EvictableTypeOK
<1>5. ASSUME NEW u \in Caller, Copy(u)
      PROVE  Typed'
  <2>1. /\ does' \in [Caller -> Calls] /\ Targets' /\ access' \in [Storage -> Caller \union {Nobody}] /\ astray' \in BOOLEAN
        /\ data' \in [Storage -> Datum \union {Nothing}] /\ leaked' \in SUBSET Storage
    <3>1. CASE Fails(u) /\ UNCHANGED <<astray, leaked>> /\ (UNCHANGED data \/ \E v \in Datum : data' = [data EXCEPT ![does[u].dst] = v])
      <4>1. Fails(u) /\ UNCHANGED <<astray, leaked>>
        BY <3>1
      <4>2. data' \in [Storage -> Datum \union {Nothing}]
        BY <3>1, <1>0
      <4> QED BY <4>1, <4>2, Fails_, <1>0 DEF Targets, Is, Moving, Doing
    <3>3. CASE Leaks(u) /\ UNCHANGED astray /\ (UNCHANGED data \/ \E v \in Datum : data' = [data EXCEPT ![does[u].dst] = v])
      <4>1. does[u].op \in Moving
        BY <1>5 DEF Copy, Moving
      <4>2. data' \in [Storage -> Datum \union {Nothing}]
        BY <3>3, <1>0
      <4> QED BY <3>3, <4>1, <4>2, <1>0, Leaks_ DEF Targets, Is, Moving, Doing
    <3>2. CASE /\ does' = [does EXCEPT ![u] = [@ EXCEPT !.op = "free", !.src = From(u)]]
               /\ data' = [data EXCEPT ![does[u].dst] = data[From(u)]] /\ UNCHANGED <<access, leaked>>
               /\ astray' = (astray \/ access[From(u)] # u)
      <4>1. "free" \in Ops
        BY DEF Ops, Transition
      <4>2. does' \in [Caller -> Calls] /\ Targets'
        <5>1. Doing(u, "free", does[u].to, From(u), does[u].dst, does[u].fresh)
          BY <3>2, <4>1, <1>0, Sources_
        <5>2. does[u].dst \in Storage
          BY <1>0, <1>5 DEF Copy, Targets, Is, Moving
        <5> QED BY <5>1, <5>2, <1>0, TargetsKept
      <4> QED BY <3>2, <4>2, <1>0
    <3> QED BY <3>1, <3>2, <3>3, <1>5 DEF Copy
  <2> QED BY <2>1, <1>5 DEF Copy, EvictableTypeOK
<1>6. ASSUME NEW u \in Caller, Free(u)
      PROVE  Typed'
  <2>1. does' \in [Caller -> Calls] /\ Targets' /\ FreshTypes
    <3>1. CASE Fails(u) /\ UNCHANGED <<life, data, owned>>
      BY <3>1, Fails_, <1>0 DEF FreshTypes, Targets, Is, Moving, Doing
    <3>2. CASE /\ does' = [does EXCEPT ![u] = [@ EXCEPT !.op = "install", !.src = Nothing]]
               /\ Freed(u, does[u].src) /\ access' = Left(u) /\ UNCHANGED owned
      <4>1. "install" \in Ops
        BY DEF Ops, Transition
      <4>2. does' \in [Caller -> Calls] /\ Targets'
        <5>1. Doing(u, "install", does[u].to, Nothing, does[u].dst, does[u].fresh)
          BY <3>2, <4>1, <1>0, Sources_
        <5>2. does[u].dst \in Storage
          BY <1>0, <1>6 DEF Free, Targets, Is, Moving
        <5> QED BY <5>1, <5>2, <1>0, TargetsKept
      <4> QED BY <3>2, <4>2, <1>0, LeftType DEF Freed, FreshTypes
    <3> QED BY <3>1, <3>2, <1>6 DEF Free
  <2> QED BY <2>1, <1>6 DEF Free, EvictableTypeOK, hierarchyVars, FreshTypes
<1>7. ASSUME NEW u \in Caller, Install(u)
      PROVE  Typed'
  <2>1. does' \in [Caller -> Calls] /\ Targets' /\ leaked' \in SUBSET Storage /\ access' \in [Storage -> Caller \union {Nobody}]
    <3>1. CASE Stops(u) /\ UNCHANGED <<access, leaked>>
      BY <3>1, <1>0, Stops_ DEF Targets, Is, Moving, Doing
    <3>3. CASE Leaks(u)
      <4>1. does[u].op \in Moving
        BY <1>7 DEF Install, Moving
      <4> QED BY <3>3, <4>1, <1>0, Leaks_ DEF Targets, Is, Moving, Doing
    <3>2. CASE Disposes(u, "dispose", tier[does[u].to]) /\ UNCHANGED <<access, leaked>>
      <4>1. "dispose" \in Ops
        BY DEF Ops, Transition
      <4>2. Doing(u, "dispose", "primary", Nothing, tier[does[u].to], TRUE)
        BY <3>2, <4>1, <1>0, Disposes_
      <4> QED BY <3>2, <4>2, <1>0, TargetsKept DEF Moving
    <3> QED BY <3>1, <3>2, <3>3, <1>7 DEF Install
  <2>2. tier' \in [primary : Storage, secondary : Storage]
    BY <1>7, <1>0 DEF Install, Targets, Is, Moving
  <2> QED BY <2>1, <2>2, <1>7 DEF Install, EvictableTypeOK
<1>8. ASSUME NEW u \in Caller, Dispose(u)
      PROVE  Typed'
  <2>1. does' \in [Caller -> Calls] /\ Targets'
    BY <1>8, <1>0, Stops_ DEF Targets, Is, Moving, Doing, Dispose
  <2> QED BY <2>1, <1>8 DEF Dispose, EvictableTypeOK, hierarchyVars
<1>9. ASSUME NEW u \in Caller, CallWrite(u)
      PROVE  Typed'
  <2>1. does' \in [Caller -> Calls] /\ Targets'
    BY <1>9, <1>0, Writes_ DEF Targets, Is, Moving, Doing, CallWrite
  <2> QED BY <2>1, <1>9 DEF CallWrite, EvictableTypeOK, hierarchyVars, storageVars
<1>10. ASSUME NEW u \in Caller, EnterWrite(u)
       PROVE  Typed'
  <2>1. does' \in [Caller -> Calls] /\ Targets'
    <3>1. "store" \in Ops
      BY DEF Ops, Writing
    <3>2. CASE Goes(u, "store")
      <4>1. Doing(u, "store", does[u].to, does[u].src, does[u].dst, does[u].fresh)
        BY <3>1, <3>2, <1>0, Goes_
      <4> QED BY <4>1, <1>0, TargetsKept DEF Moving
    <3>3. CASE Stops(u)
      BY <3>3, <1>0, Stops_ DEF Targets, Is, Moving, Doing
    <3> QED BY <3>2, <3>3, <1>10 DEF EnterWrite
  <2> QED BY <2>1, <1>10 DEF EnterWrite, EvictableTypeOK, hierarchyVars
<1>11. ASSUME NEW u \in Caller, Store(u)
       PROVE  Typed'
  <2>1. does' \in [Caller -> Calls] /\ Targets' /\ access' \in [Storage -> Caller \union {Nobody}]
    BY <1>11, <1>0, Stops_, LeftType DEF Targets, Is, Moving, Doing, Store
  <2> QED BY <2>1, <1>11 DEF Store, EvictableTypeOK
<1>12. ASSUME NEW u \in Caller, CallRelease(u)
       PROVE  Typed'
  <2>1. does' \in [Caller -> Calls] /\ Targets'
    BY <1>12, <1>0, Releases_ DEF Targets, Is, Moving, Doing, CallRelease
  <2> QED BY <2>1, <1>12 DEF CallRelease, EvictableTypeOK, hierarchyVars, storageVars
<1>13. ASSUME NEW u \in Caller, NEW t \in {"primary", "secondary"}, NEW next \in Ops \ Moving, DropTier(u, t, next),
              UNCHANGED <<owned, access, tier, evicted, state, value, astray, leaked>>
       PROVE  Typed'
  <2>1. does' \in [Caller -> Calls] /\ Targets'
    <3>2. CASE Goes(u, next)
      <4>1. Doing(u, next, does[u].to, does[u].src, does[u].dst, does[u].fresh)
        BY <3>2, <1>0, Goes_
      <4> QED BY <4>1, <1>0, TargetsKept
    <3>3. CASE Stops(u)
      BY <3>3, <1>0, Stops_ DEF Targets, Is, Moving, Doing
    <3> QED BY <3>2, <3>3, <1>13 DEF DropTier
  <2> QED BY <2>1, <1>13 DEF DropTier, EvictableTypeOK
<1>14. ASSUME NEW u \in Caller, Mark(u)
       PROVE  Typed'
  <2>1. does' \in [Caller -> Calls] /\ Targets'
    BY <1>14, <1>0, Stops_ DEF Targets, Is, Moving, Doing, Mark
  <2> QED BY <2>1, <1>14 DEF Mark, EvictableTypeOK, storageVars
<1>15. CASE UNCHANGED evictableVars
  BY <1>15 DEF Targets, Is, evictableVars, EvictableTypeOK
<1>16. "dropSecondary" \in Ops \ Moving /\ "mark" \in Ops \ Moving
  BY DEF Ops, Releasing, Moving
<1> QED BY <1>1, <1>2, <1>3, <1>4, <1>5, <1>6, <1>7, <1>8, <1>9, <1>10, <1>11, <1>12, <1>13, <1>14, <1>15, <1>16
        DEF EvictableNext, DropPrimary, DropSecondary
-----------------------------------------------------------------------------
(* A step of a transition, beside which every release says so; and one of  *)
(* a thread that is in none, after which what was released still is.       *)
LEMMA QuietReturns ==
    ASSUME Returning, NEW u \in Caller, \A t \in Caller : t # u => does'[t] = does[t],
           does'[u].op \notin Releasing,
           does'[u].op \in Transition => does[u].op \in Transition,
           \/ does[u].op \in Transition
           \/ tier' = tier /\ \A c \in {tier.primary, tier.secondary} : life[c] = "released" => life'[c] = "released"
    PROVE  Returning'
<1>1. CASE does[u].op \in Transition
  <2>1. \A t \in Caller : t # u /\ does'[t].op \in Releasing => does'[t].beside
    BY <1>1 DEF Returning, Is
  <2> QED BY <2>1 DEF Returning, Is
<1>2. CASE does[u].op \notin Transition
  BY <1>2 DEF Returning, Is, Released
<1> QED BY <1>1, <1>2

LEMMA ReturningKept == EvictableTypeOK /\ Returning /\ [EvictableNext]_evictableVars => Returning'
<1> SUFFICES ASSUME EvictableTypeOK, Returning, [EvictableNext]_evictableVars PROVE Returning'
  OBVIOUS
<1>0. /\ life \in [Storage -> {"live", "released"}] /\ data \in [Storage -> Datum \union {Nothing}]
      /\ does \in [Caller -> Calls] /\ tier.primary \in Storage /\ tier.secondary \in Storage
      /\ \A u \in Caller : does[u].dst \in Storage \union {Nothing} /\ tier[does[u].to] \in Storage
  BY FieldTypes DEF EvictableTypeOK
<1>o. /\ \A op \in {"enter", "copy", "free", "install", "dispose", "undo"} : op \in Ops /\ op \in Transition /\ op \notin Releasing
      /\ "rest" \notin Releasing \union Transition /\ "write" \notin Releasing \union Transition
      /\ "prepare" \in Transition /\ "prepare" \notin Releasing
      /\ "store" \in Ops /\ "store" \notin Releasing \union Transition /\ Releasing \subseteq Ops
      /\ Releasing \intersect Transition = {}
  BY DEF Ops, Transition, Releasing, Writing
<1>1. CASE ClaimPrimary \/ ClaimSecondary \/ Finalize \/ Collect
  BY <1>1 DEF Returning, Is, Released, ClaimPrimary, ClaimSecondary, Finalize, Collect
<1>2. ASSUME NEW u \in Caller, NEW t \in {"primary", "secondary"}, CallTransition(u, t)
      PROVE  Returning'
  <2>1. does \in [Caller -> Calls]
    BY <1>0
  <2>2. /\ does'[u].op = "prepare"
        /\ \A w \in Caller : w # u => does'[w].op = does[w].op /\ (does'[w].op \in Releasing => does'[w].beside = TRUE)
    BY ONLY <2>1, <1>2, Calls_
  <2> QED BY <2>2, <1>o DEF Returning, Is
<1>3. ASSUME NEW u \in Caller, Prepare(u)
      PROVE  Returning'
  <2>1. (\A t \in Caller : t # u => does'[t] = does[t]) /\ does'[u].op \in {"rest", "enter"}
    <3>1. CASE Stops(u)
      BY <3>1, <1>0, Stops_ DEF Doing
    <3>2. ASSUME NEW c \in Storage, does' = [does EXCEPT ![u] = [@ EXCEPT !.op = "enter", !.dst = c]]
          PROVE  (\A t \in Caller : t # u => does'[t] = does[t]) /\ does'[u].op = "enter"
      BY <3>2, <1>0, Enters_ DEF Doing
    <3>3. ASSUME NEW c \in Storage, does' = [does EXCEPT ![u] = [@ EXCEPT !.op = "enter", !.dst = c, !.fresh = TRUE]]
          PROVE  (\A t \in Caller : t # u => does'[t] = does[t]) /\ does'[u].op = "enter"
      BY <3>3, <1>0, EntersFresh DEF Doing
    <3> QED BY <3>1, <3>2, <3>3, <1>0, <1>3, NewCarrier DEF Prepare
  <2> QED BY <2>1, <1>3, <1>o, QuietReturns DEF Prepare
<1>4. ASSUME NEW u \in Caller, NEW op \in {"copy", "undo", "free", "install", "dispose", "rest"},
             does[u].op \in Transition, does'[u].op = op, \A t \in Caller : t # u => does'[t] = does[t]
      PROVE  Returning'
  BY <1>4, <1>o, QuietReturns
<1>5. ASSUME NEW u \in Caller, Fails(u), does[u].op \in Transition
      PROVE  Returning'
  BY <1>4, <1>5, Fails_ DEF Doing
<1>22. ASSUME NEW u \in Caller, Leaks(u), does[u].op \in Transition
      PROVE  Returning'
  BY <1>0, <1>4, <1>22, Stops_ DEF Doing, Leaks
<1>6. ASSUME NEW u \in Caller, Enter(u)
      PROVE  Returning'
  <2>1. does[u].op \in Transition
    BY <1>6, <1>o DEF Enter
  <2>2. CASE Goes(u, "copy")
    <3>1. Doing(u, "copy", does[u].to, does[u].src, does[u].dst, does[u].fresh)
      BY <2>2, <1>0, <1>o, Goes_
    <3> QED BY <3>1, <2>1, <1>4 DEF Doing
  <2> QED BY <2>1, <2>2, <1>5, <1>6, <1>22 DEF Enter
<1>7. ASSUME NEW u \in Caller, NEW op \in {"free", "install"}, NEW c \in Storage \union {Nothing}, does[u].op \in Transition,
             does' = [does EXCEPT ![u] = [@ EXCEPT !.op = op, !.src = c]]
      PROVE  Returning'
  <2>1. Doing(u, op, does[u].to, c, does[u].dst, does[u].fresh)
    BY <1>7, <1>0, <1>o, Sources_
  <2> QED BY <2>1, <1>7, <1>4 DEF Doing
<1>8. ASSUME NEW u \in Caller, Copy(u)
      PROVE  Returning'
  <2>1. does[u].op \in Transition /\ From(u) \in Storage
    BY <1>8, <1>0, <1>o DEF Copy, From
  <2> QED BY <2>1, <1>5, <1>7, <1>8, <1>22 DEF Copy
<1>9. ASSUME NEW u \in Caller, Free(u)
      PROVE  Returning'
  <2>1. does[u].op \in Transition
    BY <1>9, <1>o DEF Free
  <2> QED BY <2>1, <1>5, <1>7, <1>9 DEF Free
<1>10. ASSUME NEW u \in Caller, Stops(u), does[u].op \in Transition
       PROVE  Returning'
  BY <1>10, <1>0, <1>4, Stops_ DEF Doing
<1>11. ASSUME NEW u \in Caller, Install(u)
       PROVE  Returning'
  <2>1. does[u].op \in Transition
    BY <1>11, <1>o DEF Install
  <2>2. CASE Disposes(u, "dispose", tier[does[u].to])
    <3>1. Doing(u, "dispose", "primary", Nothing, tier[does[u].to], TRUE)
      BY <2>2, <1>0, <1>o, Disposes_
    <3> QED BY <3>1, <2>1, <1>4 DEF Doing
  <2> QED BY <2>1, <2>2, <1>10, <1>11, <1>22 DEF Install
<1>12. ASSUME NEW u \in Caller, Dispose(u)
       PROVE  Returning'
  BY <1>12, <1>10, <1>o DEF Dispose
<1>13. ASSUME NEW u \in Caller, Stops(u), UNCHANGED tier,
              \A c \in {tier.primary, tier.secondary} : life[c] = "released" => life'[c] = "released"
       PROVE  Returning'
  <2>1. Doing(u, "rest", "primary", Nothing, Nothing, FALSE)
    BY <1>13, <1>0, Stops_
  <2> QED BY <2>1, <1>13, <1>o, QuietReturns DEF Doing
<1>14. ASSUME NEW u \in Caller, CallWrite(u)
       PROVE  Returning'
  <2>1. Doing(u, "write", "primary", Nothing, tier.primary, FALSE)
    BY <1>14, <1>0, Writes_ DEF CallWrite
  <2>2. UNCHANGED <<tier, life>>
    BY <1>14 DEF CallWrite, storageVars, hierarchyVars
  <2> QED BY <2>1, <2>2, <1>o, QuietReturns DEF Doing
<1>15. ASSUME NEW u \in Caller, EnterWrite(u)
       PROVE  Returning'
  <2>1. UNCHANGED <<tier, life>>
    BY <1>15 DEF EnterWrite, hierarchyVars
  <2>2. CASE Goes(u, "store")
    <3>1. Doing(u, "store", does[u].to, does[u].src, does[u].dst, does[u].fresh)
      BY <2>2, <1>0, <1>o, Goes_
    <3> QED BY <3>1, <2>1, <1>o, QuietReturns DEF Doing
  <2> QED BY <2>1, <2>2, <1>13, <1>15 DEF EnterWrite
<1>16. ASSUME NEW u \in Caller, Store(u)
       PROVE  Returning'
  BY <1>16, <1>13 DEF Store
<1>17. ASSUME NEW u \in Caller, CallRelease(u)
       PROVE  Returning'
  <2>1. /\ Doing(u, "dropPrimary", "primary", Nothing, Nothing, FALSE)
        /\ does'[u].beside = \E t \in Caller : does[t].op \in Transition
    BY <1>17, <1>0, Releases_ DEF CallRelease
  <2>2. UNCHANGED <<tier, life>> /\ does[u] = Rests
    BY <1>17 DEF CallRelease, storageVars, hierarchyVars, Resting
  <2>3. /\ does'[u].op = "dropPrimary" /\ does[u].op = "rest"
        /\ \A t \in Caller : t # u => does'[t] = does[t]
    BY <2>1, <2>2 DEF Doing, Rests
  <2>4. "dropPrimary" \notin Transition
    BY DEF Transition
  <2>5. ~does'[u].beside => \A t \in Caller : does'[t].op \notin Transition
    BY <2>1, <2>3, <2>4
  <2>6. ASSUME NEW w \in Caller, w # u, does'[w].op \in Releasing, ~does'[w].beside
        PROVE  /\ \A t \in Caller : does'[t].op \notin Transition
               /\ does'[w].op \in {"dropSecondary", "mark"} => life'[tier'.primary] = "released"
               /\ does'[w].op = "mark" => life'[tier'.secondary] = "released"
    <3>1. does'[w] = does[w]
      BY <2>3, <2>6
    <3> QED BY <3>1, <2>2, <2>3, <2>4, <2>6 DEF Returning, Is, Released
  <2>7. \A w \in Caller : does'[w].op \in Releasing /\ ~does'[w].beside =>
               /\ \A t \in Caller : does'[t].op \notin Transition
               /\ does'[w].op \in {"dropSecondary", "mark"} => life'[tier'.primary] = "released"
               /\ does'[w].op = "mark" => life'[tier'.secondary] = "released"
    BY <2>3, <2>5, <2>6
  <2> QED BY <2>7 DEF Returning, Is, Released
<1>18. ASSUME NEW u \in Caller, DropPrimary(u)
       PROVE  Returning'
  <2>1. /\ UNCHANGED tier /\ does[u].op = "dropPrimary"
        /\ \A c \in {tier.primary, tier.secondary} : life[c] = "released" => life'[c] = "released"
    BY <1>18, <1>0 DEF DropPrimary, DropTier
  <2>2. CASE Goes(u, "dropSecondary") /\ life'[tier.primary] = "released"
    <3>1. Doing(u, "dropSecondary", does[u].to, does[u].src, does[u].dst, does[u].fresh) /\ does'[u].beside = does[u].beside
      BY <2>2, <1>0, <1>o, Goes_ DEF Releasing
    <3> QED BY <3>1, <2>1, <2>2, <1>o DEF Doing, Returning, Is, Released, Releasing
  <2> QED BY <2>1, <2>2, <1>13, <1>18, <1>0 DEF DropPrimary, DropTier
<1>19. ASSUME NEW u \in Caller, DropSecondary(u)
       PROVE  Returning'
  <2>1. /\ UNCHANGED tier /\ does[u].op = "dropSecondary"
        /\ \A c \in {tier.primary, tier.secondary} : life[c] = "released" => life'[c] = "released"
    BY <1>19, <1>0 DEF DropSecondary, DropTier
  <2>2. CASE Goes(u, "mark") /\ life'[tier.secondary] = "released"
    <3>1. Doing(u, "mark", does[u].to, does[u].src, does[u].dst, does[u].fresh) /\ does'[u].beside = does[u].beside
      BY <2>2, <1>0, <1>o, Goes_ DEF Releasing
    <3> QED BY <3>1, <2>1, <2>2, <1>o DEF Doing, Returning, Is, Released, Releasing
  <2> QED BY <2>1, <2>2, <1>13, <1>19, <1>0 DEF DropSecondary, DropTier
<1>20. ASSUME NEW u \in Caller, Mark(u)
       PROVE  Returning'
  BY <1>20, <1>13 DEF Mark, storageVars
<1>21. CASE UNCHANGED evictableVars
  BY <1>21 DEF evictableVars, Returning, Is, Released
<1> QED BY <1>1, <1>2, <1>3, <1>6, <1>8, <1>9, <1>11, <1>12, <1>14, <1>15, <1>16, <1>17, <1>18, <1>19, <1>20, <1>21
        DEF EvictableNext
-----------------------------------------------------------------------------
(* What the types say of each part.                                        *)
LEMMA Parts ==
    ASSUME EvictableTypeOK
    PROVE  /\ life \in [Storage -> {"live", "released"}] /\ data \in [Storage -> Datum \union {Nothing}]
           /\ owned \in SUBSET Storage /\ access \in [Storage -> Caller \union {Nobody}]
           /\ tier \in [primary : Storage, secondary : Storage] /\ tier.primary \in Storage /\ tier.secondary \in Storage
           /\ evicted \in BOOLEAN /\ astray \in BOOLEAN /\ dropped \in BOOLEAN /\ value \in Datum /\ leaked \in SUBSET Storage
           /\ does \in [Caller -> Calls] /\ Active \in Storage
           /\ \A u \in Caller : /\ does[u].op \in Ops /\ does[u].to \in {"primary", "secondary"} /\ does[u].fresh \in BOOLEAN
                                /\ does[u].dst \in Storage \union {Nothing} /\ does[u].src \in Storage \union {Nothing}
                                /\ tier[does[u].to] \in Storage /\ From(u) \in Storage
  BY FieldTypes DEF EvictableTypeOK, From, Active

(* A thread leaves what it does, keeping at most a fresh destination to    *)
(* dispose of; it may have released a carrier that nobody else had access  *)
(* to, or have left a fresh destination behind.                            *)
Leaves(u) ==
    /\ \A t \in Caller : t # u => does'[t] = does[t]
    /\ leaked \subseteq leaked'
    /\ \/ /\ does'[u].op \in {"rest", "write"} \union Releasing /\ ~does'[u].fresh
          /\ does[u].fresh => does[u].dst \notin owned' \/ life'[does[u].dst] = "released" \/ does[u].dst \in leaked'
       \/ /\ does'[u].op = "undo" /\ does[u].fresh /\ does'[u].fresh
          /\ does'[u].dst = does[u].dst /\ does[u].op \in Moving
    /\ does'[u].dst \in {Nothing, tier.primary, does[u].dst}
    /\ does'[u].src \in {Nothing, does[u].src}
    /\ access' \in {access, Left(u)} /\ (does'[u].op = "undo" => access' = Left(u))
    /\ UNCHANGED <<tier, evicted>>
    /\ owned' \in {owned, owned \ {does[u].dst}}
    /\ owned' # owned => does[u].dst \notin Tiers /\ does[u].op \in {"dispose", "undo"} /\ does'[u].op = "rest"
    /\ UNCHANGED state \/ (state \in {"live", "released"} /\ state' = "released")
    /\ state' \notin {"live", "released"} => does'[u].op = "rest"
    /\ \A c \in Storage : \/ life'[c] = life[c] /\ (data'[c] = Nothing <=> data[c] = Nothing)
                          \/ life'[c] = "released" /\ access[c] \in {Nobody, u}

LEMMA LeavesOrderly ==
    ASSUME EvictableTypeOK, Targets, Orderly, NEW u \in Caller, Leaves(u), Values'
    PROVE  Orderly'
<1>0. /\ tier.primary \in Storage /\ tier.secondary \in Storage /\ access \in [Storage -> Caller \union {Nobody}]
      /\ \A t \in Caller : does[t].dst \in Storage \union {Nothing} /\ does[t].src \in Storage \union {Nothing}
      /\ Active \in Storage /\ Active' = Active /\ owned \subseteq Storage /\ Nobody \notin Caller /\ Nothing \notin Storage
      /\ Active \in Tiers
  BY Parts, EvictableAssumption DEF Active, Leaves, Tiers
<1>p. Claims /\ Residency /\ Destinations /\ Accesses /\ Turns
  BY DEF Orderly
<1>1. /\ \A t \in Caller : t # u => does'[t] = does[t]
      /\ \/ /\ does'[u].op \in {"rest", "write"} \union Releasing /\ ~does'[u].fresh
            /\ does[u].fresh => does[u].dst \notin owned' \/ life'[does[u].dst] = "released" \/ does[u].dst \in leaked'
         \/ /\ does'[u].op = "undo" /\ does[u].fresh /\ does'[u].fresh
            /\ does'[u].dst = does[u].dst /\ does[u].op \in Moving
      /\ does'[u].dst \in {Nothing, tier.primary, does[u].dst}
      /\ does'[u].src \in {Nothing, does[u].src}
      /\ UNCHANGED <<tier, evicted>> /\ leaked \subseteq leaked'
      /\ owned' \in {owned, owned \ {does[u].dst}} /\ (owned' # owned => does[u].dst \notin Tiers)
  BY DEF Leaves
<1>2. does'[u].op \notin Moving /\ does'[u].op \notin {"prepare", "store", "dispose"}
  BY <1>1 DEF Releasing, Moving
<1>u. does'[u].op = "undo" => does[u].fresh /\ does'[u].fresh /\ does'[u].dst = does[u].dst /\ does[u].op \in Moving
  BY <1>1 DEF Releasing
<1>e. \A c \in Storage : /\ Empty(c)' => Empty(c)
                         /\ Released(c) => Released(c)'
                         /\ Empty(c) => Empty(c)' \/ Released(c)'
                         /\ life'[c] = "live" => life[c] = "live"
                         /\ life[c] = "live" /\ access[c] \notin {Nobody, u} => life'[c] = "live"
  BY DEF Leaves, Empty, Released
<1>3. \A c : c \in Held => c \in Held' \/ (c = does[u].dst /\ does[u].fresh /\ ~does'[u].fresh)
  <2>1. Held' = {does'[t].dst : t \in {w \in Caller : does'[w].fresh}}
    BY DEF Held
  <2>2. does'[u].fresh => does'[u].dst = does[u].dst
    BY <1>1
  <2> QED BY <2>1, <2>2, <1>1 DEF Held
<1>4. Claims'
  <2>1. ASSUME NEW c \in owned' \ leaked', life'[c] = "live"
        PROVE  c \in Held' \/ (c \in Tiers /\ state' \notin {"refused", "gone"})
    <3>1. c \in owned \ leaked /\ life[c] = "live"
      BY <2>1, <1>0, <1>1, <1>e
    <3>2. c \in Held \/ (c \in Tiers /\ state \notin {"refused", "gone"})
      BY <3>1, <1>p DEF Claims
    <3>3. ~(c = does[u].dst /\ does[u].fresh /\ ~does'[u].fresh)
      BY <2>1, <1>1
    <3> QED BY <3>2, <3>3, <1>3 DEF Leaves
  <2>2. ASSUME state \in {"unbuilt", "refused", "half", "claimed", "gone"}
        PROVE  does[u].op = "rest" /\ state' = state /\ owned' = owned
    <3>1. does[u].op = "rest" /\ state' = state
      BY <2>2, <1>p DEF Claims, Is, Leaves
    <3> QED BY <3>1 DEF Leaves
  <2>3. Tiers \subseteq owned => Tiers \subseteq owned'
    BY <1>1
  <2>4. state \in {"unbuilt", "half", "claimed", "live", "released", "refused", "gone"}
    BY DEF EvictableTypeOK
  <2>5. /\ state' \in {"live", "released"} => state \in {"live", "released"}
        /\ state' \notin {"live", "released"} => state' = state /\ does'[u].op = "rest"
    BY DEF Leaves
  <2>6. (\A c \in owned \ leaked : life[c] = "live" => c \in Held \/ (c \in Tiers /\ state \notin {"refused", "gone"}))'
    BY <2>1, <1>1 DEF Tiers
  <2>7. state' \notin {"live", "released"} => \A t \in Caller : does'[t].op = "rest"
    BY <2>5, <1>1, <1>p DEF Claims, Is
  <2> QED BY <2>2, <2>3, <2>4, <2>5, <2>6, <2>7, <1>1, <1>p DEF Claims, Is, Tiers
<1>5. Residency'
  <2>1. tier.primary # tier.secondary /\ (evicted => Released(tier.primary)) /\ ~Empty(Active)
    BY <1>p DEF Residency
  <2>2. evicted => life'[tier.primary] = "released"
    BY <2>1, <1>0, <1>e DEF Released
  <2>3. ~Empty(Active)'
    BY <2>1, <1>0, <1>e DEF Empty
  <2>4. ~evicted => \/ life'[tier.secondary] = "released"
                    \/ \A w \in Caller : does'[w].op \in Moving \union {"prepare"} =>
                         /\ does'[w].to = "secondary"
                         /\ does'[w].fresh /\ does'[w].op \in Moving =>
                               life'[tier.secondary] = "live" /\ data'[tier.secondary] = Nothing
    <3> SUFFICES ASSUME ~evicted, life'[tier.secondary] # "released",
                        NEW w \in Caller, does'[w].op \in {"enter", "copy", "free", "install", "prepare"}
                 PROVE  /\ does'[w].to = "secondary"
                        /\ does'[w].fresh /\ does'[w].op \in {"enter", "copy", "free", "install"} =>
                               life'[tier.secondary] = "live" /\ data'[tier.secondary] = Nothing
      BY DEF Moving
    <3>1. does'[w] = does[w]
      BY <1>1, <1>2 DEF Moving
    <3>2. ~Released(tier.secondary)
      BY <1>0, <1>e DEF Released
    <3>3. Empty(tier.secondary) => life'[tier.secondary] = "live" /\ data'[tier.secondary] = Nothing
      BY <1>0, <1>e DEF Empty, Released
    <3>4. does[w].to = "secondary" /\ (does[w].fresh /\ does[w].op \in {"enter", "copy", "free", "install"} => Empty(tier.secondary))
      BY <3>1, <3>2, <1>p DEF Residency, Is, Moving
    <3> QED BY <3>1, <3>3, <3>4
  <2> QED BY <2>1, <2>2, <2>3, <2>4, <1>1 DEF Residency, Is, Released, Empty, Moving
<1>6. /\ \A c \in Storage : access'[c] \in {access[c], Nobody}
      /\ \A c \in Storage, t \in Caller : t # u => (access'[c] = t <=> access[c] = t)
      /\ does'[u].op = "undo" => \A c \in Storage : access'[c] # u
  BY <1>0 DEF Leaves, Left
<1>7. Destinations'
  <2>1. ASSUME NEW t \in Caller, t # u PROVE Private(t)'
    <3>1. does'[t] = does[t] /\ Private(t)
      BY <2>1, <1>1, <1>p DEF Destinations
    <3>2. CASE does[t].fresh /\ does[t].op \in {"enter", "copy", "free", "install", "undo"}
      <4>1. /\ does[t].dst \in owned /\ does[t].dst \notin Tiers /\ access[does[t].dst] \in {Nobody, t}
            /\ \A w \in Caller \ {t} : does[w].dst # does[t].dst /\ does[w].src # does[t].dst
        BY <3>1, <3>2 DEF Private, Is, Moving
      <4>2. does[t].dst \in owned' /\ does[t].dst \in Storage
        BY <2>1, <4>1, <1>0, <1>1
      <4>3. does'[u].dst # does[t].dst /\ does'[u].src # does[t].dst
        BY <2>1, <4>1, <4>2, <1>0, <1>1 DEF Tiers
      <4>4. access'[does[t].dst] \in {Nobody, t}
        BY <4>1, <4>2, <1>6
      <4> QED BY <3>1, <4>1, <4>2, <4>3, <4>4, <1>1 DEF Private, Tiers
    <3> QED BY <3>1, <3>2 DEF Private, Is, Moving
  <2>2. ASSUME NEW t \in Caller, t # u PROVE Aimed(t)'
    <3>1. does'[t] = does[t] /\ Aimed(t) /\ (does[t].op \in Moving \union {"dispose", "undo"} => does[t].dst \in Storage)
      BY <2>2, <1>p, <1>1 DEF Destinations, Targets, Is, Aimed
    <3>2. does[t].op \in Moving => ~Empty(does[t].dst)'
      BY <3>1, <1>e DEF Aimed, Is
    <3>3. ~does[t].fresh /\ does[t].op \in Moving => Released(does[t].dst)' \/ does[t].dst = tier[does[t].to]
      BY <3>1, <1>e DEF Aimed, Is
    <3>4. does[t].op = "dispose" => does[t].dst \notin Tiers /\ (Released(does[t].dst)' \/ Empty(does[t].dst)')
      BY <3>1, <1>e DEF Aimed, Is
    <3> QED BY <3>1, <3>2, <3>3, <3>4, <1>1 DEF Aimed, Is, Tiers, Released, Moving, Empty
  <2>3. Private(u)'
    <3>1. CASE does'[u].op = "undo"
      <4>1. /\ does[u].dst \in owned /\ does[u].dst \notin Tiers /\ access[does[u].dst] \in {Nobody, u}
            /\ \A w \in Caller \ {u} : does[w].dst # does[u].dst /\ does[w].src # does[u].dst
        BY <3>1, <1>u, <1>p DEF Destinations, Private, Is
      <4>3. access'[does[u].dst] \in {Nobody, u} 
        BY <4>1, <1>0, <1>6
      <4>4. does'[u].op = "undo" => owned' = owned
        BY DEF Leaves
      <4> QED BY <3>1, <4>1, <4>3, <4>4, <1>1, <1>u DEF Private, Is, Tiers
    <3>2. CASE does'[u].op # "undo"
      BY <3>2, <1>2 DEF Private, Is
    <3> QED BY <3>1, <3>2
  <2>4. Aimed(u)'
    <3>1. CASE does'[u].op = "undo"
      <4>1. does[u].dst \in Storage
        BY <3>1, <1>u DEF Targets, Is
      <4> QED BY <3>1, <4>1, <1>u DEF Aimed, Is, Moving, Released
    <3>2. CASE does'[u].op # "undo"
      BY <3>2, <1>1, <1>2 DEF Aimed, Is, Empty, Released, Moving, Releasing
    <3> QED BY <3>1, <3>2
  <2> QED BY <2>1, <2>2, <2>3, <2>4 DEF Destinations
<1>8. Accesses'
  <2>1. ASSUME NEW t \in Caller, t # u PROVE Entered(t)'
    <3>1. /\ does'[t] = does[t] /\ Entered(t) /\ Private(t) /\ Aimed(t)
      BY <2>1, <1>p, <1>1 DEF Accesses, Destinations
    <3>2. Is(t, {"undo"}) => does[t].dst \in Storage
      BY <3>1 DEF Aimed, Is
    <3>3. does[t].op = "undo" => access'[does[t].dst] = Nobody
      BY <3>1, <3>2, <1>6 DEF Entered, Is
    <3>4. does[t].op \in {"copy", "free", "store"} => access'[does[t].dst] = t /\ does[t].dst \in Storage
      <4>1. does[t].op \in {"copy", "free", "store"} => does[t].dst \in Storage
        BY <3>1 DEF Entered, Is, Targets, Moving
      <4> QED BY <2>1, <3>1, <4>1, <1>6 DEF Entered, Is
    <3>5. does[t].op = "store" => Released(does[t].dst)' \/ (does[t].dst = tier.primary /\ ~evicted)
      BY <3>1, <3>4, <1>e DEF Entered, Is
    <3> QED BY <3>1, <3>3, <3>4, <3>5, <1>1 DEF Entered, Is, Released
  <2>2. Entered(u)'
    <3>1. CASE does'[u].op = "undo"
      <4>1. does[u].dst \in Storage /\ access[does[u].dst] \in {Nobody, u}
        BY <3>1, <1>p, <1>0, <1>u DEF Destinations, Private, Is
      <4>2. access'[does[u].dst] = Nobody
        BY <3>1, <4>1, <1>6
      <4> QED BY <3>1, <4>2, <1>u DEF Entered, Is
    <3>2. CASE does'[u].op # "undo"
      BY <3>2, <1>1, <1>2 DEF Entered, Is, Moving
    <3> QED BY <3>1, <3>2
  <2>3. \A c \in Storage : access'[c] # Nobody => ~Empty(c)'
    BY <1>p, <1>e, <1>6 DEF Accesses
  <2> QED BY <2>1, <2>2, <2>3 DEF Accesses
<1>9. Turns'
  <2>1. ASSUME NEW t \in Caller, does'[t].op \in {"free", "install"} PROVE t # u /\ does'[t] = does[t]
    BY <2>1, <1>1, <1>2 DEF Moving
  <2>2. ASSUME NEW t \in Caller, t # u, does[t].op = "free" PROVE life'[Active] = "live" /\ access'[Active] = t
    <3>1. life[Active] = "live" /\ access[Active] = t
      BY <2>2, <1>p DEF Turns, Is
    <3> QED BY <3>1, <2>2, <1>0, <1>e, <1>6
  <2> QED BY <2>1, <2>2, <1>p, <1>0, <1>1, <1>e DEF Turns, Is, Released
<1> QED BY <1>4, <1>5, <1>7, <1>8, <1>9 DEF Orderly

(* A copy that the storage accepts goes from the active tier to another    *)
(* carrier, and nobody is about to install or shares its destination.      *)
LEMMA MayCopy ==
    ASSUME EvictableTypeOK, Targets, Orderly, NEW u \in Caller, does[u].op = "copy",
           life[From(u)] = "live", data[From(u)] # Nothing, life[does[u].dst] = "live"
    PROVE  /\ evicted = (does[u].to = "primary") /\ From(u) = Active
           /\ does[u].dst \in Storage /\ does[u].dst # Active /\ data[does[u].dst] # Nothing
           /\ ~does[u].fresh => does[u].to = "secondary" /\ does[u].dst = tier.secondary
           /\ \A t \in Caller : does[t].op # "install"
           /\ ~dropped => Holds(Active)
           /\ \A t \in Caller : does[t].op = "free" => t # u /\ does[t].dst # does[u].dst
<1>p. Claims /\ Residency /\ Destinations /\ Accesses /\ Turns /\ Values
  BY DEF Orderly
<1>0. does[u].to \in {"primary", "secondary"} /\ evicted \in BOOLEAN /\ does[u].fresh \in BOOLEAN
  BY Parts
<1>1. does[u].dst \in Storage
  BY DEF Targets, Is, Moving
<1>2. From(u) = IF does[u].to = "primary" THEN tier.secondary ELSE tier.primary
  BY <1>0 DEF From
<1>3. evicted = (does[u].to = "primary")
  BY <1>0, <1>2, <1>p DEF Residency, Is, Moving, Released
<1>4. From(u) = Active
  BY <1>0, <1>2, <1>3 DEF Active
<1>5. data[does[u].dst] # Nothing
  BY <1>p DEF Destinations, Aimed, Is, Moving, Empty
<1>6. ~does[u].fresh => does[u].to = "secondary" /\ does[u].dst = tier.secondary
  <2>1. ~does[u].fresh => does[u].dst = tier[does[u].to]
    BY <1>p DEF Destinations, Aimed, Is, Moving, Released
  <2>2. does[u].to = "primary" => Released(tier.primary)
    BY <1>3, <1>p DEF Residency
  <2> QED BY <2>1, <2>2, <1>0 DEF Released
<1>7. does[u].dst # Active
  BY <1>0, <1>6, <1>3, <1>p DEF Active, Destinations, Private, Is, Moving, Tiers, Residency
<1>8. \A t \in Caller : does[t].op # "install"
  BY <1>4, <1>p DEF Turns, Is, Released
<1>9. ~dropped => Holds(Active)
  BY <1>8, <1>p DEF Values, Is
<1>10. ASSUME NEW t \in Caller, does[t].op = "free"
       PROVE  t # u /\ does[t].dst # does[u].dst
  BY <1>10, <1>p DEF Accesses, Entered, Is
<1> QED BY <1>1, <1>3, <1>4, <1>5, <1>6, <1>7, <1>8, <1>9, <1>10

(* An exception in the move, after a copy that may have begun, or outside  *)
(* the try.                                                                *)
LEMMA FailsOrderly ==
    ASSUME EvictableTypeOK, Targets, Orderly, NEW u \in Caller,
           \/ does[u].op \in {"enter", "copy", "free"} /\ Fails(u) /\ UNCHANGED <<leaked, dropped>>
           \/ does[u].op \in {"enter", "copy"} /\ Leaks(u) /\ UNCHANGED dropped
           \/ does[u].op = "install" /\ Leaks(u) /\ dropped',
           \/ UNCHANGED data
           \/ /\ does[u].op = "copy" /\ life[From(u)] = "live" /\ data[From(u)] # Nothing /\ life[does[u].dst] = "live"
              /\ \E v \in Datum : data' = [data EXCEPT ![does[u].dst] = v],
           UNCHANGED <<tier, evicted, value, owned, life, state>>
    PROVE  Orderly'
<1>0. /\ data \in [Storage -> Datum \union {Nothing}] /\ Nothing \notin Datum /\ does[u].dst \in Storage /\ does[u].fresh \in BOOLEAN
      /\ state \in {"live", "released"} /\ Active \in Storage /\ Active' = Active
  <2>1. Claims
    BY DEF Orderly
  <2> QED BY <2>1, Parts, EvictableAssumption DEF Targets, Is, Moving, Claims, Active
<1>1. /\ does' \in [Caller -> Calls] /\ \A t \in Caller : t # u => does'[t] = does[t]
      /\ \/ does[u].fresh /\ Doing(u, "undo", "primary", Nothing, does[u].dst, TRUE)
         \/ /\ does[u].fresh => does[u].dst \in leaked'
            /\ Doing(u, "rest", "primary", Nothing, Nothing, FALSE)
      /\ access' = Left(u) /\ leaked \subseteq leaked'
  BY Fails_, Leaks_ DEF Moving, Doing
<1>2. \A c \in Storage : data'[c] = Nothing <=> data[c] = Nothing
  <2>1. CASE UNCHANGED data
    BY <2>1
  <2>2. ASSUME does[u].op = "copy", life[From(u)] = "live", data[From(u)] # Nothing, life[does[u].dst] = "live",
               NEW v \in Datum, data' = [data EXCEPT ![does[u].dst] = v]
        PROVE  \A c \in Storage : data'[c] = Nothing <=> data[c] = Nothing
    BY <2>2, <1>0, MayCopy
  <2> QED BY <2>1, <2>2
<1>3. Leaves(u)
  BY <1>0, <1>1, <1>2 DEF Leaves, Doing, Moving
<1>4. ASSUME ~dropped' PROVE Values'
  <2>0. Values /\ UNCHANGED dropped /\ does[u].op \in {"enter", "copy", "free"}
    BY <1>4 DEF Orderly
  <2>1. \A t \in Caller : does'[t].op \in {"free", "install"} => does'[t] = does[t] /\ t # u
    BY <1>1 DEF Doing
  <2>2. CASE UNCHANGED data
    <3>1. \A c : Holds(c)' <=> Holds(c)
      BY <2>2 DEF Holds
    <3>2. \A t \in Caller : does[t].op = "install" => does'[t].op = "install"
      BY <1>1, <2>0
    <3> QED BY <2>0, <2>1, <3>1, <3>2, <1>0, <2>2 DEF Values, Is, Holds
  <2>3. ASSUME does[u].op = "copy", life[From(u)] = "live", data[From(u)] # Nothing, life[does[u].dst] = "live",
               NEW v \in Datum, data' = [data EXCEPT ![does[u].dst] = v]
        PROVE  Values'
    <3>1. /\ does[u].dst # Active /\ (~dropped => Holds(Active)) /\ \A t \in Caller : does[t].op # "install"
          /\ \A t \in Caller : does[t].op = "free" => does[t].dst # does[u].dst
      BY <2>3, MayCopy
    <3>2. \A c : c # does[u].dst /\ Holds(c) => life'[c] = "live" /\ data'[c] = value'
      BY <2>3, <1>0 DEF Holds
    <3> QED BY <2>0, <2>1, <3>1, <3>2, <1>0 DEF Values, Is, Holds
  <2> QED BY <2>2, <2>3
<1> QED BY <1>3, <1>4, LeavesOrderly DEF Values

(* A transition enters the tier it comes from and its destination.         *)
LEMMA EnterOrderly ==
    ASSUME EvictableTypeOK, Targets, Orderly, NEW u \in Caller, does[u].op = "enter",
           Enterable(u, From(u)), Enterable(u, does[u].dst),
           access' = [access EXCEPT ![From(u)] = u, ![does[u].dst] = u], Goes(u, "copy"),
           UNCHANGED <<life, data, owned, tier, evicted, state, value, dropped, leaked>>
    PROVE  Orderly'
<1>p. Claims /\ Residency /\ Destinations /\ Accesses /\ Turns /\ Values
  BY DEF Orderly
<1>0. /\ does[u].dst \in Storage /\ From(u) \in Storage /\ access \in [Storage -> Caller \union {Nobody}]
      /\ does[u].to \in {"primary", "secondary"} /\ Nobody \notin Caller /\ owned \in SUBSET Storage /\ evicted \in BOOLEAN
      /\ Active' = Active /\ Active \in Storage /\ \A t \in Caller : does[t].fresh \in BOOLEAN
  BY Parts, EvictableAssumption DEF Targets, Is, Moving, Active
<1>1. /\ \A t \in Caller : t # u => does'[t] = does[t]
      /\ does'[u].op = "copy" /\ does'[u].to = does[u].to /\ does'[u].src = does[u].src /\ does'[u].dst = does[u].dst
      /\ does'[u].fresh = does[u].fresh
  <2>1. "copy" \in Ops /\ does \in [Caller -> Calls]
    BY Parts DEF Ops, Transition
  <2> QED BY <2>1, Goes_ DEF Doing
<1>2. From(u) = IF does[u].to = "primary" THEN tier.secondary ELSE tier.primary
  BY <1>0 DEF From
<1>3. From(u) \in Tiers /\ ~Empty(From(u)) /\ ~Empty(does[u].dst)
  <2>1. ~Empty(does[u].dst)
    BY <1>p DEF Destinations, Aimed, Is, Moving
  <2>2. CASE evicted = (does[u].to = "primary")
    BY <2>1, <2>2, <1>0, <1>2, <1>p DEF Residency, Active, Tiers
  <2>3. CASE evicted # (does[u].to = "primary")
    BY <2>1, <2>3, <1>0, <1>2, <1>p DEF Residency, Is, Moving, Released, Empty, Tiers
  <2> QED BY <2>2, <2>3
<1>4. /\ \A c \in Storage : access'[c] = IF c \in {From(u), does[u].dst} THEN u ELSE access[c]
      /\ access[From(u)] \in {Nobody, u} /\ access[does[u].dst] \in {Nobody, u}
  BY <1>0 DEF Enterable
<1>5. Held' = Held
  <2>1. Held' = {does'[t].dst : t \in {w \in Caller : does'[w].fresh}}
    BY DEF Held
  <2> QED BY <2>1, <1>1 DEF Held
<1>6. Claims'
  BY <1>p, <1>1, <1>5 DEF Claims, Is, Tiers
<1>7. Residency'
  BY <1>p, <1>0, <1>1 DEF Residency, Is, Released, Empty, Moving, Active
<1>8. Destinations'
  <2>1. ASSUME NEW t \in Caller, t # u PROVE Private(t)'
    <3>1. does'[t] = does[t] /\ Private(t)
      BY <2>1, <1>1, <1>p DEF Destinations
    <3>2. CASE does[t].fresh /\ does[t].op \in {"enter", "copy", "free", "install", "undo"}
      <4>1. /\ does[t].dst \in owned /\ does[t].dst \notin Tiers /\ access[does[t].dst] \in {Nobody, t}
            /\ \A w \in Caller \ {t} : does[w].dst # does[t].dst /\ does[w].src # does[t].dst
        BY <3>1, <3>2 DEF Private, Is, Moving
      <4>2. access'[does[t].dst] = access[does[t].dst]
        BY <2>1, <4>1, <1>0, <1>3, <1>4
      <4> QED BY <3>1, <4>1, <4>2, <1>1 DEF Private, Tiers
    <3> QED BY <3>1, <3>2 DEF Private, Is, Moving
  <2>2. Private(u)'
    <3>1. Private(u)
      BY <1>p DEF Destinations
    <3>2. access'[does[u].dst] = u
      BY <1>0, <1>4
    <3> QED BY <3>1, <3>2, <1>1 DEF Private, Is, Tiers, Moving
  <2>3. ASSUME NEW t \in Caller PROVE Aimed(t)'
    <3>1. Aimed(t) /\ (t = u => ~Empty(does[u].dst))
      BY <1>p, <1>3 DEF Destinations
    <3>2. CASE t # u
      BY <3>1, <3>2, <1>1 DEF Aimed, Is, Tiers, Moving, Released, Empty
    <3>3. CASE t = u
      BY <3>1, <3>3, <1>1 DEF Aimed, Is, Tiers, Moving, Released, Empty
    <3> QED BY <3>2, <3>3
  <2> QED BY <2>1, <2>2, <2>3 DEF Destinations
<1>9. Accesses'
  <2>1. \A c \in Storage : access'[c] # Nobody => ~Empty(c)'
    BY <1>p, <1>3, <1>4 DEF Accesses, Empty
  <2>2. Entered(u)'
    BY <1>0, <1>1, <1>4 DEF Entered, Is
  <2>3. ASSUME NEW t \in Caller, t # u PROVE Entered(t)'
    <3>1. does'[t] = does[t] /\ Entered(t) /\ Private(t) /\ Aimed(t)
      BY <2>3, <1>1, <1>p DEF Accesses, Destinations
    <3>2. does[t].op \in {"copy", "free", "store"} => does[t].dst \in Storage /\ access'[does[t].dst] = t
      <4>1. does[t].op \in {"copy", "free", "store"} => does[t].dst \in Storage /\ access[does[t].dst] = t
        BY <3>1 DEF Entered, Is, Targets, Moving
      <4> QED BY <2>3, <4>1, <1>0, <1>4
    <3>3. does[t].op = "undo" => access'[does[t].dst] = Nobody
      <4>1. does[t].op = "undo" =>
               /\ does[t].dst \in Storage /\ access[does[t].dst] = Nobody /\ does[t].dst \notin Tiers /\ does[t].dst # does[u].dst
        BY <2>3, <3>1 DEF Entered, Private, Aimed, Is
      <4> QED BY <4>1, <1>3, <1>4
    <3> QED BY <3>1, <3>2, <3>3 DEF Entered, Is, Released
  <2> QED BY <2>1, <2>2, <2>3 DEF Accesses
<1>10. Turns'
  BY <1>p, <1>0, <1>1, <1>4 DEF Turns, Is, Released
<1>11. Values'
  BY <1>p, <1>0, <1>1 DEF Values, Is, Holds
<1> QED BY <1>6, <1>7, <1>8, <1>9, <1>10, <1>11 DEF Orderly

(* A copy that succeeds, of a tier that the transition has entered.        *)
LEMMA CopyOrderly ==
    ASSUME EvictableTypeOK, Targets, Orderly, NEW u \in Caller, does[u].op = "copy",
           life[From(u)] = "live", data[From(u)] # Nothing, life[does[u].dst] = "live", access[From(u)] = u,
           data' = [data EXCEPT ![does[u].dst] = data[From(u)]],
           does' = [does EXCEPT ![u] = [@ EXCEPT !.op = "free", !.src = From(u)]],
           UNCHANGED <<life, owned, access, tier, evicted, state, value, dropped, leaked>>
    PROVE  Orderly'
<1>p. Claims /\ Residency /\ Destinations /\ Accesses /\ Turns /\ Values
  BY DEF Orderly
<1>0. /\ does[u].dst \in Storage /\ From(u) \in Storage /\ access \in [Storage -> Caller \union {Nobody}]
      /\ does[u].to \in {"primary", "secondary"} /\ Nobody \notin Caller /\ owned \in SUBSET Storage /\ evicted \in BOOLEAN
      /\ Active' = Active /\ Active \in Tiers /\ Active \in Storage /\ data \in [Storage -> Datum \union {Nothing}]
      /\ \A t \in Caller : does[t].fresh \in BOOLEAN
  BY Parts, EvictableAssumption DEF Targets, Is, Moving, Active, Tiers
<1>1. /\ \A t \in Caller : t # u => does'[t] = does[t]
      /\ does'[u].op = "free" /\ does'[u].to = does[u].to /\ does'[u].src = From(u) /\ does'[u].dst = does[u].dst
      /\ does'[u].fresh = does[u].fresh
  <2>1. "free" \in Ops /\ does \in [Caller -> Calls]
    BY Parts DEF Ops, Transition
  <2>2. From(u) \in Storage \union {Nothing}
    BY <1>0
  <2>3. Doing(u, "free", does[u].to, From(u), does[u].dst, does[u].fresh)
    BY ONLY <2>1, <2>2, u \in Caller, does' = [does EXCEPT ![u] = [@ EXCEPT !.op = "free", !.src = From(u)]], Sources_
  <2> QED BY <2>3 DEF Doing
<1>2. /\ evicted = (does[u].to = "primary") /\ From(u) = Active
      /\ does[u].dst # Active /\ data[does[u].dst] # Nothing
      /\ ~does[u].fresh => does[u].to = "secondary" /\ does[u].dst = tier.secondary
      /\ \A t \in Caller : does[t].op # "install"
      /\ ~dropped => Holds(Active)
      /\ \A t \in Caller : does[t].op = "free" => t # u /\ does[t].dst # does[u].dst
  BY MayCopy
<1>3. \A c \in Storage : data'[c] = IF c = does[u].dst THEN data[Active] ELSE data[c]
  BY <1>0, <1>2
<1>4. \A c \in Storage : data'[c] = Nothing <=> data[c] = Nothing
  BY <1>2, <1>3
<1>5. Held' = Held
  <2>1. Held' = {does'[t].dst : t \in {w \in Caller : does'[w].fresh}}
    BY DEF Held
  <2> QED BY <2>1, <1>1 DEF Held
<1>6. Claims'
  BY <1>p, <1>1, <1>5 DEF Claims, Is, Tiers
<1>7. Residency'
  <2>1. tier.secondary \in Storage
    BY Parts
  <2> QED BY <2>1, <1>p, <1>0, <1>1, <1>4 DEF Residency, Is, Released, Empty, Moving, Active
<1>8. Destinations'
  <2>1. ASSUME NEW t \in Caller, t # u PROVE Private(t)'
    BY <2>1, <1>0, <1>1, <1>2, <1>p DEF Destinations, Private, Is, Tiers, Moving
  <2>2. Private(u)'
    BY <1>p, <1>0, <1>1 DEF Destinations, Private, Is, Tiers, Moving
  <2>3. ASSUME NEW t \in Caller PROVE Aimed(t)'
    <3>1. Aimed(t) /\ (Is(t, Moving) => does[t].dst \in Storage)
      BY <1>p DEF Destinations, Targets
    <3>2. CASE t # u
      BY <3>1, <3>2, <1>1, <1>4 DEF Aimed, Is, Tiers, Moving, Released, Empty
    <3>3. CASE t = u
      BY <3>1, <3>3, <1>0, <1>1, <1>2, <1>4 DEF Aimed, Is, Tiers, Moving, Released, Empty
    <3> QED BY <3>2, <3>3
  <2> QED BY <2>1, <2>2, <2>3 DEF Destinations
<1>9. Accesses'
  <2>1. \A c \in Storage : access'[c] # Nobody => ~Empty(c)'
    BY <1>p, <1>4 DEF Accesses, Empty
  <2>2. \A t \in Caller : Entered(t)'
    BY <1>p, <1>1 DEF Accesses, Entered, Is, Released
  <2> QED BY <2>1, <2>2 DEF Accesses
<1>10. Turns'
  <2>1. \A t \in Caller : does'[t].op # "install"
    BY <1>1, <1>2
  <2> QED BY <2>1, <1>p, <1>0, <1>1, <1>2 DEF Turns, Is, Released
<1>11. Values'
  <2>1. Holds(Active)' \/ dropped
    BY <1>0, <1>2, <1>3 DEF Holds
  <2>2. ASSUME NEW t \in Caller, does'[t].op \in {"free", "install"}, ~dropped
        PROVE  life'[does'[t].dst] = "live" /\ data'[does'[t].dst] = value'
    <3>1. CASE t = u
      BY <3>1, <2>2, <1>0, <1>1, <1>2, <1>3 DEF Holds
    <3>2. CASE t # u
      <4>1. does'[t] = does[t] /\ does[t].op = "free" /\ does[t].dst # does[u].dst /\ does[t].dst \in Storage
        BY <3>2, <2>2, <1>1, <1>2 DEF Targets, Is, Moving
      <4>2. Holds(does[t].dst)
        BY <4>1, <2>2, <1>p DEF Values, Is
      <4> QED BY <4>1, <4>2, <1>3 DEF Holds
    <3> QED BY <3>1, <3>2
  <2> QED BY <2>1, <2>2, <1>0 DEF Values, Is, Holds
<1> QED BY <1>6, <1>7, <1>8, <1>9, <1>10, <1>11 DEF Orderly

(* The source, which is the active tier, is released.                      *)
LEMMA FreeOrderly ==
    ASSUME EvictableTypeOK, Targets, Orderly, NEW u \in Caller, does[u].op = "free", Freed(u, does[u].src),
           access' = Left(u), does' = [does EXCEPT ![u] = [@ EXCEPT !.op = "install", !.src = Nothing]],
           UNCHANGED <<owned, tier, evicted, state, value, dropped, leaked>>
    PROVE  Orderly'
<1>p. Claims /\ Residency /\ Destinations /\ Accesses /\ Turns /\ Values
  BY DEF Orderly
<1>0. /\ does[u].dst \in Storage /\ access \in [Storage -> Caller \union {Nobody}]
      /\ Nobody \notin Caller /\ Nothing \notin Storage /\ owned \in SUBSET Storage /\ evicted \in BOOLEAN
      /\ Active' = Active /\ Active \in Tiers /\ Active \in Storage /\ tier.secondary \in Storage
      /\ data \in [Storage -> Datum \union {Nothing}] /\ life \in [Storage -> {"live", "released"}]
      /\ \A t \in Caller : does[t].fresh \in BOOLEAN
  BY Parts, EvictableAssumption DEF Targets, Is, Moving, Active, Tiers
<1>1. /\ \A t \in Caller : t # u => does'[t] = does[t]
      /\ does'[u].op = "install" /\ does'[u].to = does[u].to /\ does'[u].src = Nothing /\ does'[u].dst = does[u].dst
      /\ does'[u].fresh = does[u].fresh
  <2>1. "install" \in Ops /\ does \in [Caller -> Calls]
    BY Parts DEF Ops, Transition
  <2>3. Doing(u, "install", does[u].to, Nothing, does[u].dst, does[u].fresh)
    BY ONLY <2>1, u \in Caller, does' = [does EXCEPT ![u] = [@ EXCEPT !.op = "install", !.src = Nothing]], Sources_
  <2> QED BY <2>3 DEF Doing
<1>2. /\ evicted = (does[u].to = "primary") /\ does[u].src = Active /\ access[Active] = u /\ life[Active] = "live"
      /\ \A t \in Caller : does[t].op \in {"free", "install"} => t = u
  BY <1>p DEF Turns, Is, Released
<1>3. /\ \A c \in Storage : life'[c] = (IF c = Active THEN "released" ELSE life[c])
      /\ \A c \in Storage : data'[c] = (IF c = Active THEN Nothing ELSE data[c])
  BY <1>0, <1>2 DEF Freed
<1>4. /\ \A c \in Storage : access'[c] \in {access[c], Nobody}
      /\ \A c \in Storage, t \in Caller : t # u => (access'[c] = t <=> access[c] = t)
  BY <1>0 DEF Left
<1>5. Held' = Held
  <2>1. Held' = {does'[t].dst : t \in {w \in Caller : does'[w].fresh}}
    BY DEF Held
  <2> QED BY <2>1, <1>1 DEF Held
<1>6. Claims'
  BY <1>p, <1>0, <1>1, <1>3, <1>5 DEF Claims, Is, Tiers
<1>7. Residency'
  <2>1. tier.primary # tier.secondary /\ tier.primary \in Storage
    BY <1>p, Parts DEF Residency
  <2>2. ~Empty(Active)'
    BY <1>0, <1>3 DEF Empty
  <2>3. evicted => Released(tier.primary)'
    BY <1>p, <2>1, <1>3 DEF Residency, Released
  <2>4. ~evicted => \/ Released(tier.secondary)'
                    \/ \A w \in Caller : Is(w, Moving \union {"prepare"})' =>
                         /\ does'[w].to = "secondary"
                         /\ does'[w].fresh /\ Is(w, Moving)' => Empty(tier.secondary)'
    <3> SUFFICES ASSUME ~evicted, life[tier.secondary] # "released"
                 PROVE  \A w \in Caller : does'[w].op \in {"enter", "copy", "free", "install", "prepare"} =>
                         /\ does'[w].to = "secondary"
                         /\ does'[w].fresh /\ does'[w].op \in {"enter", "copy", "free", "install"} =>
                               life'[tier'.secondary] = "live" /\ data'[tier'.secondary] = Nothing
      BY <2>1, <1>0, <1>3 DEF Is, Moving, Released, Empty
    <3>1. Active # tier.secondary
      BY <2>1 DEF Active
    <3>2. \A w \in Caller : does[w].op \in {"enter", "copy", "free", "install", "prepare"} =>
                         /\ does[w].to = "secondary"
                         /\ does[w].fresh /\ does[w].op \in {"enter", "copy", "free", "install"} =>
                               life[tier.secondary] = "live" /\ data[tier.secondary] = Nothing
      BY <1>p DEF Residency, Is, Moving, Released, Empty
    <3> QED BY <3>1, <3>2, <1>0, <1>1, <1>3
  <2> QED BY <2>1, <2>2, <2>3, <2>4 DEF Residency
<1>e. \A c \in Storage : (Empty(c)' => Empty(c)) /\ (Released(c) => Released(c)') /\ (c # Active /\ Empty(c) => Empty(c)')
  BY <1>0, <1>3 DEF Empty, Released
<1>8. Destinations'
  <2>1. ASSUME NEW t \in Caller, t # u PROVE Private(t)'
    <3>1. Private(t) /\ does'[t] = does[t]
      BY <2>1, <1>p, <1>1 DEF Destinations
    <3> QED BY <2>1, <3>1, <1>0, <1>1, <1>4 DEF Private, Is, Tiers, Moving
  <2>2. Private(u)'
    <3>1. Private(u)
      BY <1>p DEF Destinations
    <3> QED BY <3>1, <1>0, <1>1, <1>4 DEF Private, Is, Tiers, Moving
  <2>3. ASSUME NEW t \in Caller PROVE Aimed(t)'
    <3>1. Aimed(t) /\ (Is(t, Moving) => does[t].dst \in Storage)
      BY <1>p DEF Destinations, Targets
    <3>2. CASE t # u
      <4>1. does'[t] = does[t] /\ (Is(t, Moving \union {"dispose"}) => does[t].dst \in Storage)
        BY <3>1, <3>2, <1>1 DEF Aimed, Is, Moving
      <4>2. Is(t, Moving) => ~Empty(does[t].dst)'
        BY <3>1, <4>1, <1>e DEF Aimed, Is, Moving
      <4>3. ~does[t].fresh /\ Is(t, Moving) => Released(does[t].dst)' \/ does[t].dst = tier[does[t].to]
        BY <3>1, <4>1, <1>e DEF Aimed, Is, Moving
      <4>4. Is(t, {"dispose"}) => does[t].dst \notin Tiers /\ (Released(does[t].dst)' \/ Empty(does[t].dst)')
        <5>1. Is(t, {"dispose"}) => does[t].dst \in Storage /\ does[t].dst # Active /\ does[t].dst \notin Tiers
          BY <3>1, <4>1, <1>0 DEF Aimed, Is
        <5> QED BY <3>1, <5>1, <1>e DEF Aimed, Is
      <4> QED BY <3>1, <4>1, <4>2, <4>3, <4>4 DEF Aimed, Is, Tiers, Moving
    <3>3. CASE t = u
      <4>1. ~Empty(does[u].dst)
        BY <3>1, <3>3 DEF Aimed, Is, Moving
      <4>2. ~Empty(does[u].dst)'
        BY <4>1, <1>0, <1>e
      <4> QED BY <3>1, <3>3, <4>2, <1>0, <1>1, <1>e DEF Aimed, Is, Tiers, Moving
    <3> QED BY <3>2, <3>3
  <2> QED BY <2>1, <2>2, <2>3 DEF Destinations
<1>9. Accesses'
  <2>1. \A c \in Storage : access'[c] # Nobody => ~Empty(c)'
    BY <1>p, <1>4, <1>e DEF Accesses
  <2>2. ASSUME NEW t \in Caller, t # u PROVE Entered(t)'
    <3>1. does'[t] = does[t] /\ Entered(t) /\ Aimed(t)
      BY <2>2, <1>1, <1>p DEF Accesses, Destinations
    <3>2. does[t].op \in {"copy", "free", "store", "undo"} => does[t].dst \in Storage
      BY <3>1 DEF Entered, Aimed, Is, Targets, Moving
    <3>3. does[t].op = "undo" => access'[does[t].dst] = Nobody
      BY <3>1, <3>2, <1>4 DEF Entered, Is
    <3>4. does[t].op \in {"copy", "free", "store"} => access'[does[t].dst] = t
      BY <2>2, <3>1, <3>2, <1>4 DEF Entered, Is
    <3>5. does[t].op = "store" => Released(does[t].dst)' \/ (does[t].dst = tier.primary /\ ~evicted)
      BY <3>1, <3>2, <1>e DEF Entered, Is
    <3> QED BY <3>1, <3>2, <3>3, <3>4, <3>5 DEF Entered, Is
  <2>3. Entered(u)'
    BY <1>1 DEF Entered, Is
  <2> QED BY <2>1, <2>2, <2>3 DEF Accesses
<1>10. Turns'
  BY <1>0, <1>1, <1>2, <1>3 DEF Turns, Is, Released
<1>11. Values'
  <2>1. ~dropped => Holds(does[u].dst)
    BY <1>p DEF Values, Is
  <2>2. does[u].dst # Active
    <3>1. Private(u) /\ Aimed(u)
      BY <1>p DEF Destinations
    <3>2. CASE does[u].fresh
      BY <3>1, <3>2, <1>0 DEF Private, Is, Moving
    <3>3. CASE ~does[u].fresh
      BY <3>1, <3>3, <1>0, <1>2, <1>p DEF Aimed, Is, Residency, Active
    <3> QED BY <3>2, <3>3
  <2>3. ~dropped => life'[does'[u].dst] = "live" /\ data'[does'[u].dst] = value'
    BY <2>1, <2>2, <1>0, <1>1, <1>3 DEF Holds
  <2>4. \A t \in Caller : does'[t].op \in {"free", "install"} => t = u
    BY <1>1, <1>2
  <2> QED BY <2>3, <2>4, <1>1 DEF Values, Is, Holds
<1> QED BY <1>6, <1>7, <1>8, <1>9, <1>10, <1>11 DEF Orderly

(* The destination becomes the tier, and the active one.                   *)
LEMMA InstallOrderly ==
    ASSUME EvictableTypeOK, Targets, Orderly, NEW u \in Caller, does[u].op = "install",
           tier' = [tier EXCEPT ![does[u].to] = does[u].dst], evicted' = (does[u].to = "secondary"),
           IF does[u].fresh THEN Disposes(u, "dispose", tier[does[u].to]) ELSE Stops(u),
           UNCHANGED <<life, data, owned, access, state, value, dropped, leaked>>
    PROVE  Orderly'
<1>p. Claims /\ Residency /\ Destinations /\ Accesses /\ Turns /\ Values
  BY DEF Orderly
<1> DEFINE old == tier[does[u].to]
<1>0. /\ does[u].dst \in Storage /\ does[u].to \in {"primary", "secondary"} /\ does[u].fresh \in BOOLEAN
      /\ Nothing \notin Storage /\ owned \in SUBSET Storage /\ evicted \in BOOLEAN
      /\ tier \in [primary : Storage, secondary : Storage] /\ old \in Storage
      /\ tier.primary \in Storage /\ tier.secondary \in Storage /\ tier.primary # tier.secondary
      /\ \A t \in Caller : does[t].fresh \in BOOLEAN /\ does[t].to \in {"primary", "secondary"}
      /\ does \in [Caller -> Calls] /\ does[u].op = "install"
  BY <1>p, Parts, EvictableAssumption DEF Targets, Is, Moving, Residency
<1>1. /\ tier' = [tier EXCEPT ![does[u].to] = does[u].dst] /\ evicted' = (does[u].to = "secondary")
      /\ UNCHANGED <<life, data, owned, access, state, value, dropped, leaked>>
  OBVIOUS
<1>2. /\ evicted = (does[u].to = "primary") /\ life[Active] = "released"
      /\ \A t \in Caller : does[t].op \in {"free", "install"} => t = u
  BY <1>0, <1>p DEF Turns, Is, Released
<1>3. /\ does[u].to = "primary" => tier'.primary = does[u].dst /\ tier'.secondary = tier.secondary /\ old = tier.primary
                                   /\ Active = tier.secondary
      /\ does[u].to = "secondary" => tier'.secondary = does[u].dst /\ tier'.primary = tier.primary /\ old = tier.secondary
                                   /\ Active = tier.primary
      /\ Active' = does[u].dst
  BY <1>0, <1>1, <1>2 DEF Active
<1>4. Private(u) /\ Aimed(u)
  BY <1>p DEF Destinations
<1>5. ~Empty(does[u].dst)
  BY <1>0, <1>4 DEF Aimed, Is, Moving
<1>6. does[u].fresh => /\ does[u].dst \in owned /\ does[u].dst # tier.primary /\ does[u].dst # tier.secondary
                       /\ \A t \in Caller \ {u} : does[t].dst # does[u].dst /\ does[t].src # does[u].dst
  BY <1>0, <1>4 DEF Private, Is, Moving, Tiers
<1>7. ~does[u].fresh => does[u].to = "secondary" /\ does[u].dst = tier.secondary
  BY <1>0, <1>4 DEF Aimed, Is
<1>8. does[u].fresh => life[old] = "released" \/ Empty(old)
  <2>1. CASE does[u].to = "primary"
    BY <2>1, <1>2, <1>3, <1>p DEF Residency, Released
  <2>2. CASE does[u].to = "secondary"
    BY <2>2, <1>0, <1>2, <1>3, <1>p DEF Residency, Released, Is, Moving
  <2> QED BY <1>0, <2>1, <2>2
<1>9. /\ \A t \in Caller : t # u => does'[t] = does[t]
      /\ does'[u].src = Nothing
      /\ \/ /\ does[u].fresh /\ does'[u].op = "dispose" /\ does'[u].dst = old /\ does'[u].fresh
         \/ /\ ~does[u].fresh /\ does'[u].op = "rest" /\ does'[u].dst = Nothing /\ ~does'[u].fresh
  <2>1. CASE does[u].fresh
    <3>1. Disposes(u, "dispose", old) /\ "dispose" \in Ops /\ old \in Storage \union {Nothing}
      BY <2>1, <1>0 DEF Ops, Transition
    <3>2. Doing(u, "dispose", "primary", Nothing, old, TRUE)
      BY <3>1, <1>0, Disposes_
    <3> QED BY <2>1, <3>2 DEF Doing
  <2>2. CASE ~does[u].fresh
    <3>1. Stops(u)
      BY <2>2
    <3>2. Doing(u, "rest", "primary", Nothing, Nothing, FALSE)
      BY <3>1, <1>0, Stops_
    <3> QED BY <2>2, <3>2 DEF Doing
  <2> QED BY <2>1, <2>2
<1> HIDE DEF old
<1>t. \A c : c \in Tiers' <=> (c \in Tiers /\ c # old) \/ c = does[u].dst
  BY <1>0, <1>3, <1>6, <1>7 DEF Tiers
<1>n. ~does[u].fresh => tier' = tier
  BY <1>0, <1>1, <1>7
<1>10. Claims'
  <2>1. state \in {"live", "released"} /\ Tiers \subseteq owned
    BY <1>0, <1>p DEF Claims, Is
  <2>2. Tiers' \subseteq owned
    BY <2>1, <1>t, <1>6, <1>n DEF Tiers
  <2>3. ASSUME NEW c \in owned \ leaked, life[c] = "live"
        PROVE  c \in Held' \/ c \in Tiers'
    <3>1. c \in Held \/ c \in Tiers
      BY <2>3, <1>p DEF Claims
    <3>2. CASE c = old /\ does[u].fresh
      <4>1. does'[u].dst = c /\ does'[u].fresh
        BY <3>2, <1>9
      <4> QED BY <4>1 DEF Held
    <3>3. CASE c \in Tiers /\ ~(c = old /\ does[u].fresh)
      BY <3>3, <1>t, <1>n DEF Tiers
    <3>4. CASE c \in Held /\ c # does[u].dst
      <4>1. PICK t \in Caller : does[t].fresh /\ c = does[t].dst
        BY <3>4 DEF Held
      <4>2. does'[t].fresh /\ c = does'[t].dst
        BY <3>4, <4>1, <1>9
      <4> QED BY <4>2 DEF Held
    <3>5. CASE c = does[u].dst
      BY <3>5, <1>t
    <3> QED BY <3>1, <3>2, <3>3, <3>4, <3>5
  <2> QED BY <2>1, <2>2, <2>3, <1>1 DEF Claims
<1>11. Residency'
  <2>1. (tier.primary # tier.secondary)'
    BY <1>0, <1>3, <1>6, <1>7
  <2>2. evicted' => life'[tier'.primary] = "released"
    BY <1>0, <1>1, <1>2, <1>3
  <2>3. ~evicted' => life'[tier'.secondary] = "released"
    BY <1>0, <1>1, <1>2, <1>3
  <2>4. ~Empty(Active)'
    BY <1>1, <1>3, <1>5 DEF Empty
  <2> QED BY <2>1, <2>2, <2>3, <2>4 DEF Residency, Released
<1>12. Destinations'
  <2>1. ASSUME NEW t \in Caller, t # u PROVE Private(t)'
    <3>1. Private(t) /\ does'[t] = does[t]
      BY <2>1, <1>p, <1>9 DEF Destinations
    <3>2. CASE does[t].fresh /\ does[t].op \in {"enter", "copy", "free", "install", "undo"}
      <4>1. /\ does[t].dst \in owned /\ does[t].dst \notin Tiers /\ access[does[t].dst] \in {Nobody, t}
            /\ \A w \in Caller \ {t} : does[w].dst # does[t].dst /\ does[w].src # does[t].dst
        BY <3>1, <3>2 DEF Private, Is, Moving
      <4>2. does[t].dst \notin Tiers'
        BY <2>1, <4>1, <1>t
      <4>3. does'[u].dst # does[t].dst /\ does'[u].src # does[t].dst
        BY <4>1, <1>0, <1>9 DEF Tiers, old
      <4> QED BY <3>1, <4>1, <4>2, <4>3, <1>1, <1>9 DEF Private
    <3> QED BY <3>1, <3>2 DEF Private, Is, Moving
  <2>2. Private(u)'
    BY <1>9 DEF Private, Is, Moving
  <2>3. ASSUME NEW t \in Caller, t # u PROVE Aimed(t)'
    <3>1. Aimed(t) /\ does'[t] = does[t] /\ does[t].op \notin {"free", "install"}
      BY <2>3, <1>p, <1>2, <1>9 DEF Destinations
    <3>2. does[t].op \in {"enter", "copy"} => does[t].dst \in Storage /\ ~Empty(does[t].dst)
      BY <3>1 DEF Aimed, Is, Moving, Targets
    <3>3. ~does[t].fresh /\ does[t].op \in {"enter", "copy"} => life[does[t].dst] = "released" \/ does[t].dst = tier'[does[t].to]
      <4> SUFFICES ASSUME ~does[t].fresh, does[t].op \in {"enter", "copy"}, does[t].dst = tier[does[t].to], life[does[t].dst] # "released"
                   PROVE  does[t].dst = tier'[does[t].to]
        BY <3>1 DEF Aimed, Is, Moving, Released
      <4>1. CASE does[t].to # does[u].to
        BY <4>1, <1>0, <1>1
      <4>2. CASE does[t].to = does[u].to
        <5>1. does[t].dst = old /\ ~Empty(old)
          BY <4>2, <3>2 DEF old
        <5>2. ~does[u].fresh
          BY <5>1, <1>8
        <5> QED BY <5>2, <1>n
      <4> QED BY <4>1, <4>2
    <3>4. does[t].op = "dispose" => does[t].dst \notin Tiers'
      <4>1. does[t].op = "dispose" => does[t].dst \notin Tiers
        BY <3>1 DEF Aimed, Is
      <4>2. CASE does[u].fresh
        BY <2>3, <4>1, <4>2, <1>t, <1>6
      <4>3. CASE ~does[u].fresh
        BY <4>1, <4>3, <1>n DEF Tiers
      <4> QED BY <1>0, <4>2, <4>3
    <3> QED BY <3>1, <3>2, <3>3, <3>4, <1>1 DEF Aimed, Is, Moving, Released, Empty
  <2>4. Aimed(u)'
    <3>1. CASE ~does[u].fresh
      BY <3>1, <1>9 DEF Aimed, Is, Moving
    <3>2. CASE does[u].fresh
      <4>1. old \notin Tiers'
        BY <3>2, <1>0, <1>6, <1>t DEF Tiers, old
      <4> QED BY <3>2, <4>1, <1>0, <1>1, <1>8, <1>9 DEF Aimed, Is, Moving, Released, Empty
    <3> QED BY <3>1, <3>2
  <2> QED BY <2>1, <2>2, <2>3, <2>4 DEF Destinations
<1>13. Accesses'
  <2>1. \A c \in Storage : access'[c] # Nobody => ~Empty(c)'
    BY <1>p, <1>1 DEF Accesses, Empty
  <2>2. ASSUME NEW t \in Caller, t # u PROVE Entered(t)'
    <3>1. does'[t] = does[t] /\ Entered(t)
      BY <2>2, <1>9, <1>p DEF Accesses
    <3>2. does[t].op = "store" => life[does[t].dst] = "released"
      BY <3>1, <1>0, <1>2, <1>3 DEF Entered, Is, Released
    <3> QED BY <3>1, <3>2, <1>1 DEF Entered, Is, Released
  <2>3. Entered(u)'
    BY <1>9 DEF Entered, Is
  <2> QED BY <2>1, <2>2, <2>3 DEF Accesses
<1>14. \A t \in Caller : does'[t].op \notin {"free", "install"}
  BY <1>2, <1>9
<1>15. Turns'
  BY <1>14 DEF Turns, Is
<1>16. Values'
  BY <1>14, <1>0, <1>1, <1>3, <1>p DEF Values, Is, Holds
<1> QED BY <1>10, <1>11, <1>12, <1>13, <1>15, <1>16 DEF Orderly

(* A thread that has no carrier to dispose of stops, and nothing else      *)
(* happens but that it leaves what it had entered.                         *)
LEMMA StopsOrderly ==
    ASSUME EvictableTypeOK, Targets, Orderly, NEW u \in Caller, Stops(u), does[u].op \in {"prepare", "write", "store"} \union Releasing,
           access' \in {access, Left(u)}, UNCHANGED <<life, data, owned, tier, evicted, value, dropped, leaked>>,
           UNCHANGED state \/ (state \in {"live", "released"} /\ state' = "released")
    PROVE  Orderly'
<1>1. Doing(u, "rest", "primary", Nothing, Nothing, FALSE)
  BY Parts, Stops_
<1>2. ~does[u].fresh /\ does[u].op \notin {"install", "free"}
  <2>1. does[u].fresh => does[u].op \in Moving \union {"dispose", "undo"}
    BY DEF Orderly, Destinations, Aimed, Is
  <2> QED BY <2>1 DEF Moving, Releasing
<1>3. Leaves(u)
  BY <1>1, <1>2 DEF Leaves, Doing
<1>4. Values'
  <2>1. \A t \in Caller : does'[t].op \in {"free", "install"} <=> does[t].op \in {"free", "install"}
    BY <1>1, <1>2 DEF Doing
  <2>2. \A t \in Caller : does'[t].op \in {"free", "install"} => does'[t] = does[t]
    BY <1>1 DEF Doing
  <2>3. \A t \in Caller : does[t].op = "install" => does'[t].op = "install"
    BY <1>1, <1>2 DEF Doing
  <2> QED BY <2>1, <2>2, <2>3 DEF Orderly, Values, Is, Holds, Active
<1> QED BY <1>3, <1>4, LeavesOrderly

(* A thread that has nothing in hand starts to write or to release, or     *)
(* goes on with its release.                                               *)
LEMMA StartsOrderly ==
    ASSUME EvictableTypeOK, Targets, Orderly, NEW u \in Caller, does[u].op \in {"rest"} \union Releasing,
           NEW op \in {"write"} \union Releasing, NEW to, NEW src \in {Nothing, does[u].src},
           NEW dst \in {Nothing, tier.primary, does[u].dst}, Doing(u, op, to, src, dst, FALSE),
           state \in {"live", "released"}, UNCHANGED <<life, data, owned, access, tier, evicted, value, dropped, state, leaked>>
    PROVE  Orderly'
<1>1. ~does[u].fresh /\ does[u].op \notin {"install", "free"} /\ op \notin {"install", "free", "undo"}
  <2>1. does[u].fresh => does[u].op \in Moving \union {"dispose", "undo"}
    BY DEF Orderly, Destinations, Aimed, Is
  <2> QED BY <2>1 DEF Moving, Releasing
<1>3. Leaves(u)
  BY <1>1 DEF Leaves, Doing
<1>4. Values'
  <2>2. \A t \in Caller : does'[t].op \in {"free", "install"} => does'[t] = does[t]
    BY <1>1 DEF Doing
  <2>3. \A t \in Caller : does[t].op = "install" => does'[t].op = "install"
    BY <1>1 DEF Doing
  <2> QED BY <2>2, <2>3 DEF Orderly, Values, Is, Holds, Active
<1> QED BY <1>3, <1>4, LeavesOrderly

(* Writing: the carrier that is entered is the active tier, or released.   *)
LEMMA StoreOrderly ==
    ASSUME EvictableTypeOK, Targets, Orderly, NEW u \in Caller, Store(u)
    PROVE  Orderly'
<1> DEFINE c == does[u].dst
<1>1. /\ does[u].op = "store" /\ Stops(u) /\ access' = Left(u)
      /\ UNCHANGED <<life, owned, tier, evicted, state, dropped, leaked>>
  BY DEF Store
<1>2. CASE UNCHANGED <<data, value>>
  BY <1>1, <1>2, StopsOrderly
<1>3. ASSUME life[c] = "live", data[c] # Nothing, NEW v \in Datum, data' = [data EXCEPT ![c] = v], value' = v
      PROVE  Orderly'
  <2>1. c = tier.primary /\ ~evicted /\ access[c] = u
    BY <1>1, <1>3 DEF Orderly, Accesses, Entered, Is, Released
  <2>2. c = Active /\ Active' = c /\ c \in Storage /\ data \in [Storage -> Datum \union {Nothing}] /\ Nothing \notin Datum
    BY <2>1, <1>1, Parts, EvictableAssumption DEF Active
  <2>3. \A t \in Caller : does[t].op \notin {"free", "install"}
    BY <2>1, <2>2, <1>1, <1>3 DEF Orderly, Turns, Is, Released
  <2>4. Doing(u, "rest", "primary", Nothing, Nothing, FALSE)
    BY <1>1, Parts, Stops_
  <2>5. Values'
    <3>1. \A t \in Caller : does'[t].op \notin {"free", "install"}
      BY <2>3, <2>4 DEF Doing
    <3>2. life'[c] = "live" /\ data'[c] = value'
      BY <1>1, <1>3, <2>2
    <3> QED BY <3>1, <3>2, <2>2 DEF Values, Is, Holds
  <2>6. ~does[u].fresh
    BY <1>1 DEF Orderly, Destinations, Aimed, Is, Moving
  <2>7. \A x \in Storage : data'[x] = Nothing <=> data[x] = Nothing
    BY <1>3, <2>2
  <2>8. Leaves(u)
    BY <2>4, <2>6, <2>7, <1>1 DEF Leaves, Doing
  <2> QED BY <2>5, <2>8, LeavesOrderly
<1> QED BY <1>2, <1>3 DEF Store

(* A release goes on, after it has released a tier or found it released.   *)
LEMMA DropOrderly ==
    ASSUME EvictableTypeOK, Targets, Orderly, NEW u \in Caller, does[u].op \in {"dropPrimary", "dropSecondary"},
           NEW t \in {"primary", "secondary"}, NEW next \in {"dropSecondary", "mark"}, DropTier(u, t, next),
           UNCHANGED <<owned, access, tier, evicted, state, value, leaked>>
    PROVE  Orderly'
<1>0. does[u].op \in Releasing /\ next \in Releasing /\ next \in Ops /\ does \in [Caller -> Calls]
  BY Parts DEF Ops, Releasing
<1>1. ~does[u].fresh
  BY Parts DEF Orderly, Destinations, Aimed, Is, Moving
<1>2. state \in {"live", "released"}
  BY DEF Orderly, Claims, Is
<1>3. CASE UNCHANGED <<life, data, dropped>> /\ Goes(u, next)
  <2>1. Doing(u, next, does[u].to, does[u].src, does[u].dst, FALSE)
    BY <1>0, <1>1, <1>3, Goes_ DEF Doing
  <2> QED BY <2>1, <1>0, <1>2, <1>3, StartsOrderly
<1>4. CASE UNCHANGED <<life, data, dropped>> /\ Stops(u)
  BY <1>0, <1>4, StopsOrderly
<1>5. CASE /\ Enterable(u, tier[t]) /\ Goes(u, next) /\ dropped' = TRUE
           /\ life' = [life EXCEPT ![tier[t]] = "released"] /\ data' = [data EXCEPT ![tier[t]] = Nothing]
  <2>1. Doing(u, next, does[u].to, does[u].src, does[u].dst, FALSE)
    BY <1>0, <1>1, <1>5, Goes_ DEF Doing
  <2>2. /\ life \in [Storage -> {"live", "released"}] /\ data \in [Storage -> Datum \union {Nothing}] /\ tier[t] \in Storage
        /\ access[tier[t]] \in {Nobody, u}
    BY <1>5, Parts DEF Enterable
  <2>3. \A c \in Storage : \/ life'[c] = life[c] /\ (data'[c] = Nothing <=> data[c] = Nothing)
                           \/ life'[c] = "released" /\ access[c] \in {Nobody, u}
    BY <2>2, <1>5
  <2>4. Leaves(u)
    BY <2>1, <2>3, <1>0, <1>1, <1>2 DEF Leaves, Doing
  <2>5. Values'
    BY <1>5 DEF Values
  <2> QED BY <2>4, <2>5, LeavesOrderly
<1> QED BY <1>3, <1>4, <1>5 DEF DropTier

(* What is disposed of is no tier, and is given up or was released.        *)
LEMMA DisposeOrderly ==
    ASSUME EvictableTypeOK, Targets, Orderly, NEW u \in Caller, Dispose(u)
    PROVE  Orderly'
<1> DEFINE c == does[u].dst
<1>p. Claims /\ Residency /\ Destinations /\ Accesses /\ Turns /\ Values
  BY DEF Orderly
<1>1. /\ does[u].op \in {"dispose", "undo"} /\ Stops(u)
      /\ owned' = IF access[c] = Nobody THEN owned \ {c} ELSE owned
      /\ UNCHANGED <<access, tier, evicted, state, value, dropped, leaked>>
      /\ \/ /\ life[c] = "live" /\ Enterable(u, c)
            /\ life' = [life EXCEPT ![c] = "released"]
            /\ data' = [data EXCEPT ![c] = Nothing]
         \/ UNCHANGED <<life, data>>
  BY DEF Dispose, hierarchyVars
<1>2. Aimed(u) /\ Private(u) /\ Entered(u)
  BY <1>p DEF Destinations, Accesses
<1>3. c \in Storage /\ does[u].fresh /\ c \notin Tiers
  BY <1>1, <1>2 DEF Aimed, Private, Is
<1>4. c \notin owned' \/ life'[c] = "released"
  <2>1. CASE does[u].op = "undo"
    BY <2>1, <1>1, <1>2 DEF Entered, Is
  <2>2. CASE does[u].op = "dispose" /\ access[c] # Nobody
    <3>1. life[c] = "released"
      BY <2>2, <1>2, <1>3, <1>p DEF Aimed, Is, Accesses, Released
    <3> QED BY <3>1, <1>1
  <2> QED BY <2>1, <2>2, <1>1
<1>5. Doing(u, "rest", "primary", Nothing, Nothing, FALSE)
  BY <1>1, Parts, Stops_
<1>6. /\ life \in [Storage -> {"live", "released"}] /\ data \in [Storage -> Datum \union {Nothing}]
      /\ Active \in Tiers /\ Active' = Active /\ Active \in Storage
  BY <1>1, Parts DEF Active, Tiers
<1>7. /\ \A x \in Storage : \/ life'[x] = life[x] /\ (data'[x] = Nothing <=> data[x] = Nothing)
                            \/ life'[x] = "released" /\ access[x] \in {Nobody, u}
      /\ \A x \in Storage : x # c => life'[x] = life[x] /\ data'[x] = data[x]
  BY <1>1, <1>3, <1>6 DEF Enterable
<1>8. state \in {"live", "released"}
  BY <1>1, <1>p DEF Claims, Is
<1>9. Leaves(u)
  BY <1>1, <1>3, <1>4, <1>5, <1>7, <1>8 DEF Leaves, Doing
<1>10. Values'
  <2>1. \A t \in Caller : does'[t].op \in {"free", "install"} => t # u /\ does'[t] = does[t]
    BY <1>5 DEF Doing
  <2>2. \A t \in Caller : does[t].op = "install" => does'[t].op = "install"
    BY <1>1, <1>5 DEF Doing
  <2>3. \A t \in Caller : t # u /\ does[t].op \in {"free", "install"} /\ ~dropped => does[t].dst \in Storage /\ Holds(does[t].dst)
    BY <1>p DEF Targets, Is, Moving, Values
  <2>4. ASSUME NEW t \in Caller, t # u, does[t].op \in {"free", "install"}, ~dropped
        PROVE  life'[does[t].dst] = "live" /\ data'[does[t].dst] = value
    <3>1. CASE does[t].dst # c
      BY <3>1, <2>3, <2>4, <1>7 DEF Holds
    <3>2. CASE does[t].dst = c
      <4>1. does[u].op = "dispose"
        BY <3>2, <2>4, <1>1, <1>2, <1>3 DEF Private, Is
      <4>2. life[c] = "live" => data[c] = Nothing
        BY <4>1, <1>2 DEF Aimed, Is, Released, Empty
      <4> QED BY <3>2, <4>2, <2>3, <2>4, Parts, EvictableAssumption DEF Holds
    <3> QED BY <3>1, <3>2
  <2>5. ~dropped /\ Holds(Active) => life'[Active] = "live" /\ data'[Active] = value
    BY <1>3, <1>6, <1>7 DEF Holds
  <2> QED BY <2>1, <2>2, <2>4, <2>5, <1>1, <1>6, <1>p DEF Values, Is, Holds
<1> QED BY <1>9, <1>10, LeavesOrderly

(* A thread begins a transition, finds its destination or enters the       *)
(* primary to write.                                                       *)
Takes(u) ==
    /\ \A t \in Caller : t # u =>
          /\ does'[t].op = does[t].op /\ does'[t].to = does[t].to /\ does'[t].src = does[t].src
          /\ does'[t].dst = does[t].dst /\ does'[t].fresh = does[t].fresh
    /\ UNCHANGED <<life, data, owned, tier, evicted, state, value, dropped, leaked>>
    /\ state \in {"live", "released"}
    /\ does[u].op \in {"rest", "prepare", "write"} /\ does'[u].src \in {Nothing, does[u].src} /\ ~does'[u].fresh
    /\ \/ does'[u].op = "prepare" /\ evicted = (does'[u].to = "primary") /\ does'[u].dst = Nothing /\ UNCHANGED access
       \/ /\ does'[u].op = "enter" /\ does[u].op = "prepare" /\ does'[u].to = does[u].to /\ UNCHANGED access
          /\ does'[u].dst = tier[does[u].to] /\ ~Empty(does'[u].dst)
       \/ /\ does'[u].op = "store" /\ does'[u].dst = tier.primary
          /\ access[tier.primary] \in {Nobody, u} /\ access' = [access EXCEPT ![tier.primary] = u]

LEMMA TakesOrderly ==
    ASSUME EvictableTypeOK, Targets, Orderly, NEW u \in Caller, Takes(u), does'[u].to \in {"primary", "secondary"}
    PROVE  Orderly'
<1>p. Claims /\ Residency /\ Destinations /\ Accesses /\ Turns /\ Values
  BY DEF Orderly
<1>0. /\ tier.primary \in Storage /\ tier.secondary \in Storage /\ access \in [Storage -> Caller \union {Nobody}]
      /\ \A t \in Caller : does[t].dst \in Storage \union {Nothing} /\ does[t].src \in Storage \union {Nothing}
      /\ Active \in Storage /\ Active' = Active /\ owned \subseteq Storage /\ Nobody \notin Caller /\ Nothing \notin Storage
      /\ Active \in Tiers /\ evicted \in BOOLEAN
  BY Parts, EvictableAssumption DEF Active, Takes, Tiers
<1>1. /\ \A t \in Caller : t # u =>
          /\ does'[t].op = does[t].op /\ does'[t].to = does[t].to /\ does'[t].src = does[t].src
          /\ does'[t].dst = does[t].dst /\ does'[t].fresh = does[t].fresh
      /\ UNCHANGED <<life, data, owned, tier, evicted, state, value, dropped, leaked>>
      /\ does[u].op \in {"rest", "prepare", "write"} /\ does'[u].op \in {"prepare", "enter", "store"}
      /\ ~does[u].fresh /\ ~does'[u].fresh
      /\ does'[u].dst \in {Nothing} \union Tiers /\ does'[u].src \in {Nothing, does[u].src}
  <2>1. does[u].fresh => does[u].op \in Moving \union {"dispose", "undo"}
    BY <1>p DEF Destinations, Aimed, Is
  <2>2. tier[does[u].to] \in Tiers
    BY Parts DEF Tiers
  <2> QED BY <2>1, <2>2 DEF Takes, Moving, Tiers
<1>2. Held' = Held
  <2>1. Held' = {does'[t].dst : t \in {w \in Caller : does'[w].fresh}}
    BY DEF Held
  <2> QED BY <2>1, <1>1 DEF Held
<1>3. Claims'
  BY <1>p, <1>1, <1>2 DEF Claims, Is, Tiers, Takes
<1>4. Residency'
  <2>1. ~evicted /\ life[tier.secondary] # "released" /\ does'[u].op \in {"enter", "prepare"} => does'[u].to = "secondary"
    BY <1>p DEF Residency, Takes, Is, Released
  <2> QED BY <2>1, <1>p, <1>0, <1>1 DEF Residency, Is, Released, Empty, Moving
<1>5. ~Empty(tier.primary)
  BY <1>p DEF Residency, Active, Empty, Released
<1>6. /\ \A c \in Storage : access'[c] = access[c] \/ (c = tier.primary /\ access[c] \in {Nobody, u} /\ access'[c] = u)
      /\ \A c \in Storage, t \in Caller : t # u => (access'[c] = t <=> access[c] = t)
  BY <1>0 DEF Takes
<1>7. Destinations'
  <2>1. ASSUME NEW t \in Caller, t # u PROVE Private(t)'
    <3>1. Private(t)
      BY <1>p DEF Destinations
    <3>2. CASE does[t].fresh /\ does[t].op \in {"enter", "copy", "free", "install", "undo"}
      <4>1. /\ does[t].dst \in owned /\ does[t].dst \notin Tiers /\ access[does[t].dst] \in {Nobody, t}
            /\ \A w \in Caller \ {t} : does[w].dst # does[t].dst /\ does[w].src # does[t].dst
        BY <3>1, <3>2 DEF Private, Is, Moving
      <4>2. does'[u].dst # does[t].dst /\ does'[u].src # does[t].dst
        BY <2>1, <4>1, <1>0, <1>1
      <4>3. access'[does[t].dst] \in {Nobody, t}
        BY <4>1, <1>0, <1>6 DEF Tiers
      <4> QED BY <2>1, <4>1, <4>2, <4>3, <1>1 DEF Private, Tiers
    <3> QED BY <2>1, <3>1, <3>2, <1>1 DEF Private, Is, Moving
  <2>2. ASSUME NEW t \in Caller, t # u PROVE Aimed(t)'
    <3>1. Aimed(t)
      BY <1>p DEF Destinations
    <3> QED BY <2>2, <3>1, <1>1 DEF Aimed, Is, Tiers, Released, Moving, Empty
  <2>3. Private(u)'
    BY <1>1 DEF Private
  <2>4. Aimed(u)'
    <3>1. does'[u].op = "enter" => does'[u].dst = tier[does'[u].to] /\ ~Empty(does'[u].dst)
      BY DEF Takes
    <3> QED BY <3>1, <1>1 DEF Aimed, Is, Empty, Released, Moving
  <2> QED BY <2>1, <2>2, <2>3, <2>4 DEF Destinations
<1>8. Accesses'
  <2>1. ASSUME NEW t \in Caller, t # u PROVE Entered(t)'
    <3>1. Entered(t) /\ Private(t) /\ Aimed(t)
      BY <1>p DEF Accesses, Destinations
    <3>2. does[t].op \in {"copy", "free", "store"} => does[t].dst \in Storage /\ access'[does[t].dst] = t
      <4>1. does[t].op \in {"copy", "free", "store"} => does[t].dst \in Storage
        BY <3>1 DEF Entered, Is, Targets, Moving
      <4> QED BY <2>1, <3>1, <4>1, <1>6 DEF Entered, Is
    <3>3. does[t].op = "undo" => access'[does[t].dst] = Nobody
      <4>1. does[t].op = "undo" => does[t].dst \in Storage /\ access[does[t].dst] = Nobody /\ does[t].dst \notin Tiers
        BY <3>1 DEF Entered, Private, Aimed, Is
      <4> QED BY <4>1, <1>6 DEF Tiers
    <3> QED BY <2>1, <3>1, <3>2, <3>3, <1>1 DEF Entered, Is, Released
  <2>2. Entered(u)'
    <3>1. does'[u].op = "store" => does'[u].dst = tier.primary /\ access'[tier.primary] = u
      BY <1>0 DEF Takes
    <3>2. Released(tier.primary) \/ ~evicted
      BY <1>p DEF Residency
    <3> QED BY <3>1, <3>2, <1>0, <1>1 DEF Entered, Is, Released
  <2>3. \A c \in Storage : access'[c] # Nobody => ~Empty(c)'
    BY <1>p, <1>1, <1>5, <1>6 DEF Accesses, Empty
  <2> QED BY <2>1, <2>2, <2>3 DEF Accesses
<1>9. \A t \in Caller : does'[t].op \in {"free", "install"} => t # u
  BY <1>1
<1>10. Turns'
  <2>1. ASSUME NEW t \in Caller, does'[t].op = "free"
        PROVE  evicted = (does'[t].to = "primary") /\ does'[t].src = Active /\ access'[Active] = t /\ life[Active] = "live"
    <3>1. t # u /\ does[t].op = "free"
      BY <2>1, <1>1, <1>9
    <3> QED BY <3>1, <1>p, <1>0, <1>1, <1>6 DEF Turns, Is
  <2>2. ASSUME NEW t \in Caller, does'[t].op = "install"
        PROVE  evicted = (does'[t].to = "primary") /\ Released(Active) /\ \A w \in Caller : does'[w].op = "install" => w = t
    <3>1. t # u /\ does[t].op = "install"
      BY <2>2, <1>1, <1>9
    <3> QED BY <3>1, <1>p, <1>1, <1>9 DEF Turns, Is
  <2> QED BY <2>1, <2>2, <1>0, <1>1 DEF Turns, Is, Released
<1>11. Values'
  <2>1. \A t \in Caller : does'[t].op = "install" <=> does[t].op = "install"
    BY <1>1
  <2>2. \A t \in Caller : does'[t].op \in {"free", "install"} => does[t].op \in {"free", "install"} /\ does'[t].dst = does[t].dst
    BY <1>1
  <2> QED BY <2>1, <2>2, <1>p, <1>0, <1>1 DEF Values, Is, Holds
<1> QED BY <1>3, <1>4, <1>7, <1>8, <1>10, <1>11 DEF Orderly

(* A fresh destination, which nothing refers to.                           *)
LEMMA AllocatesOrderly ==
    ASSUME EvictableTypeOK, Targets, Orderly, NEW u \in Caller, does[u].op = "prepare",
           ~(life[tier[does[u].to]] = "live" /\ data[tier[does[u].to]] # Nothing),
           NEW c \in Storage, Forgotten(c), NEW v \in Datum,
           life' = [life EXCEPT ![c] = "live"], data' = [data EXCEPT ![c] = v], owned' = owned \union {c},
           does' = [does EXCEPT ![u] = [@ EXCEPT !.op = "enter", !.dst = c, !.fresh = TRUE]],
           UNCHANGED <<access, tier, evicted, state, value, dropped, leaked>>
    PROVE  Orderly'
<1>p. Claims /\ Residency /\ Destinations /\ Accesses /\ Turns /\ Values
  BY DEF Orderly
<1>0. /\ tier.primary \in Storage /\ tier.secondary \in Storage /\ life \in [Storage -> {"live", "released"}]
      /\ data \in [Storage -> Datum \union {Nothing}]
      /\ \A t \in Caller : does[t].dst \in Storage \union {Nothing} /\ does[t].src \in Storage \union {Nothing}
      /\ Active \in Storage /\ Active' = Active /\ owned \subseteq Storage /\ Nobody \notin Caller /\ Nothing \notin Storage
      /\ Active \in Tiers /\ evicted \in BOOLEAN /\ Nothing \notin Datum /\ does[u].to \in {"primary", "secondary"}
  BY Parts, EvictableAssumption DEF Active, Tiers
<1>1. /\ does'[u].op = "enter" /\ does'[u].to = does[u].to /\ does'[u].src = does[u].src /\ does'[u].dst = c /\ does'[u].fresh = TRUE
      /\ \A t \in Caller : t # u => does'[t] = does[t]
      /\ ~does[u].fresh
  <2>1. Doing(u, "enter", does[u].to, does[u].src, c, TRUE)
    BY Parts, EntersFresh
  <2>2. does[u].fresh => does[u].op \in Moving \union {"dispose", "undo"}
    BY <1>p DEF Destinations, Aimed, Is
  <2> QED BY <2>1, <2>2, Parts DEF Doing, Moving
<1>2. /\ c \notin Tiers /\ access[c] = Nobody /\ \A t \in Caller : does[t].src # c /\ does[t].dst # c
      /\ c # Active
  BY <1>0 DEF Forgotten, Tiers
<1>3. /\ \A x \in Storage : x # c => life'[x] = life[x] /\ data'[x] = data[x]
      /\ life'[c] = "live" /\ data'[c] # Nothing
  BY <1>0
<1>4. Claims'
  <2>1. state \in {"live", "released"}
    BY <1>p DEF Claims, Is
  <2>2. \A x \in Held \union {c} : x \in Held'
    <3>1. Held' = {does'[t].dst : t \in {w \in Caller : does'[w].fresh}}
      BY DEF Held
    <3> QED BY <3>1, <1>1 DEF Held
  <2>3. \A x \in owned' \ leaked' : life'[x] = "live" => x \in Held' \/ (x \in Tiers /\ state \notin {"refused", "gone"})
    BY <2>2, <1>p, <1>0, <1>3 DEF Claims
  <2>4. Tiers \subseteq owned'
    BY <2>1, <1>p DEF Claims
  <2> QED BY <2>1, <2>3, <2>4 DEF Claims, Tiers
<1>5. Residency'
  <2>1. /\ life'[tier.primary] = life[tier.primary] /\ life'[tier.secondary] = life[tier.secondary]
        /\ data'[tier.primary] = data[tier.primary] /\ data'[tier.secondary] = data[tier.secondary]
    BY <1>0, <1>2, <1>3 DEF Tiers
  <2>2. ~evicted /\ life[tier.secondary] # "released" => does[u].to = "secondary" /\ Empty(tier.secondary)
    BY <1>p, <1>0 DEF Residency, Is, Released, Empty
  <2>3. ~evicted => \/ life'[tier.secondary] = "released"
                    \/ \A w \in Caller : does'[w].op \in {"enter", "copy", "free", "install", "prepare"} =>
                         /\ does'[w].to = "secondary"
                         /\ does'[w].fresh /\ does'[w].op \in {"enter", "copy", "free", "install"} =>
                               life'[tier.secondary] = "live" /\ data'[tier.secondary] = Nothing
    <3> SUFFICES ASSUME ~evicted, life'[tier.secondary] # "released",
                        NEW w \in Caller, does'[w].op \in {"enter", "copy", "free", "install", "prepare"}
                 PROVE  /\ does'[w].to = "secondary"
                        /\ does'[w].fresh /\ does'[w].op \in {"enter", "copy", "free", "install"} =>
                               life'[tier.secondary] = "live" /\ data'[tier.secondary] = Nothing
      OBVIOUS
    <3>1. CASE w = u
      BY <3>1, <2>1, <2>2, <1>1 DEF Empty
    <3>2. CASE w # u
      BY <3>2, <2>1, <1>1, <1>p DEF Residency, Is, Released, Empty, Moving
    <3> QED BY <3>1, <3>2
  <2>4. ~Empty(Active) /\ life'[Active] = life[Active] /\ data'[Active] = data[Active]
    BY <1>p, <1>0, <1>2, <1>3 DEF Residency
  <2> QED BY <2>1, <2>3, <2>4, <1>p, <1>0 DEF Residency, Is, Released, Empty, Moving
<1>7. Destinations'
  <2>1. ASSUME NEW t \in Caller, t # u PROVE Private(t)'
    <3>1. Private(t) /\ does'[t] = does[t]
      BY <2>1, <1>1, <1>p DEF Destinations
    <3> QED BY <2>1, <3>1, <1>1, <1>2 DEF Private, Is, Tiers
  <2>2. ASSUME NEW t \in Caller, t # u PROVE Aimed(t)'
    <3>1. does'[t] = does[t] /\ Aimed(t) /\ (does[t].op \in Moving \union {"dispose", "undo"} => does[t].dst \in Storage)
      BY <2>2, <1>p, <1>1 DEF Destinations, Targets, Is, Aimed
    <3>2. does[t].op \in Moving \union {"dispose", "undo"} =>
             life'[does[t].dst] = life[does[t].dst] /\ data'[does[t].dst] = data[does[t].dst]
      BY <3>1, <1>2, <1>3
    <3> QED BY <3>1, <3>2 DEF Aimed, Is, Tiers, Released, Moving, Empty
  <2>3. Private(u)'
    BY <1>1, <1>2 DEF Private, Is, Tiers
  <2>4. Aimed(u)'
    BY <1>1, <1>3 DEF Aimed, Is, Empty, Released, Moving
  <2> QED BY <2>1, <2>2, <2>3, <2>4 DEF Destinations
<1>8. Accesses'
  <2>1. ASSUME NEW t \in Caller, t # u PROVE Entered(t)'
    <3>1. does'[t] = does[t] /\ Entered(t)
      BY <2>1, <1>1, <1>p DEF Accesses
    <3>2. does[t].op = "store" => life'[does[t].dst] = life[does[t].dst]
      BY <3>1, <1>2, <1>3 DEF Entered, Is
    <3> QED BY <3>1, <3>2 DEF Entered, Is, Released
  <2>2. Entered(u)'
    BY <1>1 DEF Entered, Is
  <2>3. \A x \in Storage : access'[x] # Nobody => ~Empty(x)'
    BY <1>p, <1>2, <1>3 DEF Accesses, Empty
  <2> QED BY <2>1, <2>2, <2>3 DEF Accesses
<1>9. \A t \in Caller : does'[t].op \in {"free", "install"} <=> t # u /\ does[t].op \in {"free", "install"}
  BY <1>1
<1>10. life'[Active] = life[Active] /\ data'[Active] = data[Active]
  BY <1>0, <1>2, <1>3
<1>11. Turns'
  BY <1>p, <1>0, <1>1, <1>9, <1>10 DEF Turns, Is, Released
<1>12. Values'
  <2>1. \A t \in Caller : does'[t].op \in {"free", "install"} => does'[t] = does[t] /\ does[t].dst \in Storage \ {c}
    BY <1>1, <1>2 DEF Targets, Is, Moving
  <2>2. \A t \in Caller : does[t].op = "install" => does'[t].op = "install"
    BY <1>1
  <2> QED BY <2>1, <2>2, <1>p, <1>0, <1>3, <1>10 DEF Values, Is, Holds
<1> QED BY <1>4, <1>5, <1>7, <1>8, <1>11, <1>12 DEF Orderly

(* The constructor and the collector run when no thread is in a call.      *)
LEMMA BuildOrderly ==
    ASSUME EvictableTypeOK, Targets, Orderly, ClaimPrimary \/ ClaimSecondary \/ Finalize \/ Collect
    PROVE  Orderly'
<1>p. Claims /\ Residency /\ Destinations /\ Accesses /\ Turns /\ Values
  BY DEF Orderly
<1>1. UNCHANGED <<life, data, access, tier, evicted, value, dropped, leaked, does>>
  BY DEF ClaimPrimary, ClaimSecondary, Finalize, Collect
<1>2. \A u \in Caller : does[u].op = "rest" /\ ~does[u].fresh
  <2>1. \A u \in Caller : does[u].op = "rest"
    BY <1>p DEF Claims, Is, ClaimPrimary, ClaimSecondary, Finalize, Collect, Resting, Rests
  <2> QED BY <2>1, <1>p DEF Destinations, Aimed, Is, Moving
<1>3. Held = {} /\ Held' = {}
  BY <1>1, <1>2 DEF Held
<1>4. Claims'
  <2>1. CASE ClaimPrimary
    BY <2>1, <1>p, <1>1, <1>2, <1>3 DEF Claims, ClaimPrimary, Is, Tiers
  <2>2. CASE ClaimSecondary
    BY <2>2, <1>p, <1>1, <1>2, <1>3 DEF Claims, ClaimSecondary, Is, Tiers
  <2>3. CASE Finalize
    BY <2>3, <1>p, <1>1, <1>2, <1>3 DEF Claims, Finalize, Is, Tiers
  <2>4. CASE Collect
    BY <2>4, <1>p, <1>1, <1>2, <1>3 DEF Claims, Collect, Is, Tiers
  <2> QED BY <2>1, <2>2, <2>3, <2>4
<1>5. Residency' /\ Accesses' /\ Turns' /\ Values'
  BY <1>p, <1>1 DEF Residency, Accesses, Entered, Turns, Values, Is, Released, Empty, Holds, Active
<1>6. Destinations'
  BY <1>p, <1>1, <1>2 DEF Destinations, Private, Aimed, Is, Released, Empty, Tiers, Moving
<1> QED BY <1>4, <1>5, <1>6 DEF Orderly

(* As long as no transition has moved a tier that it had not entered,      *)
(* every step keeps what is active and what is not apart.                  *)
LEMMA OrderlyKept == EvictableTypeOK /\ Targets /\ Orderly /\ [EvictableNext]_evictableVars /\ ~astray' => Orderly'
<1> SUFFICES ASSUME EvictableTypeOK, Targets, Orderly, [EvictableNext]_evictableVars, ~astray' PROVE Orderly'
  OBVIOUS
<1>0. /\ does \in [Caller -> Calls] /\ tier.primary \in Storage
      /\ \A u \in Caller : does[u].to \in {"primary", "secondary"} /\ tier[does[u].to] \in Storage
      /\ \A u \in Caller : does[u].fresh => does[u].op \in Moving \union {"dispose", "undo"}
      /\ \A u \in Caller : does[u].op # "rest" => state \in {"live", "released"}
  BY Parts DEF Orderly, Destinations, Aimed, Claims, Is
<1>1. CASE ClaimPrimary \/ ClaimSecondary \/ Finalize \/ Collect
  BY <1>1, BuildOrderly
<1>2. ASSUME NEW u \in Caller, NEW to \in {"primary", "secondary"}, CallTransition(u, to)
      PROVE  Orderly'
  <2>1. /\ state = "live" /\ evicted = (to = "primary") /\ does[u].op = "rest"
        /\ UNCHANGED <<life, data, owned, access, tier, evicted, state, value, dropped, leaked>>
    BY <1>2 DEF CallTransition, storageVars, hierarchyVars, Resting, Rests
  <2>2. /\ does'[u].op = "prepare" /\ does'[u].to = to /\ does'[u].src = Nothing /\ does'[u].dst = Nothing
        /\ does'[u].fresh = FALSE
        /\ \A t \in Caller : t # u =>
              /\ does'[t].op = does[t].op /\ does'[t].to = does[t].to /\ does'[t].src = does[t].src
              /\ does'[t].dst = does[t].dst /\ does'[t].fresh = does[t].fresh
    <3>1. does \in [Caller -> Calls]
      BY <1>0
    <3> QED BY ONLY <3>1, <1>2, Calls_
  <2>3. Takes(u)
    BY <2>1, <2>2 DEF Takes
  <2> QED BY <2>2, <2>3, TakesOrderly
<1>3. ASSUME NEW u \in Caller, Prepare(u)
      PROVE  Orderly'
  <2>1. does[u].op = "prepare" /\ UNCHANGED <<tier, evicted, state, value, dropped, leaked>> /\ state \in {"live", "released"}
    BY <1>0, <1>3 DEF Prepare, hierarchyVars
  <2>2. CASE life[tier[does[u].to]] = "live" /\ data[tier[does[u].to]] # Nothing
    <3>1. does' = [does EXCEPT ![u] = [@ EXCEPT !.op = "enter", !.dst = tier[does[u].to]]] /\ UNCHANGED <<life, data, owned, access>>
      BY <1>3, <2>2 DEF Prepare, storageVars
    <3>2. Doing(u, "enter", does[u].to, does[u].src, tier[does[u].to], does[u].fresh)
      BY <3>1, <1>0, Enters_
    <3>3. Takes(u) /\ does'[u].to = does[u].to
      BY <2>1, <2>2, <3>1, <3>2, <1>0 DEF Takes, Doing, Empty, Moving
    <3> QED BY <3>3, <1>0, TakesOrderly
  <2>3. CASE ~(life[tier[does[u].to]] = "live" /\ data[tier[does[u].to]] # Nothing)
    <3>1. CASE Stops(u) /\ UNCHANGED storageVars
      BY <2>1, <3>1, StopsOrderly DEF storageVars
    <3>2. ASSUME \E x \in Storage : Forgotten(x),
                 LET c == CHOOSE x \in Storage : Forgotten(x)
                 IN /\ life' = [life EXCEPT ![c] = "live"]
                    /\ \E v \in Datum : data' = [data EXCEPT ![c] = v]
                    /\ owned' = owned \union {c}
                    /\ does' = [does EXCEPT ![u] = [@ EXCEPT !.op = "enter", !.dst = c, !.fresh = TRUE]]
                    /\ UNCHANGED access
          PROVE  Orderly'
      <4> DEFINE c == CHOOSE x \in Storage : Forgotten(x)
      <4>1. c \in Storage /\ Forgotten(c)
        BY <3>2, NewCarrier
      <4>2. PICK v \in Datum : data' = [data EXCEPT ![c] = v]
        BY <3>2
      <4>3. /\ life' = [life EXCEPT ![c] = "live"] /\ owned' = owned \union {c} /\ UNCHANGED access
            /\ does' = [does EXCEPT ![u] = [@ EXCEPT !.op = "enter", !.dst = c, !.fresh = TRUE]]
        BY <3>2
      <4> HIDE DEF c
      <4> QED BY <2>1, <2>3, <4>1, <4>2, <4>3, AllocatesOrderly
    <3> QED BY <3>1, <3>2, <2>3, <1>3 DEF Prepare
  <2> QED BY <2>2, <2>3
<1>4. ASSUME NEW u \in Caller, Enter(u)
      PROVE  Orderly'
  <2>1. does[u].op = "enter" /\ UNCHANGED <<life, data, owned, tier, evicted, state, value, dropped>>
    BY <1>4 DEF Enter
  <2>2. CASE (Fails(u) /\ UNCHANGED leaked) \/ Leaks(u)
    BY <2>1, <2>2, FailsOrderly
  <2>3. CASE /\ Enterable(u, From(u)) /\ Enterable(u, does[u].dst)
             /\ access' = [access EXCEPT ![From(u)] = u, ![does[u].dst] = u] /\ Goes(u, "copy") /\ UNCHANGED leaked
    BY <2>1, <2>3, EnterOrderly
  <2> QED BY <2>2, <2>3, <1>4 DEF Enter
<1>5. ASSUME NEW u \in Caller, Copy(u)
      PROVE  Orderly'
  <2>1. does[u].op = "copy" /\ UNCHANGED <<life, owned, tier, evicted, state, value, dropped>>
    BY <1>5 DEF Copy
  <2>2. CASE /\ life[From(u)] = "live" /\ data[From(u)] # Nothing /\ life[does[u].dst] = "live"
             /\ data' = [data EXCEPT ![does[u].dst] = data[From(u)]]
             /\ does' = [does EXCEPT ![u] = [@ EXCEPT !.op = "free", !.src = From(u)]]
             /\ astray' = (astray \/ access[From(u)] # u) /\ UNCHANGED <<access, leaked>>
    BY <2>1, <2>2, CopyOrderly
  <2>3. CASE UNCHANGED data /\ ((Fails(u) /\ UNCHANGED leaked) \/ Leaks(u))
    BY <2>1, <2>3, FailsOrderly
  <2>4. CASE /\ life[From(u)] = "live" /\ data[From(u)] # Nothing /\ life[does[u].dst] = "live"
             /\ \E v \in Datum : data' = [data EXCEPT ![does[u].dst] = v]
             /\ (Fails(u) /\ UNCHANGED leaked) \/ Leaks(u)
    BY <2>1, <2>4, FailsOrderly
  <2> QED BY <2>2, <2>3, <2>4, <1>5 DEF Copy
<1>6. ASSUME NEW u \in Caller, Free(u)
      PROVE  Orderly'
  <2>1. does[u].op = "free" /\ UNCHANGED <<owned, tier, evicted, state, value, dropped, leaked>>
    BY <1>6 DEF Free, hierarchyVars
  <2>2. CASE Fails(u) /\ UNCHANGED <<life, data>>
    BY <2>1, <2>2, FailsOrderly
  <2>3. CASE Freed(u, does[u].src) /\ access' = Left(u) /\ does' = [does EXCEPT ![u] = [@ EXCEPT !.op = "install", !.src = Nothing]]
    BY <2>1, <2>3, FreeOrderly
  <2> QED BY <2>2, <2>3, <1>6 DEF Free
<1>7. ASSUME NEW u \in Caller, CallWrite(u)
      PROVE  Orderly'
  <2>1. /\ does[u] = Rests /\ state = "live" /\ UNCHANGED <<life, data, owned, access, tier, evicted, value, dropped, state, leaked>>
        /\ does' = [does EXCEPT ![u] = [Rests EXCEPT !.op = "write", !.dst = tier.primary]]
    BY <1>7 DEF CallWrite, Resting, storageVars, hierarchyVars
  <2>2. Doing(u, "write", "primary", Nothing, tier.primary, FALSE)
    BY <2>1, <1>0, Writes_
  <2>3. does[u].op = "rest"
    BY <2>1 DEF Rests
  <2> QED BY <2>1, <2>2, <2>3, StartsOrderly
<1>8. ASSUME NEW u \in Caller, EnterWrite(u)
      PROVE  Orderly'
  <2>1. /\ does[u].op = "write" /\ UNCHANGED <<life, data, owned, tier, evicted, state, value, dropped, leaked>>
        /\ state \in {"live", "released"}
    BY <1>0, <1>8 DEF EnterWrite, hierarchyVars
  <2>2. CASE Stops(u) /\ UNCHANGED access
    BY <2>1, <2>2, StopsOrderly
  <2>3. CASE /\ does[u].dst = tier.primary /\ Enterable(u, does[u].dst)
             /\ access' = [access EXCEPT ![does[u].dst] = u] /\ Goes(u, "store")
    <3>1. "store" \in Ops
      BY DEF Ops, Writing
    <3>2. Doing(u, "store", does[u].to, does[u].src, does[u].dst, does[u].fresh)
      BY <2>3, <3>1, <1>0, Goes_
    <3>3. Takes(u) /\ does'[u].to = does[u].to
      BY <2>1, <2>3, <3>2, <1>0 DEF Takes, Doing, Moving, Enterable
    <3> QED BY <3>3, <1>0, TakesOrderly
  <2> QED BY <2>2, <2>3, <1>8 DEF EnterWrite
<1>9. ASSUME NEW u \in Caller, CallRelease(u)
      PROVE  Orderly'
  <2> DEFINE b == \E t \in Caller : does[t].op \in Transition
  <2>1. /\ does[u] = Rests /\ state = "live" /\ UNCHANGED <<life, data, owned, access, tier, evicted, value, dropped, state, leaked>>
        /\ does' = [does EXCEPT ![u] = [Rests EXCEPT !.op = "dropPrimary", !.beside = b]] /\ b \in BOOLEAN
    BY <1>9 DEF CallRelease, Resting, storageVars, hierarchyVars
  <2> HIDE DEF b
  <2>2. Doing(u, "dropPrimary", "primary", Nothing, Nothing, FALSE)
    BY <2>1, <1>0, Releases_
  <2>3. does[u].op = "rest" /\ "dropPrimary" \in Releasing
    BY <2>1 DEF Rests, Releasing
  <2> QED BY <2>1, <2>2, <2>3, StartsOrderly
<1>10. ASSUME NEW u \in Caller, DropPrimary(u)
       PROVE  Orderly'
  BY <1>10, DropOrderly DEF DropPrimary
<1>11. ASSUME NEW u \in Caller, DropSecondary(u)
       PROVE  Orderly'
  BY <1>11, DropOrderly DEF DropSecondary
<1>12. ASSUME NEW u \in Caller, Mark(u)
       PROVE  Orderly'
  <2>1. "mark" \in Releasing
    BY DEF Releasing
  <2> QED BY <2>1, <1>0, <1>12, StopsOrderly DEF Mark, storageVars
<1>14. ASSUME NEW u \in Caller, Install(u)
       PROVE  Orderly'
  <2>1. does[u].op = "install" /\ UNCHANGED <<life, data, owned, state, value>>
    BY <1>14 DEF Install
  <2>2. CASE Leaks(u) /\ dropped' /\ UNCHANGED <<tier, evicted>>
    BY <2>1, <2>2, FailsOrderly
  <2>3. CASE /\ tier' = [tier EXCEPT ![does[u].to] = does[u].dst] /\ evicted' = (does[u].to = "secondary")
             /\ IF does[u].fresh THEN Disposes(u, "dispose", tier[does[u].to]) ELSE Stops(u)
             /\ UNCHANGED <<access, dropped, leaked>>
    BY <2>1, <2>3, InstallOrderly
  <2> QED BY <2>2, <2>3, <1>14 DEF Install
<1>13. CASE UNCHANGED evictableVars
  BY <1>13 DEF evictableVars, Orderly, Claims, Residency, Destinations, Private, Aimed, Accesses, Entered, Turns, Values,
               Is, Tiers, Active, Released, Empty, Holds, Held
<1> QED BY <1>1, <1>2, <1>3, <1>4, <1>5, <1>6, <1>7, <1>8, <1>9, <1>10, <1>11, <1>12, <1>13, <1>14,
           DisposeOrderly, StoreOrderly DEF EvictableNext
-----------------------------------------------------------------------------
LEMMA SettledInit == EvictableInit => Settled
<1> SUFFICES ASSUME EvictableInit PROVE Settled
  OBVIOUS
<1> USE EvictableAssumption
<1>1. PICK v \in Datum, w \in Datum \union {Nothing} :
         /\ data = [c \in Storage |-> IF c = First THEN v ELSE IF c = Second THEN w ELSE Nothing]
         /\ value = v
  BY DEF EvictableInit
<1>2. \A u \in Caller : does[u] = Rests /\ does[u].op = "rest" /\ ~does[u].fresh
  BY DEF EvictableInit, Rests
<1>3. /\ tier.primary = First /\ tier.secondary = Second /\ Active = First
      /\ life[First] = "live" /\ data[First] = v /\ access = [c \in Storage |-> Nobody]
      /\ owned = {} /\ state = "unbuilt" /\ ~evicted /\ ~dropped /\ ~astray
  BY <1>1 DEF EvictableInit, Active
<1>4. EvictableTypeOK
  <2>1. does \in [Caller -> Calls]
    BY RestsType DEF EvictableInit
  <2> QED BY <2>1, <1>1 DEF EvictableInit, EvictableTypeOK
<1>5. Targets /\ Returning
  BY <1>2 DEF Targets, Returning, Is, Moving, Releasing
<1>6. Claims /\ Residency
  BY <1>2, <1>3 DEF EvictableInit, Claims, Residency, Is, Tiers, Moving, Empty
<1>7. Destinations /\ Accesses /\ Turns /\ Values
  BY <1>1, <1>2, <1>3 DEF Destinations, Private, Aimed, Accesses, Entered, Turns, Values, Is, Moving, Holds
<1> QED BY <1>4, <1>5, <1>6, <1>7 DEF Settled, Orderly

LEMMA AstrayStays == EvictableTypeOK /\ [EvictableNext]_evictableVars /\ ~astray' => ~astray
  BY DEF EvictableTypeOK, EvictableNext, evictableVars, hierarchyVars, ClaimPrimary, ClaimSecondary, Finalize, Collect, CallTransition,
         Prepare, Enter, Copy, Free, Install, Dispose, CallWrite, EnterWrite, Store, CallRelease, DropPrimary, DropSecondary, Mark

(* Whatever threads do at the same time, a release that no transition runs *)
(* beside finds the tiers as it left them; and as long as every transition *)
(* has moved a tier that it had entered, what is active and what is not is *)
(* never confused: carriers/evictable/carrier.py:378-480.                  *)
THEOREM SettledHolds == EvictableSpec => []Settled
<1>1. EvictableInit => Settled
  BY SettledInit
<1>2. Settled /\ [EvictableNext]_evictableVars => Settled'
  BY TypesKept, ReturningKept, OrderlyKept, AstrayStays DEF Settled
<1> QED BY <1>1, <1>2, PTL DEF EvictableSpec

(* As long as every transition has moved a tier that it had entered, the   *)
(* value is kept, both tiers stay claimed while the hierarchy is usable,   *)
(* and nothing else stays claimed but what a transition has in hand, or    *)
(* has left behind in one of the two ways the code has for it              *)
(* (carrier-composition/spec.md:26; carriers/evictable/carrier.py).        *)
THEOREM TiersAlwaysOwned == EvictableSpec => []TiersOwned
<1>1. Settled => TiersOwned
  <2> SUFFICES ASSUME Settled, ~astray PROVE /\ state = "live" => {tier.primary, tier.secondary} \subseteq owned
                                             /\ \A c \in owned \ leaked : life[c] = "live" =>
                                                   \/ c \in Held
                                                   \/ c \in {tier.primary, tier.secondary} /\ state \notin {"refused", "gone"}
                                             /\ ValueKept
    BY DEF TiersOwned
  <2>1. Claims /\ Values
    BY DEF Settled, Orderly
  <2>2. ValueKept
    BY <2>1 DEF Values, ValueKept, Is, Active
  <2> QED BY <2>1, <2>2 DEF Claims, Tiers
<1> QED BY <1>1, SettledHolds, PTL

(* A release that reports success has released both tiers, also when an    *)
(* earlier one stopped half-way, unless a transition ran beside it         *)
(* (Evictable.release, carriers/evictable/carrier.py).                     *)
THEOREM ReleasesComplete == EvictableSpec => ReleaseComplete
<1> DEFINE A == \A u \in Caller : does[u].op = "mark" /\ ~does[u].beside /\ state' = "released" =>
                   life[tier.primary] = "released" /\ life[tier.secondary] = "released"
<1>1. Settled => A
  BY DEF Settled, Returning, Is, Releasing, Released
<1>2. Settled /\ [EvictableNext]_evictableVars => [A]_evictableVars
  BY <1>1
<1> QED BY <1>2, SettledHolds, PTL DEF EvictableSpec, ReleaseComplete
================================================================================
