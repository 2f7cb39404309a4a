-------------------------- MODULE MCTiledResidency --------------------------
(* TiledResidency on two tiles of one element.                             *)
EXTENDS TiledResidency, TLC

CONSTANTS t1, t2

D(req_, ens, pro, ret, evi) == [required |-> req_, ensure |-> ens, promote |-> pro,
                                retain |-> ret, evict |-> evi]

(* A projection without a policy; one whose policy keeps t1 and evicts t2  *)
(* afterwards; a replace-scatter that only pins.                           *)
SomeDemands == {D({t1}, TRUE, {t1}, {}, {}),
                D({t1}, TRUE, {}, {t1}, {t2}),
                D({t2}, FALSE, {}, {}, {t2})}

Sets == {{t2}, {t1, t2}}

OneTileDemands == {D({t1}, TRUE, {}, {}, {}), D({t1}, FALSE, {}, {}, {t1})}
OneSet == {{t1, t2}}
OneTile == {{t1}}

RequestSymmetry == Permutations(Request)
ThreadSymmetry == Permutations(Request) \union Permutations(User)
WorkSymmetry == Permutations(Request) \union Permutations(Work)
=============================================================================
