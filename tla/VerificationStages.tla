------------------------- MODULE VerificationStages -------------------------
(***************************************************************************)
(* Verification of a backend: stage one certifies the kernels of the       *)
(* oracle against the Generic reference, stage two runs the cases of a     *)
(* target on the authority of those certificates, and the evidence of both *)
(* becomes one report, of which views are taken.                           *)
(*                                                                         *)
(* A digest is the facts it is taken of: a certificate stands for its      *)
(* digest, and its evidence for the digest of that.  Payloads, shapes,     *)
(* tolerances and measured deviations are an outcome here.                 *)
(***************************************************************************)
EXTENDS Naturals, Sequences, FiniteSets

CONSTANTS
    ExactOperations, StructuralOperations, TranscendentalOperations,
    OraclePlans,    \* the plans the oracle's carrier declares, in their order
    JitPlans,       \* the plans a carrier declares that compiles as it runs
    Movements,      \* the operations that move values without computing
    Witnesses,      \* the analytic witnesses of a sum
    Absent          \* no plan, no receipt, no certificate

(* A plan names its operation, its arithmetic and its accumulator; the     *)
(* plans of a carrier are in an order, each once.                          *)
IsPlan(p) == DOMAIN p = {"operation", "compute", "accumulator"} /\ p # Absent
ArePlans(plans) ==
    /\ plans \in Seq({plans[i] : i \in DOMAIN plans})
    /\ \A i \in DOMAIN plans : IsPlan(plans[i]) /\ plans[i].operation \notin Movements
    /\ \A i, j \in DOMAIN plans : plans[i] = plans[j] => i = j

ASSUME StagesAssumption == ArePlans(OraclePlans) /\ ArePlans(JitPlans) /\ Witnesses # {}

VARIABLES
    provider,       \* how the target's kernels are compiled
    phase,          \* what runs next
    at,             \* the plan it is at
    evidence,       \* the records made so far
    certificates    \* what stage one certified

stagesVars == <<provider, phase, at, evidence, certificates>>
-----------------------------------------------------------------------------
(* Classification: what must be shown of a plan; nothing when its result   *)
(* depends on the vendor's library, and the plan is deferred.              *)
CertifiedSums == {"matmul", "reduce_sum"}

Classes(p) ==
    CASE p.operation \in ExactOperations -> {"exact_arithmetic"}
      [] p.operation \in StructuralOperations -> {"structural"}
      [] p.operation \in CertifiedSums -> {"structural", "analytic", "numerical"}
      [] p.operation = "pow" /\ p.compute # "BINARY32" -> {"exact_arithmetic"}
      [] p.operation = "pow" /\ p.compute = "BINARY32" -> {}
      [] p.operation \in TranscendentalOperations -> {}

(* Every operation is of one kind.                                         *)
Kinds == <<ExactOperations, StructuralOperations, TranscendentalOperations, CertifiedSums, {"pow"}>>
Operations(plans) == {plans[i].operation : i \in DOMAIN plans}

ASSUME ClassesAssumption ==
    /\ \A o \in Operations(OraclePlans) \union Operations(JitPlans) : \E i \in 1..5 : o \in Kinds[i]
    /\ \A i, j \in 1..5 : i # j => Kinds[i] \cap Kinds[j] = {}

(* The oracle is itself a target.                                          *)
TargetPlans == IF provider = "compiled-executable" THEN OraclePlans ELSE JitPlans

Declared(plans) == {plans[i] : i \in DOMAIN plans}
Deferred(p) == Classes(p) = {}
Active(k) == {p \in Declared(OraclePlans) : p.operation = k /\ ~Deferred(p)}
Certifiable == {p.operation : p \in {q \in Declared(OraclePlans) : ~Deferred(q)}}
-----------------------------------------------------------------------------
(* A requirement is one case to be shown at one stage.                     *)
Requirement(s, k, p, class, label) ==
    [stage |-> s, kernel |-> k, plan |-> p, class |-> class, label |-> label]

Case(class, labels) == {<<class, l>> : l \in labels}
ExactCases == Case("exact_arithmetic", {"exact", "arbitrary"})
StructuralCases == Case("structural", {"structural"})
NumericalCases == Case("numerical", {"numerical"})
AnalyticCases == Case("analytic", Witnesses)

(* The cases of a plan at stage one.                                       *)
Catalog(p) ==
    {c \in ExactCases \union StructuralCases \union NumericalCases \union AnalyticCases :
        c[1] \in Classes(p)}

(* At stage two a sum runs on the layouts of production instead.           *)
TargetCatalog(p) ==
    IF p.operation \in CertifiedSums
    THEN Case("structural", {"flat"}) \union Case("numerical", {"hierarchical"}) \union AnalyticCases
    ELSE Catalog(p)

DeferredCase(s, p) == Requirement(s, p.operation, p, "deferred", "deferred")
MovementCase(s, m) == Requirement(s, m, Absent, "bit_exact", "adversarial-bits")

PlanRequirements(s, p, catalog) ==
    IF Deferred(p) THEN {DeferredCase(s, p)}
    ELSE {Requirement(s, p.operation, p, c[1], c[2]) : c \in catalog}

OracleRequirements ==
    {MovementCase("oracle", m) : m \in Movements}
    \union UNION {PlanRequirements("oracle", p, Catalog(p)) : p \in Declared(OraclePlans)}

TargetRequirements ==
    {MovementCase("target", m) : m \in Movements}
    \union UNION {PlanRequirements("target", p, TargetCatalog(p)) : p \in Declared(TargetPlans)}
-----------------------------------------------------------------------------
(* A record: how the attempt at a requirement ended, the receipt of the    *)
(* kernel that ran and the certificate that authorized it.                 *)
Record(q, outcome, receipt, consumed) ==
    [of |-> q, outcome |-> outcome, receipt |-> receipt, consumed |-> consumed]

Plain(q, outcome) == Record(q, outcome, Absent, Absent)
Blocked(q) == Plain(q, IF q.class = "deferred" THEN "deferred" ELSE "blocked")
Ran == {"passed", "failed", "error"}
Problems == {"failed", "error", "blocked"}

WellFormed(r) ==
    /\ r.of.class = "deferred" <=> r.outcome = "deferred"
    /\ r.of.stage = "oracle" => r.consumed = Absent /\ r.outcome # "blocked"
    /\ r.outcome \in {"blocked", "deferred"} => r.receipt = Absent /\ r.consumed = Absent

(* The receipts of compilation: one per kernel of a compiled provider, one *)
(* per kernel launched of a provider that compiles as it runs.             *)
Profile(s) == IF s = "oracle" \/ provider = "compiled-executable" THEN "cpu-compiled" ELSE "metal-tilelang"
Receipt(q) == [profile |-> Profile(q.stage), kernel |-> q.kernel]
Installed == {[profile |-> "cpu-compiled", kernel |-> p.operation] : p \in Declared(OraclePlans)}
ReceiptBundle(records) == Installed \union ({r.receipt : r \in records} \ {Absent})
-----------------------------------------------------------------------------
(* A certificate says that everything a kernel's plans require has passed. *)
OracleRecords(k, records) == {r \in records : r.of.stage = "oracle" /\ r.of.kernel = k}

(* Mutant: one case that passed is enough, whatever the others of its class *)
(* did.                                                                    *)
ShownByOne(classes, cases, records) ==
    /\ cases # {} => {<<r.of.plan, r.of.class, r.of.label>> :
                         r \in {x \in records : x.of.plan \in DOMAIN classes}} = cases
    /\ \A p \in DOMAIN classes : \A c \in classes[p] :
          \E r \in records : r.of.plan = p /\ r.of.class = c /\ r.outcome = "passed"

Shown(classes, cases, records) ==
    /\ cases # {} => {<<r.of.plan, r.of.class, r.of.label>> :
                         r \in {x \in records : x.of.plan \in DOMAIN classes}} = cases
    /\ \A r \in records : r.of.class \in UNION {classes[p] : p \in DOMAIN classes} => r.outcome = "passed"
    /\ \A p \in DOMAIN classes : \A c \in classes[p] :
          \E r \in records : r.of.plan = p /\ r.of.class = c /\ r.outcome = "passed"

Certificate(k, classes, records) ==
    [kernel |-> k, classes |-> classes, evidence |-> {<<r.of, r.outcome>> : r \in records}]

RequiredClasses(k) == [p \in Active(k) |-> Classes(p)]
RequiredCases(k) == UNION {{<<p, c[1], c[2]>> : c \in Catalog(p)} : p \in Active(k)}

(* Nothing is neither a receipt nor a certificate.                         *)
ASSUME AbsentAssumption ==
    /\ Absent \notin [profile : {"cpu-compiled", "metal-tilelang"},
                      kernel : Operations(OraclePlans) \union Operations(JitPlans)]
    /\ \A k \in Certifiable :
          Absent \notin [kernel : {k}, classes : {RequiredClasses(k)},
                         evidence : SUBSET (OracleRequirements \X (Ran \union {"deferred"}))]

Certified(records) ==
    {Certificate(k, RequiredClasses(k), OracleRecords(k, records)) :
        k \in {j \in Certifiable : Shown(RequiredClasses(j), RequiredCases(j), OracleRecords(j, records))}}

(* A report must agree with its certificates as far as it shows their      *)
(* evidence: one whose classes it covers is made again from what it holds. *)
Agrees(c, records) ==
    LET mine == OracleRecords(c.kernel, records)
        shown == {r \in mine : r.of.class # "deferred"}
        Seen(p) == {r.of.class : r \in {x \in shown : x.of.plan = p}}
        seen == [p \in {r.of.plan : r \in shown} |-> Seen(p)]
    IN  mine # {} =>
          /\ \A p \in DOMAIN seen : p \in DOMAIN c.classes /\ seen[p] \subseteq c.classes[p]
          /\ (\A p \in DOMAIN c.classes : p \in DOMAIN seen /\ c.classes[p] \subseteq seen[p])
               => Shown(seen, {}, mine) /\ Certificate(c.kernel, seen, mine) = c
-----------------------------------------------------------------------------
(* A report: records, the receipts and the certificates of its header.     *)
ReportOf(records, receipts, certs) == [records |-> records, receipts |-> receipts, certificates |-> certs]

ReceiptFits(r, receipts) ==
    IF r.receipt = Absent THEN r.outcome \in {"passed", "failed"} => Receipt(r.of) \notin receipts
    ELSE r.receipt \in receipts /\ r.receipt = Receipt(r.of) /\ r.outcome # "blocked"

CertificateFits(r, receipts, certs) ==
    /\ r.consumed # Absent => /\ r.consumed \in certs
                              /\ \E p \in DOMAIN r.consumed.classes : p.operation = r.of.kernel
                              /\ \E p \in DOMAIN r.consumed.classes : r.of.class \in r.consumed.classes[p]
    /\ (r.of.stage = "target" /\ r.outcome \in Ran /\ [profile |-> "cpu-compiled", kernel |-> r.of.kernel] \in receipts)
         => r.consumed # Absent

Valid(report) ==
    /\ \A r \in report.records : /\ WellFormed(r)
                                 /\ \A x \in report.records : x.of = r.of => x = r
                                 /\ ReceiptFits(r, report.receipts)
                                 /\ CertificateFits(r, report.receipts, report.certificates)
    /\ \A c, d \in report.certificates : c.kernel = d.kernel => c = d
    /\ \A c \in report.certificates : Agrees(c, report.records)

(* Binding gives a record that ran the receipt of its compiled kernel.     *)
Stamped(records) ==
    {IF r.receipt = Absent /\ r.outcome \in Ran /\ Receipt(r.of) \in Installed
     THEN [r EXCEPT !.receipt = Receipt(r.of)] ELSE r : r \in records}

Oracle == {r \in evidence : r.of.stage = "oracle"}
FullReport(records) == ReportOf(records, ReceiptBundle(records), certificates)

(* A view keeps what its records refer to.                                 *)
View(report, records) ==
    ReportOf(records, {c \in report.receipts : \E r \in records : r.receipt = c},
           {c \in report.certificates : \E r \in records : r.consumed = c})
-----------------------------------------------------------------------------
StagesInit ==
    /\ provider \in {"compiled-executable", "jit-specialization"}
    /\ phase = "oracle moves" /\ at = 1
    /\ evidence = {} /\ certificates = {}

Add(records) == evidence' = evidence \union records

(* Stage one runs every case; one that raises is recorded as an error.     *)
OracleMoves ==
    /\ phase = "oracle moves"
    /\ \E outcome \in [Movements -> Ran] :
          Add({Plain(MovementCase("oracle", m), outcome[m]) : m \in Movements})
    /\ phase' = "oracle"
    /\ UNCHANGED <<provider, at, certificates>>

OraclePlan ==
    /\ phase = "oracle" /\ at <= Len(OraclePlans)
    /\ LET p == OraclePlans[at]
       IN  IF Deferred(p) THEN Add({Plain(DeferredCase("oracle", p), "deferred")})
           ELSE \E outcome \in [Catalog(p) -> Ran] :
                   Add({Plain(Requirement("oracle", p.operation, p, c[1], c[2]), outcome[c]) : c \in Catalog(p)})
    /\ at' = at + 1
    /\ UNCHANGED <<provider, phase, certificates>>

(* A kernel that cannot be certified is left out.                          *)
Certify ==
    /\ phase = "oracle" /\ at > Len(OraclePlans)
    /\ evidence' = Stamped(evidence)
    /\ certificates' = Certified(evidence)
    /\ phase' = "authorize" /\ at' = 1
    /\ UNCHANGED provider
-----------------------------------------------------------------------------
(* Stage two rebuilds the authority from the evidence, and trusts phase    *)
(* one only when it finds exactly the certificates it was given.           *)
OracleAccepted ==
    /\ Valid(FullReport(Oracle))
    /\ {r.of : r \in Oracle} = OracleRequirements
    /\ certificates = {Certificate(k, RequiredClasses(k), OracleRecords(k, Oracle)) :
                          k \in {j \in Certifiable : \A r \in OracleRecords(j, Oracle) :
                                    <<r.of.plan, r.of.class, r.of.label>> \in RequiredCases(j) => r.outcome = "passed"}}

(* A sum is authorized by a certificate of its Float64 plan.               *)
Authority(k) ==
    {c \in certificates :
        /\ c.kernel = k
        /\ \E p \in Active(k) : k \in CertifiedSums => p.accumulator = "Float64"}

Authorize ==
    /\ phase = "authorize" /\ OracleAccepted /\ certificates # {}
    /\ phase' = "target moves"
    /\ UNCHANGED <<provider, at, evidence, certificates>>

BlockTarget ==
    /\ phase = "authorize" /\ ~(OracleAccepted /\ certificates # {})
    /\ Add({Blocked(q) : q \in TargetRequirements})
    /\ phase' = "report"
    /\ UNCHANGED <<provider, at, certificates>>

TargetMoves ==
    /\ phase = "target moves"
    /\ \E outcome \in [Movements -> Ran] :
          Add({Plain(MovementCase("target", m), outcome[m]) : m \in Movements})
    /\ phase' = "target"
    /\ UNCHANGED <<provider, at, certificates>>

AtTarget == phase = "target" /\ at <= Len(TargetPlans)
Tried == PlanRequirements("target", TargetPlans[at], TargetCatalog(TargetPlans[at]))
TargetDone == at' = at + 1 /\ UNCHANGED <<provider, phase, certificates>>

(* A plan that is deferred, or that no certificate authorizes.             *)
TargetWithheld ==
    /\ AtTarget
    /\ Deferred(TargetPlans[at]) \/ Authority(TargetPlans[at].operation) = {}
    /\ Add({Blocked(q) : q \in Tried})
    /\ TargetDone

Results(p, cert, outcome, receipt) ==
    {Record(Requirement("target", p.operation, p, c[1], c[2]), outcome[c], receipt[c], cert) :
        c \in TargetCatalog(p)}

(* A case that raises is an error of its own.                              *)
CompiledTargetRuns ==
    /\ AtTarget /\ provider = "compiled-executable" /\ ~Deferred(TargetPlans[at])
    /\ LET p == TargetPlans[at]
       IN  \E cert \in Authority(p.operation), outcome \in [TargetCatalog(p) -> Ran] :
              Add(Results(p, cert, outcome, [c \in TargetCatalog(p) |-> Absent]))
    /\ TargetDone

(* A kernel compiled as it runs has its receipt from the moment it is      *)
(* about to be launched; only an error may come before that.               *)
JitTargetRuns ==
    /\ AtTarget /\ provider = "jit-specialization" /\ ~Deferred(TargetPlans[at])
    /\ LET p == TargetPlans[at]
       IN  \E cert \in Authority(p.operation), outcome \in [TargetCatalog(p) -> Ran],
              launched \in SUBSET TargetCatalog(p) :
              /\ \A c \in TargetCatalog(p) \ launched : outcome[c] = "error"
              /\ Add(Results(p, cert, outcome,
                             [c \in TargetCatalog(p) |->
                                 IF c \in launched THEN Receipt([stage |-> "target", kernel |-> p.operation]) ELSE Absent]))
    /\ TargetDone

(* The provider fails as a whole: every case of the plan is an error, and  *)
(* what some of them had shown is dropped.                                 *)
TargetFails ==
    /\ AtTarget /\ ~Deferred(TargetPlans[at])
    /\ \E cert \in Authority(TargetPlans[at].operation) :
          Add({Record(q, "error", Absent, cert) : q \in Tried})
    /\ TargetDone

TargetEnds ==
    /\ phase = "target" /\ at > Len(TargetPlans)
    /\ phase' = "report"
    /\ UNCHANGED <<provider, at, evidence, certificates>>

(* The evidence of both stages is bound and validated as one report.       *)
MakeReport ==
    /\ phase = "report"
    /\ evidence' = Stamped(evidence)
    /\ phase' = IF Valid(FullReport(Stamped(evidence))) THEN "reported" ELSE "refused"
    /\ UNCHANGED <<provider, at, certificates>>

StagesNext == \/ OracleMoves \/ OraclePlan \/ Certify
              \/ Authorize \/ BlockTarget \/ TargetMoves
              \/ TargetWithheld \/ CompiledTargetRuns \/ JitTargetRuns \/ TargetFails \/ TargetEnds
              \/ MakeReport

StagesSpec == StagesInit /\ [][StagesNext]_stagesVars
-----------------------------------------------------------------------------
StagesTypeOK ==
    /\ provider \in {"compiled-executable", "jit-specialization"}
    /\ phase \in {"oracle moves", "oracle", "authorize", "target moves", "target", "report", "reported", "refused"}
    /\ at \in 1..(Len(OraclePlans) + Len(JitPlans) + 1)
    /\ \A r \in evidence : r.of \in OracleRequirements \union TargetRequirements /\ WellFormed(r)
    /\ \A c \in certificates : c.kernel \in Certifiable

(* What was run at the target was authorized: a certificate of its kernel  *)
(* is on record, and no case the oracle's catalog asks of that kernel is   *)
(* missing or did not pass.                                                *)
RunsAuthorized ==
    \A r \in evidence :
        r.of.stage = "target" /\ r.of.kernel \notin Movements /\ r.outcome \in Ran =>
          /\ r.consumed \in certificates /\ r.consumed.kernel = r.of.kernel
          /\ \A p \in Active(r.of.kernel) : \A c \in Catalog(p) :
                \E x \in evidence : /\ x.of = Requirement("oracle", p.operation, p, c[1], c[2])
                                    /\ x.outcome = "passed"

(* A finished report answers every requirement of both stages once.        *)
EveryCaseAnswered ==
    phase = "reported" =>
        /\ {r.of : r \in evidence} = OracleRequirements \union TargetRequirements
        /\ \A r, x \in evidence : r.of = x.of => r = x

WithOutcome(outcomes) == {r \in evidence : r.outcome \in outcomes}
ViewHolds(records) == Valid(View(FullReport(evidence), records))

(* No run ends in evidence that its own report refuses, stage two accepts  *)
(* whatever stage one certified, and the views by stage and by kernel, and *)
(* the view of the problems, are reports.                                  *)
ReportsHold ==
    /\ phase # "refused"
    /\ phase = "authorize" => OracleAccepted
    /\ phase = "reported" =>
          /\ ViewHolds(WithOutcome(Problems))
          /\ ViewHolds(Oracle) /\ ViewHolds(evidence \ Oracle)
          /\ \A k \in {r.of.kernel : r \in evidence} : ViewHolds({r \in evidence : r.of.kernel = k})

EvidenceSound == RunsAuthorized /\ EveryCaseAnswered /\ ReportsHold

(* The view of what passed drops the plans that were deferred, and with    *)
(* them a part of the evidence a certificate was made of: it is a report   *)
(* only when it shows no certificate of a kernel that has one.             *)
PassedView ==
    phase = "reported" =>
        (ViewHolds(WithOutcome({"passed"})) <=>
            ~ \E r \in WithOutcome({"passed"}), p \in Declared(OraclePlans) :
                  r.consumed # Absent /\ p.operation = r.of.kernel /\ Deferred(p))
-----------------------------------------------------------------------------
(* openspec/specs/verification-report/spec.md:328-333: a selection "SHALL  *)
(* be a provenance-complete immutable report view", and "report.passed     *)
(* SHALL equal selection of passed": the view of what passed is a report.  *)
PassedViewIsReport == phase = "reported" => ViewHolds(WithOutcome({"passed"}))
=============================================================================
