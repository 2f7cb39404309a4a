---------------------------- MODULE EvidenceStore ----------------------------
(***************************************************************************)
(* The verification evidence stores (verification/store/): local databases *)
(* that processes create, record reports into, publish from and refresh    *)
(* from the snapshots of other contributors.                               *)
(*                                                                         *)
(* A row is [table, key, fact]; its identity is its table and key.  Keys   *)
(* are digests of the facts, so only an observation has a fact its key     *)
(* does not determine: the time it was recorded.  The database is taken at *)
(* its word: a transaction is applied when it commits, or not at all.  Any *)
(* statement may fail, and a process may die between any two.              *)
(***************************************************************************)
EXTENDS Naturals, Sequences, FiniteSets
LOCAL INSTANCE SequencesExt

CONSTANTS EvStore, EvProcess, Producer, Report, Time,
          Now,        \* the time of the calls and of the snapshot elsewhere
          Bundle,     \* the compilation receipts of a report
          Records,    \* the evidence records of a report
          Elsewhere,  \* a producer that also has a store elsewhere
          NoFact,
          MaxCalls    \* bound on the calls

(* A report has a record for each requirement of its profile, and the      *)
(* identity of a record names its report.                                  *)
ASSUME EvidenceAssumption ==
    /\ NoFact \notin Time /\ Elsewhere \in Producer /\ Now \in Time /\ MaxCalls \in Nat
    /\ \A r \in Report : Records[r] # {}
    /\ \A r, q \in Report : r # q => Records[r] \intersect Records[q] = {}

VARIABLES schema,     \* of each store: none yet, a bare database, tables
          rows,       \* of each store
          opened,     \* the stores each process has initialized
          published,  \* the current snapshot of each producer, or {}
          job,        \* what each process is doing
          evCalls     \* how many calls have been made

evidenceVars == <<schema, rows, opened, published, job, evCalls>>
-----------------------------------------------------------------------------
Row(table, key) == [table |-> table, key |-> key, fact |-> NoFact]
Observation(e, producer, time) == [table |-> "observation", key |-> <<e, producer>>, fact |-> time]

(* _report_rows *)
RowsOf(r, producer, time) ==
    {Row("run", <<r>>)} \union {Row("receipt", <<c>>) : c \in Bundle[r]} \union {Row("link", <<r, c>>) : c \in Bundle[r]}
    \union {Row("evidence", <<e>>) : e \in Records[r]} \union {Observation(e, producer, time) : e \in Records[r]}

Of(table, R) == {w \in R : w.table = table}
KeysOf(table, R) == {w.key : w \in Of(table, R)}
Firsts(table, R) == {w.key[1] : w \in Of(table, R)}
SameIdentity(v, w) == v.table = w.table /\ v.key = w.key
Known(w, R) == \E v \in R : SameIdentity(v, w)
RunOf(e) == CHOOSE r \in Report : e \in Records[r]

(* _validate_graph: the evidence that is observed, all of it and complete  *)
(* reports only.                                                           *)
CompleteGraph(producer, R) ==
    LET runs == Firsts("run", R)
    IN /\ Firsts("evidence", R) = Firsts("observation", R)
       /\ runs = {RunOf(e) : e \in Firsts("evidence", R)}
       /\ KeysOf("link", R) = UNION {{r} \X Bundle[r] : r \in runs}
       /\ Firsts("receipt", R) = UNION {Bundle[r] : r \in runs}
       /\ Firsts("evidence", R) = UNION {Records[r] : r \in runs}
       /\ \A k \in KeysOf("observation", R) : k[2] = producer
-----------------------------------------------------------------------------
NoJob == [op |-> "none", phase |-> "idle", store |-> CHOOSE s \in EvStore : TRUE, producer |-> CHOOSE c \in Producer : TRUE,
          created |-> FALSE, unread |-> {}, batches |-> <<>>, got |-> {}, ended |-> "none"]

(* A store may hold a report that was recorded earlier; a snapshot may     *)
(* have been published from the store elsewhere.                           *)
EvidenceInit ==
    /\ rows \in [EvStore -> {{}} \union {RowsOf(r, c, t) : r \in Report, c \in Producer, t \in Time}]
    /\ schema = [s \in EvStore |-> IF rows[s] = {} THEN "absent" ELSE "tables"]
    /\ opened = [p \in EvProcess |-> {}]
    /\ \E R \in {{}} \union {RowsOf(r, Elsewhere, Now) : r \in Report} :
          published = [c \in Producer |-> IF c = Elsewhere THEN R ELSE {}]
    /\ job = [p \in EvProcess |-> NoJob] /\ evCalls = 0

At(p, phase) == job[p].phase = phase
JobGoes(p, phase) == job' = [job EXCEPT ![p].phase = phase]
EndsAs(p, outcome) == job' = [job EXCEPT ![p] = [NoJob EXCEPT !.ended = outcome]]
Home(p) == rows[job[p].store]

Call(p) == /\ At(p, "idle") /\ evCalls < MaxCalls
           /\ evCalls' = evCalls + 1
           /\ UNCHANGED <<schema, rows, opened, published>>

(* record_report: the report has been validated.                           *)
CallRecord(p, s, r, producer) ==
    /\ Call(p)
    /\ job' = [job EXCEPT ![p] = [NoJob EXCEPT !.op = "record", !.phase = "open", !.store = s,
                                              !.got = RowsOf(r, producer, Now)]]
CallPublish(p, s, producer) ==
    /\ Call(p)
    /\ job' = [job EXCEPT ![p] = [NoJob EXCEPT !.op = "publish", !.phase = "open", !.store = s,
                                              !.producer = producer]]
CallRefresh(p, s) ==
    /\ \E c \in Producer : published[c] # {}
    /\ Call(p)
    /\ job' = [job EXCEPT ![p] = [NoJob EXCEPT !.op = "refresh", !.phase = "read", !.store = s,
                                              !.unread = {c \in Producer : published[c] # {}}]]
-----------------------------------------------------------------------------
(* initialize, on the first use of a store by a process.                   *)

FirstPhase(p) == CASE job[p].op = "record" -> "commit" [] job[p].op = "publish" -> "observations"
              [] job[p].op = "refresh" -> "compare"

Open(p) == /\ At(p, "open")
           /\ JobGoes(p, IF job[p].store \in opened[p] THEN FirstPhase(p)
                      ELSE IF schema[job[p].store] = "absent" THEN "create" ELSE "tables")
           /\ UNCHANGED <<schema, rows, opened, published, evCalls>>

CreateDatabase(p) ==
    /\ At(p, "create")
    /\ IF schema[job[p].store] # "absent" THEN EndsAs(p, "failed") /\ UNCHANGED schema
       ELSE /\ schema' = [schema EXCEPT ![job[p].store] = "bare"]
            /\ job' = [job EXCEPT ![p].phase = "tables", ![p].created = TRUE]
    /\ UNCHANGED <<rows, opened, published, evCalls>>

(* Tables that are not there are created by the process that has created   *)
(* the database, and are an unknown schema to any other.                   *)
LookAtTables(p) ==
    LET s == job[p].store
    IN /\ At(p, "tables")
       /\ \/ /\ schema[s] = "bare" /\ ~job[p].created
             /\ EndsAs(p, "failed") /\ UNCHANGED opened
          \/ /\ schema[s] = "bare" /\ job[p].created
             /\ JobGoes(p, "migrate") /\ UNCHANGED opened
          \/ /\ schema[s] = "tables"
             /\ JobGoes(p, FirstPhase(p)) /\ opened' = [opened EXCEPT ![p] = @ \union {s}]
       /\ UNCHANGED <<schema, rows, published, evCalls>>

Migrate(p) == LET s == job[p].store
              IN /\ At(p, "migrate")
                 /\ schema' = [schema EXCEPT ![s] = "tables"]
                 /\ opened' = [opened EXCEPT ![p] = @ \union {s}]
                 /\ JobGoes(p, FirstPhase(p))
                 /\ UNCHANGED <<rows, published, evCalls>>
-----------------------------------------------------------------------------
(* execute_transaction: record inserts what is not there; refresh inserts, *)
(* and fails when one of its rows is there by now.  The answer to a commit *)
(* can be lost.                                                            *)
CommitTransaction(p) ==
    LET s == job[p].store
        new == {w \in job[p].got : ~Known(w, rows[s])}
    IN /\ At(p, "commit")
       /\ IF job[p].op = "refresh" /\ new # job[p].got THEN EndsAs(p, "failed") /\ UNCHANGED rows
          ELSE /\ rows' = [rows EXCEPT ![s] = @ \union new]
               /\ EndsAs(p, "none") \/ EndsAs(p, "failed")
       /\ UNCHANGED <<schema, opened, published, evCalls>>
-----------------------------------------------------------------------------
(* publish_evidence: _snapshot_rows is five queries, each of which selects *)
(* by the identifiers that the one before has found; then a temporary file *)
(* replaces the snapshot of the producer.                                  *)

Observed(p) == {w \in Of("observation", Home(p)) : w.key[2] = job[p].producer}

(* Mutant: all evidence of the store, not that of the observations.        *)
EvidenceOfAll(p) == Of("evidence", Home(p))

EvidenceOf(p) == {w \in Of("evidence", Home(p)) : w.key[1] \in Firsts("observation", job[p].got)}
RunsOf(p) == {w \in Of("run", Home(p)) : w.key[1] \in {RunOf(e) : e \in Firsts("evidence", job[p].got)}}
LinksOf(p) == {w \in Of("link", Home(p)) : w.key[1] \in Firsts("run", job[p].got)}
ReceiptsOf(p) == {w \in Of("receipt", Home(p)) : w.key[1] \in {k[2] : k \in KeysOf("link", job[p].got)}}

Select(p, phase, found, next) ==
    /\ At(p, phase)
    /\ job' = [job EXCEPT ![p].got = @ \union found, ![p].phase = next]
    /\ UNCHANGED <<schema, rows, opened, published, evCalls>>

ReadSnapshot(p) ==
    \/ Observed(p) # {} /\ Select(p, "observations", Observed(p), "evidence")
    \/ Select(p, "evidence", EvidenceOf(p), "runs")
    \/ Select(p, "runs", RunsOf(p), "links")
    \/ Select(p, "links", LinksOf(p), "receipts")
    \/ Select(p, "receipts", ReceiptsOf(p), "replace")

Replace(p) == /\ At(p, "replace")
              /\ published' = [published EXCEPT ![job[p].producer] = job[p].got]
              /\ EndsAs(p, "none")
              /\ UNCHANGED <<schema, rows, opened, evCalls>>
-----------------------------------------------------------------------------
(* refresh_evidence: every current snapshot is read and validated, before  *)
(* the store is opened; then its rows are looked up, table by table, and   *)
(* those that are missing become the statements of one transaction.        *)

Tables == <<"run", "receipt", "link", "evidence", "observation">>

Read(p, c) ==
    /\ At(p, "read") /\ c \in job[p].unread
    /\ IF CompleteGraph(c, published[c])
       THEN job' = [job EXCEPT ![p].unread = @ \ {c},
                               ![p].phase = IF job[p].unread = {c} THEN "open" ELSE "read",
                               ![p].batches = @ \o [n \in 1 .. Len(Tables) |-> Of(Tables[n], published[c])]]
       ELSE EndsAs(p, "refused")
    /\ UNCHANGED <<schema, rows, opened, published, evCalls>>

Missing(batch, R) == {w \in batch : ~Known(w, R)}
Conflict(batch, R) == \E w \in batch, v \in R : SameIdentity(v, w) /\ v # w

Compare(p) ==
    LET batch == job[p].batches[1]
    IN /\ At(p, "compare")
       /\ IF Conflict(batch, job[p].got) \/ Conflict(batch, Home(p)) THEN EndsAs(p, "failed")
          ELSE job' = [job EXCEPT ![p].batches = Tail(@), ![p].got = @ \union Missing(batch, Home(p)),
                                  ![p].phase = IF Len(job[p].batches) = 1 THEN "commit" ELSE "compare"]
       /\ UNCHANGED <<schema, rows, opened, published, evCalls>>
-----------------------------------------------------------------------------
(* A statement fails, or there is nothing to publish; a transaction that   *)
(* has not committed is rolled back.                                       *)
StatementFails(p) == /\ ~At(p, "idle")
            /\ EndsAs(p, "failed")
            /\ UNCHANGED <<schema, rows, opened, published, evCalls>>

(* The process dies; another takes its place.                              *)
Dies(p) == /\ ~At(p, "idle")
           /\ job' = [job EXCEPT ![p] = NoJob]
           /\ opened' = [opened EXCEPT ![p] = {}]
           /\ UNCHANGED <<schema, rows, published, evCalls>>

JobStep(p) == \/ Open(p) \/ CreateDatabase(p) \/ LookAtTables(p) \/ Migrate(p)
              \/ CommitTransaction(p) \/ ReadSnapshot(p) \/ Replace(p) \/ Compare(p)
              \/ \E c \in Producer : Read(p, c)
              \/ StatementFails(p) \/ Dies(p)

EvidenceNext ==
    \E p \in EvProcess :
        \/ \E s \in EvStore, c \in Producer :
              \/ \E r \in Report : CallRecord(p, s, r, c)
              \/ CallPublish(p, s, c) \/ CallRefresh(p, s)
        \/ JobStep(p)

EvidenceSpec == EvidenceInit /\ [][EvidenceNext]_evidenceVars
-----------------------------------------------------------------------------
EvidenceTypeOK ==
    /\ schema \in [EvStore -> {"absent", "bare", "tables"}]
    /\ opened \in [EvProcess -> SUBSET EvStore]
    /\ evCalls \in 0 .. MaxCalls
    /\ \A s \in EvStore : rows[s] # {} => schema[s] = "tables"
    /\ \A p \in EvProcess, s \in EvStore : s \in opened[p] => schema[s] = "tables"

(* A store holds complete reports only, each row once, whatever failed or  *)
(* died, and whoever recorded or refreshed at the same time.               *)
StoresComplete ==
    \A s \in EvStore :
        LET R == rows[s]
            observed == Firsts("observation", R)
        IN /\ \A v, w \in R : SameIdentity(v, w) => v = w
           /\ Firsts("evidence", R) = observed
           /\ Firsts("run", R) = {RunOf(e) : e \in observed}
           /\ \A r \in Firsts("run", R) : /\ Records[r] \subseteq observed
                                          /\ Bundle[r] \subseteq Firsts("receipt", R)
                                          /\ {r} \X Bundle[r] \subseteq KeysOf("link", R)

(* What a reader finds published is, at every moment, a complete graph of  *)
(* its producer that any refresh accepts, although it was read from the    *)
(* store by five queries with recordings between them.                     *)
PublishedComplete ==
    /\ \A c \in Producer : published[c] # {} => CompleteGraph(c, published[c])
    /\ \A p \in EvProcess : job[p].ended # "refused"

(* The evidence in the stores, and that published from them, is complete.  *)
EvidenceComplete == StoresComplete /\ PublishedComplete
==============================================================================
