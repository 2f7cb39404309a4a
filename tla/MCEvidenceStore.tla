--------------------------- MODULE MCEvidenceStore ---------------------------
(***************************************************************************)
(* Two reports for EvidenceStore: one has two receipts and two records,    *)
(* and they share a receipt.                                               *)
(***************************************************************************)
EXTENDS EvidenceStore

CONSTANTS report1, report2, receipt1, receipt2, record1, record2, record3

MCBundle == [r \in Report |-> IF r = report1 THEN {receipt1, receipt2} ELSE {receipt2}]
MCRecords == [r \in Report |-> IF r = report1 THEN {record1, record2} ELSE {record3}]
=============================================================================
