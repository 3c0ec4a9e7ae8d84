--------------------------- MODULE MCAdmissionGate ---------------------------
(* Three threads on one heap; TLC instance of AdmissionGate. *)
EXTENDS AdmissionGate

CONSTANTS t1, t2, t3

MCThreads == {t1, t2, t3}
=============================================================================
