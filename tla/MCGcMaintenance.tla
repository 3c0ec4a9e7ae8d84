--------------------------- MODULE MCGcMaintenance ---------------------------
(* Small instances of GcMaintenance. *)
EXTENDS GcMaintenance, TLC

CONSTANTS host, other, client, worker

NoThreads == {}
OneHost == {host}
TwoHosts == {host, other}
OneClient == {client}
OneWorker == {worker}

=============================================================================
