-------------------------- MODULE MCProcessMonitor --------------------------
(* Two processes, one of which is still to be uploaded.                      *)
EXTENDS ProcessMonitor

MCFilters == {[status |-> "all", validation |-> "all"],
              [status |-> "success", validation |-> "APROBADO"]}
=============================================================================
