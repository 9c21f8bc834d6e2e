--------------------------- MODULE MCDriftDetection ---------------------------
(* Small instances of DriftDetection. *)
EXTENDS DriftDetection

CONSTANTS r1, r2, r3

\* drift-detection.yml:9 calls the nightly diagnostic the canonical drift
\* signal: it never says clean of a drift job that did not succeed.
CleanMeansSucceeded == \A d \in diag : d.status = "clean" => d.result = "success"
===============================================================================
