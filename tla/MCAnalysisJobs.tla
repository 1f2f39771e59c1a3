--------------------------- MODULE MCAnalysisJobs ---------------------------
(* TLC instances of AnalysisJobs. *)
EXTENDS AnalysisJobs, TLC

\* Stories, workers, models and decisions are interchangeable in the safety runs.
Symmetry == Permutations(Stories) \cup Permutations(Workers)
                \cup Permutations(Models) \cup Permutations(Decisions)

============================================================================
