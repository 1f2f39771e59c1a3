--------------------------- MODULE MCEventIngest ----------------------------
EXTENDS EventIngest, TLC

CONSTANTS ready, invalidated, invalidatedAgain, evReady, evInvalidated,
          r1, r2, w1, w2, setup

\* One setup: its readiness, a later invalidation, and the evidence of that
\* invalidation again with other metadata.
MCEventType ==
    ready :> "SNR_BREAK_READY"
    @@ invalidated :> "SETUP_INVALIDATED" @@ invalidatedAgain :> "SETUP_INVALIDATED"
MCEvidenceOf ==
    ready :> evReady @@ invalidated :> evInvalidated @@ invalidatedAgain :> evInvalidated
MCSetupOf == [e \in Events |-> setup]
MCOccurredAt == ready :> 2 @@ invalidated :> 3 @@ invalidatedAgain :> 1

Symmetry == Permutations(Receivers) \cup Permutations(Workers)

============================================================================
