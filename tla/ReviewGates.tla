---------------------------- MODULE ReviewGates -----------------------------
(***************************************************************************)
(* The deterministic gates around the model call of an AI review           *)
(* (project_a_ai_review/gates.py and parser.py).  Prices are counted in    *)
(* the smallest decimal of the request, times are those of the trusted     *)
(* clock.  What a check reads from files, hashes and the JSON schema is    *)
(* one Boolean of the dispatch or of the candidate.                        *)
(***************************************************************************)
EXTENDS Integers, Checks

Directions == {"LONG", "SHORT"}
Actionable == {"APPROVE", "MODIFY"}
Verdicts == Actionable \cup {"REJECT", "EXPIRED"}
MaxSpread == 10

Distance(a, b) == IF a < b THEN b - a ELSE a - b

Aligned(price, point) == price > 0 /\ price % point = 0

\* recompute_rr: aligned prices on the right sides of the entry, at equal
\* distances.
RatioFailure(direction, g, point) ==
    FirstFailure(<<
        <<point <= 0, "RR_FAILURE">>,
        <<point > 0 /\ ~(Aligned(g.entry, point) /\ Aligned(g.sl, point) /\ Aligned(g.tp, point)),
          "RR_FAILURE">>,
        <<direction = "LONG" /\ ~(g.sl < g.entry /\ g.entry < g.tp), "RR_FAILURE">>,
        <<direction = "SHORT" /\ ~(g.tp < g.entry /\ g.entry < g.sl), "RR_FAILURE">>,
        <<\/ Distance(g.entry, g.sl) = 0
          \/ Distance(g.entry, g.sl) # Distance(g.tp, g.entry), "RR_FAILURE">> >>)

\* preflight, run by every review, those answered from the cache too.
Preflight(d, now, policy) ==
    FirstFailure(<<
        <<~d.schema, "INPUT_SCHEMA_REJECTED">>,
        <<d.created - now > policy.maxSkew, "INPUT_FUTURE_DATED">>,
        <<now >= d.expires, "INPUT_EXPIRED">>,
        <<now - d.created > policy.maxAge, "INPUT_STALE">>,
        <<~d.venue, "INPUT_SCHEMA_REJECTED">>,
        <<~d.hashes, "MANIFEST_HASH_MISMATCH">>,
        <<~d.evidence, "REQUIRED_EVIDENCE_MISSING">>,
        <<~d.artifacts, "ARTIFACT_HASH_MISMATCH">>,
        <<RatioFailure(d.hypothesis, d.geometry, d.point) # "OK", "RR_FAILURE">> >>)

\* Mutant: the clock is not looked at again when the answer arrives.
PostValidateWithoutClock(c, d, now) ==
    FirstFailure(<<
        <<~c.schema, "OUTPUT_SCHEMA_FAILURE">>,
        <<~c.identity, "IDENTIFIER_MISMATCH">>,
        <<~c.cited, "EVIDENCE_REFERENCE_MISMATCH">>,
        <<d.spread > MaxSpread, "SPREAD_FAILURE">>,
        <<c.verdict \in Actionable /\ c.until > d.expires, "EXPIRY_FAILURE">>,
        <<c.verdict \in Actionable /\ RatioFailure(d.hypothesis, c.geometry, d.point) # "OK",
          "RR_FAILURE">>,
        <<c.verdict = "APPROVE" /\ (c.geometry # d.geometry \/ c.until # d.expires),
          "MODIFY_SCOPE_FAILURE">> >>)

\* parse_model_json and post_validate, of a fresh answer and of a cached one.
PostValidate(c, d, now) ==
    FirstFailure(<<
        <<~c.json, "MALFORMED_MODEL_OUTPUT">>,
        <<~c.schema, "OUTPUT_SCHEMA_FAILURE">>,
        <<~c.identity, "IDENTIFIER_MISMATCH">>,
        <<~c.cited, "EVIDENCE_REFERENCE_MISMATCH">>,
        <<c.verdict = "EXPIRED" /\ now < d.expires, "EXPIRY_FAILURE">>,
        <<now >= d.expires /\ c.verdict # "EXPIRED", "EXPIRY_FAILURE">>,
        <<d.spread > MaxSpread, "SPREAD_FAILURE">>,
        <<c.verdict \in Actionable /\ (c.until > d.expires \/ c.until <= now), "EXPIRY_FAILURE">>,
        <<c.verdict \in Actionable /\ RatioFailure(d.hypothesis, c.geometry, d.point) # "OK",
          "RR_FAILURE">>,
        <<c.verdict = "APPROVE" /\ (c.geometry # d.geometry \/ c.until # d.expires),
          "MODIFY_SCOPE_FAILURE">> >>)

\* OpenClawCliClient.invoke: the answer of one model process.  A reply that
\* fails no check carries the candidate of its text.
Invocation(reply) ==
    FirstFailure(<<
        <<~reply.installed, "OPENCLAW_UNAVAILABLE">>,
        <<~reply.version, "CONFIG_INVALID">>,
        <<reply.exit = "timeout", "MODEL_TIMEOUT">>,
        <<reply.exit = "error", reply.stderr>>,
        <<~reply.envelope, "SESSION_FAILURE">>,
        <<reply.embedded, "SESSION_FAILURE">>,
        <<reply.candidate.empty, "SESSION_FAILURE">> >>)
=============================================================================
