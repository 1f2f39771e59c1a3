---------------------------- MODULE MCReviewAudit ----------------------------
(***************************************************************************)
(* Two reviewers of one request.  A second dispatch has another            *)
(* fingerprint and a later expiry; the model approves, rejects or hangs.   *)
(***************************************************************************)
EXTENDS ReviewAudit

mcGeometry == [entry |-> 10, sl |-> 8, tp |-> 12]
mcPolicy == [maxAge |-> 3, maxSkew |-> 1]

mcDispatch(fingerprint, until) ==
    [fingerprint |-> fingerprint, schema |-> TRUE, created |-> 0, expires |-> until,
     venue |-> TRUE, hashes |-> TRUE, evidence |-> TRUE, artifacts |-> TRUE,
     hypothesis |-> "LONG", geometry |-> mcGeometry, point |-> 1, spread |-> 3]
mcDispatches == {mcDispatch("f1", 1), mcDispatch("f2", 2)}

mcReply(verdict) ==
    [installed |-> TRUE, version |-> TRUE, exit |-> "ok", stderr |-> "OK",
     envelope |-> TRUE, embedded |-> FALSE,
     candidate |-> [json |-> TRUE, schema |-> TRUE, identity |-> TRUE, cited |-> TRUE,
                    empty |-> FALSE, verdict |-> verdict, until |-> 1, geometry |-> mcGeometry]]
mcReplies == {mcReply("APPROVE"), mcReply("REJECT"), [mcReply("REJECT") EXCEPT !.exit = "timeout"]}
=============================================================================
