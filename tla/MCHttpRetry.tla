---------------------------- MODULE MCHttpRetry ----------------------------
(***************************************************************************)
(* Small instances of HttpRetry: one retriable and one fatal status.       *)
(***************************************************************************)
EXTENDS HttpRetry

MCCodes == {400, 503}
=============================================================================
