----------------------------- MODULE MCUploads ------------------------------
(***************************************************************************)
(* Two files, so that a batch may end partial and a verdict be rolled back *)
(* after another one; two requests that race for the batch's lock.         *)
(***************************************************************************)
EXTENDS Uploads

CONSTANTS r1, r2

MCRequests == {r1, r2}
=============================================================================
