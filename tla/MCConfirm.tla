----------------------------- MODULE MCConfirm -----------------------------
(* Confirm on small instances: an ask of the agent loop, one of a command  *)
(* that only lives in the process and one of a background job.             *)
EXTENDS Confirm

CONSTANTS event, forget, slack, text, voice
=============================================================================
