-------------------------- MODULE MCPromiseMirror --------------------------
(* PromiseMirror with two writers that may overlap across a restart and    *)
(* one read in progress.                                                   *)
EXTENDS PromiseMirror

CONSTANTS old, new, reader
=============================================================================
