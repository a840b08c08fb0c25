-------------------------- MODULE MCEmbeddedWorker --------------------------
(***************************************************************************)
(* Two files, a channel of one slot so that the source blocks.             *)
(***************************************************************************)
EXTENDS EmbeddedWorker, TLC

CONSTANTS a, b
=============================================================================
