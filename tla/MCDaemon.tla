------------------------------ MODULE MCDaemon ------------------------------
(* A small instance of Daemon for TLC. *)
EXTENDS Daemon, TLC

CONSTANTS c, r      \* the consumer and an RPC goroutine
=============================================================================
