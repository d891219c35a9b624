----------------------------- MODULE MCConnMgr -----------------------------
(* ConnMgr for TLC. *)
EXTENDS ConnMgr
=============================================================================
