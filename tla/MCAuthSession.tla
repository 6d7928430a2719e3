---------------------------- MODULE MCAuthSession ----------------------------
(* A small instance of AuthSession for TLC.                                *)
EXTENDS AuthSession
=============================================================================
