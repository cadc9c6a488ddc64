---------------------------- MODULE MCTokenStore ----------------------------
(* TokenStore with a few tokens, all of them alike. *)
EXTENDS TokenStore
=============================================================================
