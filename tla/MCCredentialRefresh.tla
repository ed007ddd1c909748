-------------------------- MODULE MCCredentialRefresh ---------------------------
(* Small instances of CredentialRefresh. *)
EXTENDS CredentialRefresh

CONSTANTS c1, c2, c3

===============================================================================
