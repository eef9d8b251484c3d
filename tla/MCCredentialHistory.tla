------------------------- MODULE MCCredentialHistory -------------------------
(* CredentialHistory on the instances of MCUserManager. *)
EXTENDS CredentialHistory, MCUserManager
=============================================================================
