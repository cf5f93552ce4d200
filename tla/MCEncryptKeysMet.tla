-------------------------- MODULE MCEncryptKeysMet --------------------------
(***************************************************************************)
(* EncryptKeysMet for TLC, with the constants of MCEncryptKeys.            *)
(***************************************************************************)
EXTENDS EncryptKeysMet, MCEncryptKeys
=============================================================================
