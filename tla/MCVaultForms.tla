---------------------------- MODULE MCVaultForms ----------------------------
(* VaultForms on a small instance: the configuration is VaultForms.cfg.     *)
EXTENDS VaultForms

=============================================================================
