----------------------------- MODULE MCRefresh -----------------------------
(* Refresh on small instances: the configurations are Refresh*.cfg.          *)
EXTENDS Refresh

=============================================================================
