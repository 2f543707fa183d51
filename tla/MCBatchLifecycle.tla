-------------------------- MODULE MCBatchLifecycle --------------------------
(* BatchLifecycle for TLC: small sets given by the configuration.          *)
EXTENDS BatchLifecycle
=============================================================================
