----------------------------- MODULE MCLifecycle -----------------------------
(* The exit daemon on small instances; the runs differ in callers only.    *)
EXTENDS Lifecycle
=============================================================================
