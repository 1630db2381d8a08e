------------------------------ MODULE MCBrowser -----------------------------
(* Browser for TLC: every value is given in the configuration.  There is no   *)
(* symmetry: the properties checked are liveness properties.                  *)
EXTENDS Browser
=============================================================================
