---------------------------- MODULE MCStreamBridge ----------------------------
(* Instances of StreamBridge for TLC; the bounds are in the .cfg files.    *)
EXTENDS StreamBridge
=============================================================================
