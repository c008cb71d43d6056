---------------------------- MODULE MCBastionHttp ----------------------------
(* BastionHttp for TLC: images on the default port, and one on the ignition's. *)
EXTENDS BastionHttp, TLC

CONSTANTS m1, m2, m3

DefaultAndIgnitionPort == m1 :> "8081" @@ m2 :> "8081" @@ m3 :> "8080"
=============================================================================
