----------------------------- MODULE MCGptBoot -----------------------------
(* Instances of GptBoot for TLC. *)
EXTENDS GptBoot

Rejected == {-3}
ArmedFlags == {{}, {"me"}, {"me", "once"}}
=============================================================================
