--------------------------- MODULE MCSandboxTests ---------------------------
(* SandboxTests with the official cases of three tasks. *)
EXTENDS SandboxTests, OfficialCases

=============================================================================
