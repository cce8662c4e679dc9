---------------------------- MODULE SecureTempMC ----------------------------
(* The instance of SecureTemp that TLC checks.                              *)
EXTENDS SecureTemp

CONSTANTS artifact, directory, maker, s1, s2

=============================================================================
