------------------------ MODULE MCCanonicalConfig ------------------------
(* Instances of CanonicalConfig for TLC. *)
EXTENDS CanonicalConfig

\* Everybody but "hermes", which decides a key that an overlapping
\* "provision" saves as it was.
Everyone == AllScripts \ {"hermes"}

StaleSave == {"provision", "hermes"}
==========================================================================
