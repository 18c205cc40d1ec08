---------------------------- MODULE MCSendMode ----------------------------
(* Small instances of SendMode.                                              *)
EXTENDS SendMode

Xiaoshi == {"34H"}
TwoCommands == {"47H", "48H"}
FactoryCommands == {"48H"}
Confirms == {"EOT"}
=============================================================================
