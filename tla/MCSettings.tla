----------------------------- MODULE MCSettings -----------------------------
(* Small instances of Settings.  12 is a number whose decimal and            *)
(* hexadecimal digits differ; JiaBaoInterval is in the default file, H43 is  *)
(* not.                                                                      *)
EXTENDS Settings

OneAndTwelve == {1, 12}
Keys == {"JiaBaoInterval", "H43"}
Values == {0, 5}
File(no, jia) == [terminalNo |-> no, passwd |-> no, normal |-> TRUE,
                  runtime |-> [k \in Keys |-> IF k = "H43" THEN NoVal ELSE jia]]
FactoryFile == File(1, 5)
InstalledFile == File(2, 0)
=============================================================================
