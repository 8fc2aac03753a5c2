-------------------------------- MODULE MCOta --------------------------------
(* Instances of Ota small enough for TLC. *)
EXTENDS Ota

CONSTANTS old, new

MCImage == {old, new}
MCSize == [i \in MCImage |-> IF i = old THEN 1 ELSE 2]
MCSound == {old}
MCCommands == {"backup", "stage", "flash"}
=============================================================================
