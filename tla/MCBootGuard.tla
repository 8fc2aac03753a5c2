----------------------------- MODULE MCBootGuard -----------------------------
(* Instances of BootGuard small enough for TLC. *)
EXTENDS BootGuard

CONSTANTS old, new

MCImage == {old, new}

\* The new image is the longer one: a stale length cuts it short.
MCSize == [i \in MCImage |-> IF i = old THEN 1 ELSE 2]
MCSound == {old}
AllCommands == {"backup", "confirm", "restore", "arm", "stage", "flash"}
BackupCommands == {"backup", "arm", "flash"}
=============================================================================
