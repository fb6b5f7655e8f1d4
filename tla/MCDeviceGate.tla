---------------------------- MODULE MCDeviceGate ----------------------------
(***************************************************************************)
(* Two operations in one process, two kernel names and three disks: the   *)
(* configured one, another PS2 drive, and a disk of this machine whose     *)
(* first sector still carries an APA header.  Two moves are what it takes  *)
(* to put the configured drive under a new name and another disk under its *)
(* old one.                                                                *)
(***************************************************************************)
EXTENDS DeviceGate, TLC

CONSTANTS sda, sdb, hdd, spare, host, o1, o2, p1

MCPaths == {sda, sdb}
MCDisks == {hdd, spare, host}
MCMounted == {host}
MCOps == {o1, o2}
\* Every pair of different kinds, once.
MCKinds == <<"install", "remove", "create", "files", "repair", "sync", "list">>
MCMixes == UNION {{(o1 :> MCKinds[i]) @@ (o2 :> MCKinds[j]) : j \in i + 1 .. 7} : i \in 1 .. 6}
MCProcs == {p1}
=============================================================================
