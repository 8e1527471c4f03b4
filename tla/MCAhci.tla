-------------------------------- MODULE MCAhci --------------------------------
(* Instance for TLC: two ports, two disks of two sectors of two bytes, so  *)
(* that a transfer can lie in one sector, fill one or cross into the next. *)
EXTENDS Ahci

MCAtBoot == [p \in 0..1 |-> IF p = 0 THEN "d1" ELSE "d2"]
(* Over the boundary of the two sectors, the first byte of a sector, all   *)
(* of it, and past the end of the disk.                                    *)
MCRequests == {<<1, 2>>, <<2, 1>>, <<2, 2>>, <<3, 2>>}
MCPayload == [j \in 0..1 |-> j + 1]
===============================================================================
