----------------------------- MODULE MCPartition ------------------------------
(* Instance for TLC.  Sectors 0..5; the byte address of a sector wraps at  *)
(* 5.  Disk "chain" has two logical and a primary partition, one more than *)
(* fits; "plain" a primary partition of two sectors; "far" an EBR at       *)
(* sector 5, which is read from sector 0, so that its chain never ends;    *)
(* "loop" a chain whose second record names the first as its successor;    *)
(* "high" one record, at sector 5.                                         *)
EXTENDS Partition

Free == [extended |-> FALSE, start |-> 0, count |-> 0]
Data(start, count) == [extended |-> FALSE, start |-> start, count |-> count]
Ext(start) == [extended |-> TRUE, start |-> start, count |-> 1]
Blank == [sig |-> FALSE, entry |-> <<Free, Free, Free, Free>>]
Table(e1, e2) == [sig |-> TRUE, entry |-> <<e1, e2, Free, Free>>]

MCLayout == [d \in Disks |->
    [lba \in 0..5 |->
        CASE d = "chain" /\ lba = 0 -> Table(Ext(2), Data(1, 1))
          [] d = "chain" /\ lba = 2 -> Table(Data(3, 1), Data(4, 1))
          [] d = "chain" /\ lba = 4 -> Table(Data(5, 1), Free)
          [] d = "plain" /\ lba = 0 -> Table(Free, Data(1, 2))
          [] d = "far" /\ lba = 0 -> Table(Data(1, 1), Ext(5))
          [] d = "far" /\ lba = 5 -> Table(Data(2, 1), Free)
          [] d = "loop" /\ lba = 0 -> Table(Ext(2), Free)
          [] d = "loop" /\ lba = 2 -> Table(Data(3, 1), Data(4, 1))
          [] d = "loop" /\ lba = 4 -> Table(Data(5, 1), Data(2, 1))
          [] d = "high" /\ lba = 0 -> Table(Ext(5), Free)
          [] d = "high" /\ lba = 5 -> Table(Data(2, 1), Free)
          [] OTHER -> Blank]]
===============================================================================
