-------------------------------- MODULE MCAta --------------------------------
(* An instance of Ata for TLC: registers of three values, so that every one *)
(* of them takes part in the address, and sectors of two words.             *)
EXTENDS Ata

SomeReads == [lba : {0, 1, 2, 3, 7, 8, 9, 13, 26, 27, 28, 35, 50, 51}, total : 1 .. 3]

FirstSectors == [lba |-> 1, total |-> 2]

=============================================================================
