------------------------------ MODULE MCBackup ------------------------------
(***************************************************************************)
(* Backups of one day, under the tiers of selectExpiredBackupIds.          *)
(***************************************************************************)
EXTENDS BackupHistory, TLC

CONSTANTS b1, b2, b3, w1, p1, p2

SameDay == [c \in 1..(2 * Cardinality(Id)) |-> 1]

TiersOfTheCode == {[period |-> SameDay, limit |-> n] : n \in {7, 4, 12}}

Symmetry == Permutations(Id) \cup Permutations(Process)

=============================================================================
