------------------------------ MODULE MCBackup ------------------------------
(* The backup domain for TLC: boards with and without a crystal that may    *)
(* fail, one that accepts a change of the clock source and one that does    *)
(* not.                                                                     *)
EXTENDS Backup

Boards == [chip : {"h7", "l4"}, source : {"lse", "lsi"}, change : BOOLEAN,
           lse_enable : BOOLEAN, lse_backup_reset : BOOLEAN]
=============================================================================
