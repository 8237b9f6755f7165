--------------------------- MODULE MCProcessFiles ---------------------------
EXTENDS ProcessFiles

(* An empty file and one of two bytes.                                      *)
MCInodes == {0, 1}

MCFileSize == [inode \in MCInodes |-> 2 * inode]
=============================================================================
