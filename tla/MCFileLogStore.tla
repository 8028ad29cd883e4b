--------------------------- MODULE MCFileLogStore ---------------------------
(* Small instances of FileLogStore *)
EXTENDS FileLogStore
=============================================================================
