------------------------------ MODULE MCFileIO ------------------------------
(* Files of up to six bytes: several short writes before the last one.    *)
EXTENDS FileIO
=============================================================================
