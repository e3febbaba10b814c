------------------------------- MODULE MCWal -------------------------------
(* The log in regions of a few bytes.                                      *)
EXTENDS Wal, TLC

ReaderSymmetry == Permutations(Readers)


=============================================================================
