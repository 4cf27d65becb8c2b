-------------------------- MODULE MCIcebergCommit --------------------------
(* Small instances of IcebergCommit for TLC.                               *)
EXTENDS IcebergCommit, TLC

\* Writers are interchangeable in every safety property.
WriterSymmetry == Permutations(Writers)

=============================================================================
