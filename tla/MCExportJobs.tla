---------------------------- MODULE MCExportJobs ----------------------------
(* Instances of ExportJobs for TLC.                                        *)
EXTENDS ExportJobs, TLC

Symmetry == Permutations(Operators)

=============================================================================
