------------------------------ MODULE MCConfigFile ------------------------------
(***************************************************************************)
(* ConfigFile with two interchangeable promoters, two commits, one edit    *)
(* and one check.                                                          *)
(***************************************************************************)
EXTENDS ConfigFile, TLC

Table(kind, rev, mode) ==
  [baseline |-> "table", kind |-> kind, rev |-> rev, mode |-> mode, rest |-> 0]

MCRev == {"old", "new"}
MCSaves ==
  { Table("Git", "old", Unset), Table("Git", Unset, "Workspace"),
    Table("CratesIo", "old", "Changed"),
    [Table("Git", "old", "Changed") EXCEPT !.baseline = "inline"] }

Symmetry == Permutations(Promoters)

=============================================================================
