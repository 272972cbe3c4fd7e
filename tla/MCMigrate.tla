------------------------------ MODULE MCMigrate ------------------------------
(* Instances of a service migrate the same database at the same time; m1   *)
(* is of an older release, whose list of migrations ends earlier.          *)
EXTENDS Migrate, TLC

CONSTANTS m1, m2, m3, v1, v2

TwoMigrators   == {m1, m2}
ThreeMigrators == {m1, m2, m3}
TwoVersions    == {v1, v2}

TwoLists   == (m1 :> <<v1>>) @@ (m2 :> <<v1, v2>>)
ThreeLists == TwoLists @@ (m3 :> <<v1, v2>>)

(* The callers are releases as SchemaHasNoGap of MigrateProofs has them.   *)
ASSUME ReleasesOfOne == Releases(<<v1, v2>>)
=============================================================================
