----------------------------- MODULE MCMigration -----------------------------
(* Instances of Migration for TLC. *)
EXTENDS Migration, TLC

CONSTANTS b1, b2, r1, s1, v1, v2, v3

Kinds == (b1 :> "image_bump") @@ (b2 :> "image_bump") @@ (r1 :> "project_reload")
         @@ (s1 :> "schema_migration")
NewImages == (b1 :> v2) @@ (b2 :> v3) @@ (r1 :> v1) @@ (s1 :> v1)
KindOf == [m \in Migrations |-> Kinds[m]]
NewImageOf == [m \in Migrations |-> NewImages[m]]
=============================================================================
