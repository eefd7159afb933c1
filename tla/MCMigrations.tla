---------------------------- MODULE MCMigrations ----------------------------
(* Databases in which nothing, or some of the tables that migrations       *)
(* create or refer to out of order, was made by a synchronisation; a       *)
(* version for each file added.                                            *)
EXTENDS Migrations

MCExisting == SUBSET {"store", "user_entity", "contact_information_entity",
                      "attendance_entity", "inventory", "category_entity"}

MCVersion == {1..n : n \in 0..Len(Migration)}

=============================================================================
