------------------------------ MODULE MCCatalog ------------------------------
(* Two workers publish the catalog for one server.                         *)
EXTENDS Catalog

CONSTANTS w1, w2
=============================================================================
