--------------------------- MODULE MCMongoRunIndex ---------------------------
(* Small instances of MongoRunIndex for TLC. *)
EXTENDS MongoRunIndex
=============================================================================
