---------------------------- MODULE CatalogBase -----------------------------
(***************************************************************************)
(* The two sets every component of the server is indexed by.               *)
(***************************************************************************)
CONSTANTS
    Names,     \* table names
    Threads,   \* gRPC server threads, one request each at a time
    NoThread   \* nobody

ASSUME NoThreadAssumption == NoThread \notin Threads

=============================================================================
