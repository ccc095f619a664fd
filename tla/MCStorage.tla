------------------------------- MODULE MCStorage -------------------------------
(* Instances for TLC of what is kept: the writer of one file; the same      *)
(* writer where journals may be torn and saves fail at any call; the        *)
(* session store over its catalog of files; and one session of it between   *)
(* the terminal clients that write to it.  They share nothing, so each      *)
(* behaviour is one of one of them, the others rest.                        *)
EXTENDS FileStore, SessionCatalog, SessionLease, TLC

CONSTANT LeftoverSaves   (* the saves of the second writer                  *)

ASSUME LeftoverAssumption == LeftoverSaves \in Nat \ {0}

VARIABLES
  part,                  (* what moves                                      *)
  path2, temp2, backup2, journal2, pc2, cur2, started2, allowed2, loaded2

Leftovers == INSTANCE FileStore WITH
  Saves <- LeftoverSaves, Torn <- TRUE, StuckMid <- TRUE,
  path <- path2, temp <- temp2, backup <- backup2, journal <- journal2, pc <- pc2,
  cur <- cur2, started <- started2, allowed <- allowed2, loaded <- loaded2

leftovers == <<path2, temp2, backup2, journal2, pc2, cur2, started2, allowed2, loaded2>>

all == <<vars, leftovers, catalog, lease, part>>

StorageInit ==
  /\ part \in {"file", "leftovers", "catalog", "clients"}
  /\ Init /\ Leftovers!Init /\ CatalogInit /\ LeaseInit

StorageNext ==
  /\ \/ part = "file" /\ Next /\ UNCHANGED <<leftovers, catalog, lease>>
     \/ part = "leftovers" /\ Leftovers!Next /\ UNCHANGED <<vars, catalog, lease>>
     \/ part = "catalog" /\ CatalogNext /\ UNCHANGED <<vars, leftovers, lease>>
     \/ part = "clients" /\ LeaseNext /\ UNCHANGED <<vars, leftovers, catalog>>
  /\ UNCHANGED part

StorageSpec == StorageInit /\ [][StorageNext]_all

(* SuccessKept of the writer with torn journals and failures at any call.  *)
SuccessKeptOverLeftovers == Leftovers!SuccessKept

Alike == Permutations(Events)
=============================================================================
