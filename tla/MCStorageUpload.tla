-------------------------- MODULE MCStorageUpload --------------------------
(* StorageUpload for TLC: a user of the interface and one of the Python client. *)
EXTENDS StorageUpload, TLC

CONSTANTS interface, python

MCChunksOf == [u \in Users |-> IF u = interface THEN 2 ELSE 1]
MCTriesOf == [u \in Users |-> IF u = interface THEN 2 ELSE 1]

\* Threads and upload ids are interchangeable.
Symmetry == Permutations(Requests) \cup Permutations(Uploads)
===========================================================================
