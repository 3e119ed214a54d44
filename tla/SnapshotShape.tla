--------------------------- MODULE SnapshotShape ---------------------------
(* What a snapshot directory consists of: blobs, each cut into chunks, and *)
(* the files of the wasm chunk store.                                      *)
EXTENDS Naturals, Sequences, FiniteSets

CONSTANTS
    Order,          \* the blobs, in the order they are transferred
    Chunks,         \* number of chunks of each blob
    Hashes          \* the wasm chunk store

Blobs == {Order[k] : k \in 1 .. Len(Order)}

(* A piece is a chunk of a blob.                                           *)
Pieces == UNION {{b} \X (0 .. Chunks[b] - 1) : b \in Blobs}

ASSUME OrderAssumption ==
    /\ Order \in Seq(Blobs)
    /\ \A j, k \in 1 .. Len(Order) : Order[j] = Order[k] => j = k
    /\ Chunks \in [Blobs -> Nat]
=============================================================================
