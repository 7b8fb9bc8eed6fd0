------------------------------ MODULE BlobLog -------------------------------
(***************************************************************************)
(* What a blob promises its users: it is an append-only log of             *)
(* transactions.  A transaction is published at the end of the log in one  *)
(* step, by one process at a time; what is published is never changed, and *)
(* once a call has returned Ok nothing up to it is ever lost.  Only a      *)
(* crash of the host may drop transactions, from the end, and only those   *)
(* that no call returned Ok for.                                           *)
(***************************************************************************)
EXTENDS Naturals, Sequences

VARIABLES
  entries,   \* the transactions published, oldest first
  synced     \* how many of them are acknowledged

LogInit == entries = <<>> /\ synced = 0

Publish ==
  /\ Len(entries') = Len(entries) + 1
  /\ entries' = Append(entries, entries'[Len(entries')])
  /\ \A i \in DOMAIN entries : entries'[Len(entries')] # entries[i]
  /\ UNCHANGED synced

Acknowledge ==
  /\ synced' = Len(entries)
  /\ UNCHANGED entries

Crash ==
  /\ \E n \in synced .. Len(entries) : entries' = SubSeq(entries, 1, n)
  /\ UNCHANGED synced

LogNext == Publish \/ Acknowledge \/ Crash

LogSpec == LogInit /\ [][LogNext]_<<entries, synced>>
=============================================================================
