--------------------------------- MODULE Rent ---------------------------------
(***************************************************************************)
(* What the host does with the time to live of a storage entry.  An entry  *)
(* is live up to and including the ledger recorded for it; after that it   *)
(* is archived: a call that touches it fails until somebody restores it,   *)
(* and nothing of it is lost.  Instants are counted in ledgers.            *)
(***************************************************************************)
EXTENDS Integers

CONSTANT
    min_persistent_ttl  \* the network gives this to a new or restored entry

ASSUME RentAssumption == min_persistent_ttl \in Nat \ {0}

created_until(at) == at + min_persistent_ttl - 1

\* extend_ttl(threshold, extend_to): nothing happens to an entry that has more
\* than threshold ledgers left, and no entry's life is ever shortened.
extended_until(until, at, threshold, extend_to) ==
    IF until - at <= threshold /\ at + extend_to > until THEN at + extend_to ELSE until

is_live(until, at) == at <= until
===============================================================================
