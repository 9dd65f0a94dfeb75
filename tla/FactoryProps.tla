----------------------------- MODULE FactoryProps -----------------------------
(***************************************************************************)
(* What the factory promises on its own: whatever it is called with, and   *)
(* whatever the stream contract does with the creations passed on to it.   *)
(***************************************************************************)
EXTENDS Factory

CONSTANT FactoryOffers  \* arguments of create_stream

FactoryNext ==
    \/ ledger' = ledger + 1 /\ UNCHANGED factoryVars
    \/ /\ \/ AdminCall
          \/ \E a \in Addresses : record_creation(a)
          \/ \E a, b \in Addresses, o \in FactoryOffers : create_stream(a, b, o)
          \/ \E c \in StreamContracts : stream_terminated(c)
       /\ UNCHANGED ledger

FactorySpec == FactoryInit /\ ledger = 0 /\ [][FactoryNext]_<<ledger, factoryVars>>

-----------------------------------------------------------------------------
\* Every setting and every counter keeps its width.
FactoryTypeOK ==
    /\ ledger \in Nat
    /\ factory \in FactoryConfig
    /\ pending_admin \in Addresses \cup {None} /\ nominated_by \in Addresses \cup {None}
    /\ allowlist \subseteq Addresses /\ token_allowlist \subseteq ApprovableTokens
    /\ DOMAIN recorded = DOMAIN buckets /\ DOMAIN buckets \subseteq Addresses
    /\ \A s \in DOMAIN buckets :
          buckets[s] \in RateLimitBucket /\ recorded[s] \in Seq(0 .. ledger)

\* The bounds are set by different calls, in any order, and never cross: there
\* is always a duration and a rate the policy allows, and a deposit.
PolicyCoheres ==
    /\ factory.min_duration <= factory.max_duration
    /\ factory.min_rate_per_second # None /\ factory.max_rate_per_second # None =>
          factory.min_rate_per_second <= factory.max_rate_per_second
    /\ factory.max_deposit > 0
    /\ factory.max_creations_per_window > 0 /\ factory.rate_limit_window_ledgers > 0

\* Who can become admin by accept_admin was nominated by the present admin: a
\* nomination does not outlive, through set_admin or a second nomination, the
\* authority it was made with.
NominationIsCurrent ==
    /\ pending_admin # None <=> nominated_by # None
    /\ pending_admin # None => nominated_by = factory.admin
    /\ factory.admin \notin ForbiddenAdmins /\ pending_admin \notin ForbiddenAdmins

\* A fixed window lets a burst pass at its end and another at the start of the
\* next.  As a window starts with a creation, that is all: within any
\* rate_limit_window_ledgers ledgers under one setting of the limit a sender
\* records less than twice the limit.
BurstIsBounded ==
    \A s \in DOMAIN recorded :
        Cardinality({i \in DOMAIN recorded[s] :
                        recorded[s][i] > ledger - factory.rate_limit_window_ledgers})
            < 2 * factory.max_creations_per_window
===============================================================================
