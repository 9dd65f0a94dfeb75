------------------------------ MODULE MCStream ------------------------------
(***************************************************************************)
(* Instances of the stream contract for TLC: the offers create_stream is   *)
(* called with in each run.  The other constants are in the cfg files.     *)
(***************************************************************************)
EXTENDS StreamProps, TLC

CONSTANTS alice, bob, carol, dave, usdc, eurc, pool

offer(d, b, e, c) ==
    [deposit |-> d, start_time |-> b, end_time |-> e, cliff_time |-> c,
     cancellable |-> TRUE, pausable |-> TRUE, transferable |-> TRUE]

\* Every flag set; deposits the duration divides and deposits it does not,
\* starts now and in the future, every cliff, and arguments that are refused.
ScheduleOffers ==
    { offer(d, b, e, c) :
        d \in {0, 3, 4, 7}, b \in {0, 2}, e \in 2 .. 5, c \in {0, 2, 3, 5} }

\* One deposit that the duration divides and one it does not, one with a
\* cliff, for runs with several streams.
PoolOffers ==
    { [offer(2, 0, 2, 0) EXCEPT !.pausable = FALSE],
      [offer(3, 1, 3, 2) EXCEPT !.cancellable = FALSE] }

\* The same schedule with every flag, and lacking each one of them.
FlagOffers ==
    LET o == offer(5, 1, 3, 2)
    IN  { o, [o EXCEPT !.cancellable = FALSE], [o EXCEPT !.pausable = FALSE],
             [o EXCEPT !.transferable = FALSE] }

\* One short stream, for time in ledgers of several seconds.
BriefOffer == { offer(3, 1, 3, 2) }

\* Parties are interchangeable, and so are tokens; no run with liveness
\* properties uses this.
PartySymmetry == Permutations(Addresses)
DelegationSymmetry == Permutations(Addresses \ Delegates)
PoolSymmetry == Permutations(Addresses) \cup Permutations(Tokens)
=============================================================================
