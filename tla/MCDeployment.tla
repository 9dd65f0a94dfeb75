---------------------------- MODULE MCDeployment ----------------------------
(***************************************************************************)
(* The instance of the deployment for TLC.                                 *)
(***************************************************************************)
EXTENDS Deployment, TLC

CONSTANTS alice, bob, carol, usdc, pool, elsewhere_contract

\* One short stream that cannot be paused.
ShortOffer ==
    { [deposit |-> 2, start_time |-> 0, end_time |-> 1, cliff_time |-> 0,
       cancellable |-> TRUE, pausable |-> FALSE, transferable |-> TRUE] }

\* All are interchangeable but the first admin.
PartySymmetry == Permutations(Addresses \ {FirstAdmin})
=============================================================================
