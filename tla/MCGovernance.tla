----------------------------- MODULE MCGovernance -----------------------------
(***************************************************************************)
(* Instances of the governance contract for TLC, and what its documents    *)
(* and tests say of it that the code does not do.                          *)
(***************************************************************************)
EXTENDS GovernanceProps, TLC

CONSTANTS ann, ben, cleo

call(op) == [target |-> "factory", op |-> op]
single(op) == [size |-> 1, batch |-> FALSE, calls |-> <<call(op)>>]

Batch(calls) == [size |-> Len(calls), batch |-> TRUE, calls |-> calls]

\* A batch that runs, one that execute refuses, and calldata that propose
\* refuses.
SomePayloads ==
    { Batch(<<call("Noop"), call("FactorySetAdmin")>>),
      Batch(<<call("FactorySetCap"), call("Batch")>>),
      [single("FactorySetCap") EXCEPT !.size = 0],
      [single("FactorySetCap") EXCEPT !.size = 4] }

\* For the runs that are not about payloads.
OnePayload == { single("FactorySetCap") }

SignerSymmetry == Permutations(InitialSigners)

\* lib.rs:1028, set_threshold: "Proposals that already reached quorum are not
\* retroactively affected"; lib.rs:3435 tests the same of update_threshold.
ThresholdChangeSparesQueued ==
    [][ threshold' # threshold =>
            \A id \in DOMAIN proposals : is_executable(id) => is_executable(id)' ]_vars
===============================================================================
