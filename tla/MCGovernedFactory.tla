-------------------------- MODULE MCGovernedFactory --------------------------
(***************************************************************************)
(* The instance of the governed factory for TLC.                           *)
(***************************************************************************)
EXTENDS GovernedFactory

CONSTANTS ann, ben, gov

Ops ==
    [HandBack |-> [function |-> "set_admin", argument |-> ben],
     KeepIt |-> [function |-> "set_admin", argument |-> gov],
     CapTwo |-> [function |-> "set_cap", argument |-> 2],
     CapThree |-> [function |-> "set_cap", argument |-> 3],
     MinTwo |-> [function |-> "set_min_duration", argument |-> 2],
     MinThree |-> [function |-> "set_min_duration", argument |-> 3],
     Allow |-> [function |-> "set_allowlist", argument |-> <<ben, TRUE>>],
     Disallow |-> [function |-> "set_allowlist", argument |-> <<ben, FALSE>>],
     Move |-> [function |-> "set_stream_contract", argument |-> "other"],
     Hash |-> [function |-> "set_stream_wasm_hash", argument |-> "hash2"],
     Resume |-> [function |-> "global_resume", argument |-> None]]

on(target, op) == [target |-> target, op |-> op]
Batch(calls) == [size |-> 1, batch |-> TRUE, calls |-> calls]
factory_batch(ops) == Batch([i \in DOMAIN ops |-> on("factory", ops[i])])

\* Batches that run, the later call undoing or building on the earlier; one for
\* another contract in part; and batches the factory refuses, the first call of
\* which alone it would take.
SomePayloads ==
    { factory_batch(<<"CapTwo", "Allow", "Disallow">>),
      factory_batch(<<"KeepIt", "Hash", "MinTwo">>),
      factory_batch(<<"Move", "HandBack">>),
      factory_batch(<<"HandBack", "CapTwo">>),
      factory_batch(<<"CapTwo", "MinThree">>),
      Batch(<<on("stream", "Resume"), on("factory", "Noop"), on("factory", "CapThree")>>) }

ShortOffer == { [deposit |-> 1, start_time |-> 0, end_time |-> 1, cliff_time |-> 0] }
=============================================================================
