------------------------------ MODULE BatchRetry ------------------------------
(***************************************************************************)
(* submitBatchWithRecovery, tools/sdk/batch_create.ts: the client submits  *)
(* one transaction that creates a batch of streams, and after a time-out   *)
(* decides from the contract's stream count whether it landed before it    *)
(* submits the same transaction again.                                     *)
(*                                                                         *)
(* The ledger, the network and the RPC nodes are external.  A transaction  *)
(* spends the sender's sequence number, hence lands at most once; it may   *)
(* land late or never.  A node answers from any ledger up to the last.     *)
(* Every await of the code is a point where the ledger may go on, and may  *)
(* reject.                                                                 *)
(***************************************************************************)
EXTENDS Integers, SequencesExt

CONSTANTS
    BatchSize,       \* batchSize
    MaxAttempts,     \* options.maxAttempts
    MaxSkewReads,    \* options.maxSkewReads
    InitialCount,    \* streams that exist before the call
    OtherCreations,  \* bound: how many streams others create in one ledger
    MaxLedger        \* bound: the last ledger

ASSUME BatchRetryAssumption ==
    /\ BatchSize \in Nat \ {0} /\ MaxAttempts \in Nat /\ MaxSkewReads \in Nat
    /\ InitialCount \in Nat /\ OtherCreations \subseteq Nat
    /\ MaxLedger \in Nat \ {0}

VARIABLES
    counts,        \* stream_count() after each ledger
    in_flight,     \* the network holds the transaction
    landed_in,     \* the ledger that included it, 0 for none
    pc,            \* where the call stands, or what it returned or threw
    attempt, baseline, restored,  \* locals of the call
    min_ledger,    \* minLedger of the present check, 0 for an outcome without one
    skew_reads     \* i of the loop over lagging reads

network == <<counts, in_flight, landed_in>>
locals == <<attempt, baseline, restored, min_ledger, skew_reads>>
vars == <<network, pc, locals>>

Returned ==
    {"success", "already_landed", "failed", "skewed", "unexpected_delta", "not_confirmed",
     "rejected"}

RetryInit ==
    /\ counts = <<InitialCount>> /\ in_flight = FALSE /\ landed_in = 0
    /\ pc = "baseline"
    /\ attempt = 1 /\ baseline = 0 /\ restored = FALSE
    /\ min_ledger = 0 /\ skew_reads = 0

-----------------------------------------------------------------------------
(* The network.                                                            *)

\* A ledger closes, with or without the batch.
CloseLedger ==
    /\ Len(counts) < MaxLedger
    /\ \E others \in OtherCreations, included \in {FALSE, in_flight} :
          /\ counts' = Append(counts, Last(counts) + others + (IF included THEN BatchSize ELSE 0))
          /\ landed_in' = IF included THEN Len(counts) + 1 ELSE landed_in
          /\ in_flight' = (in_flight /\ ~included)
    /\ UNCHANGED <<pc, locals>>

Forget ==
    /\ in_flight
    /\ in_flight' = FALSE
    /\ UNCHANGED <<counts, landed_in, pc, locals>>

-----------------------------------------------------------------------------
(* The call.                                                               *)

\* The baseline is taken from whatever node answers.
ReadBaseline ==
    /\ pc = "baseline"
    /\ \E ledger \in DOMAIN counts : baseline' = counts[ledger]
    /\ pc' = "submit"
    /\ UNCHANGED <<network, attempt, restored, min_ledger, skew_reads>>

\* deps.submit() is called: the network takes the transaction or does not.
Submit ==
    /\ pc = "submit"
    /\ attempt <= MaxAttempts
    /\ in_flight' \in {in_flight, landed_in = 0}
    /\ pc' = "submitting"
    /\ UNCHANGED <<counts, landed_in, locals>>

GiveUp ==
    /\ pc = "submit"
    /\ attempt > MaxAttempts
    /\ pc' = "not_confirmed"
    /\ UNCHANGED <<network, locals>>

\* What deps.submit() answers.  FAILED is a failure on chain, which spends
\* the sequence number, or the refusal of a transaction that landed before.
Success ==
    /\ pc = "submitting" /\ landed_in # 0
    /\ pc' = "success"
    /\ UNCHANGED <<network, locals>>

Failed ==
    /\ pc = "submitting"
    /\ pc' = "failed"
    /\ in_flight' = FALSE
    /\ UNCHANGED <<counts, landed_in, locals>>

Archived ==
    /\ pc = "submitting" /\ landed_in = 0
    /\ pc' = "restore"
    /\ UNCHANGED <<network, locals>>

\* TIMEOUT and TRY_AGAIN_LATER.  The outcome may name the ledger the
\* submission has seen.
Unsure ==
    /\ pc = "submitting"
    /\ min_ledger' \in {0} \cup DOMAIN counts
    /\ skew_reads' = 0
    /\ pc' = "check"
    /\ UNCHANGED <<network, attempt, baseline, restored>>

\* Mutant: an archived footprint does not use up an attempt.
next_attempt_kept(n) == n

next_attempt(n) == n + 1

\* deps.restore(), and the loop goes on.
Restore ==
    /\ pc = "restore"
    /\ restored' = TRUE
    /\ attempt' = next_attempt(attempt)
    /\ pc' = "submit"
    /\ UNCHANGED <<network, baseline, min_ledger, skew_reads>>

\* Mutant: any node's answer is taken.
up_to_date_or_not(ledger) == TRUE

up_to_date(ledger) == ledger >= min_ledger

\* Mutant: the baseline is forgotten.
delta_from_zero(ledger) == counts[ledger]

delta(ledger) == counts[ledger] - baseline

\* A read from a node that lags, and the error when there were too many.
ReadBehind ==
    /\ pc = "check"
    /\ \E ledger \in DOMAIN counts : ~up_to_date(ledger)
    /\ \/ skew_reads < MaxSkewReads /\ skew_reads' = skew_reads + 1 /\ UNCHANGED pc
       \/ skew_reads = MaxSkewReads /\ pc' = "skewed" /\ UNCHANGED skew_reads
    /\ UNCHANGED <<network, attempt, baseline, restored, min_ledger>>

\* A read that counts.
ReadCount ==
    /\ pc = "check"
    /\ \E ledger \in DOMAIN counts :
          /\ up_to_date(ledger)
          /\ \/ delta(ledger) = BatchSize /\ pc' = "already_landed" /\ UNCHANGED attempt
             \/ /\ delta(ledger) = 0
                /\ pc' = "submit" /\ attempt' = next_attempt(attempt)
             \/ delta(ledger) \notin {0, BatchSize} /\ pc' = "unexpected_delta" /\ UNCHANGED attempt
    /\ UNCHANGED <<network, baseline, restored, min_ledger, skew_reads>>

\* A promise of deps rejects, and nothing catches it: the call throws what it
\* got, wherever it stands.  What it has submitted may still land.
Reject ==
    /\ pc \in {"baseline", "submitting", "restore", "check"}
    /\ pc' = "rejected"
    /\ UNCHANGED <<network, locals>>

Call ==
    \/ ReadBaseline \/ Submit \/ GiveUp
    \/ Success \/ Failed \/ Archived \/ Unsure
    \/ Restore \/ ReadBehind \/ ReadCount \/ Reject

Next == CloseLedger \/ Forget \/ Call

\* Whatever the call awaits is settled some day, with whatever answer.
RetrySpec == RetryInit /\ [][Next]_vars /\ WF_vars(Call)

-----------------------------------------------------------------------------
(* Properties.                                                             *)

others_created == Last(counts) - InitialCount - (IF landed_in = 0 THEN 0 ELSE BatchSize)

\* Alone on the contract the call cannot be misled: however late the batch
\* lands, however far the nodes lag, behind the baseline included, what it
\* reports as landed has landed, and no error sends its caller to reconcile
\* by hand.  With other writers a batch of theirs of the same size can pass
\* for its own.  A rejection or a FAILED says nothing of whether it landed.
AloneItIsNotMisled ==
    others_created = 0 =>
        /\ pc = "already_landed" => landed_in # 0
        /\ pc # "unexpected_delta"

\* Never resubmits blindly: after a time-out that names a ledger the batch is
\* submitted again only if no ledger up to that one has it, whatever others
\* create meanwhile.
ResubmitsOnlyUnlanded ==
    [][pc = "check" /\ pc' = "submit" => landed_in \notin 1 .. min_ledger]_vars

\* The call returns: neither archived footprints, nor lagging nodes, nor
\* time-outs that go on for ever keep its caller waiting.
CallReturns == <>(pc \in Returned)
===============================================================================
