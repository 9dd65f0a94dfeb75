---------------------------- MODULE GovernedFactory ----------------------------
(***************************************************************************)
(* The factory with the governance contract for its admin: proposals,      *)
(* batches of calls among them, are executed on the factory's setters.     *)
(*                                                                         *)
(* init of the factory wants the admin's signature, so that the first      *)
(* admin is a person, who hands the factory over.  The governance contract *)
(* signs nothing but the calls it dispatches, and no CallData proposes or  *)
(* accepts an admin.  Ledgers close once a second, as in Deployment.tla.   *)
(***************************************************************************)
EXTENDS FactoryProps

CONSTANTS
    GovernanceAddress,
    Decoded,        \* op of a call -> the function CallData stands for, its argument
    Admins, InitialAdmin, InitialSigners, InitialThreshold, GuardianSets, Weights,
    GracePeriods, Payloads, GOVERNANCE_TIMELOCK_SECONDS, MAX_PROPOSAL_AGE_SECONDS,
    DEFAULT_GRACE_PERIOD_SECONDS, MAX_SIGNERS, MAX_CALLDATA_BYTES, MAX_BATCH_CALLS,
    MAX_PAGE_SIZE, MaxProposals, MaxMoves,
                    \* see Governance.tla
    TimestampMax,   \* its U64Max
    MaxLedger,      \* its MaxTime
    MaxTogether     \* bound: what people set, nominate and propose, together

VARIABLES
    admin, guardians, signers, threshold, generation, weights, grace,
    next_proposal_id, proposals, quorum_info, dispatched, rosters,
                    \* of the governance contract
    handed          \* history: the policy governance was last handed, and at
                    \* how many payloads dispatched

People == Addresses \ {GovernanceAddress}

G == INSTANCE Governance WITH
    Addresses <- People, now <- ledger, U64Max <- TimestampMax, MaxTime <- MaxLedger

governanceVars ==
    <<admin, guardians, signers, threshold, generation, weights, grace,
      next_proposal_id, proposals, quorum_info, dispatched, rosters>>
governedVars == <<ledger, factoryVars, governanceVars, handed>>

\* What a function of the contracts' interfaces takes.  StreamSetAdmin and
\* FactorySetAdmin stand for the same function; the last three are of no
\* contract in the repository.
Decodings ==
    [function: {"set_admin"}, argument: Addresses \cup ForbiddenAdmins]
        \cup [function: {"set_cap"}, argument: Int]
        \cup [function: {"set_min_duration"}, argument: Nat]
        \cup [function: {"set_allowlist"}, argument: Addresses \X BOOLEAN]
        \cup [function: {"set_stream_contract"}, argument: StreamContracts]
        \cup [function: {"set_stream_wasm_hash"}, argument: WasmHashes]
        \cup [function: {"set_max_rate_per_second", "global_resume",
                         "bulk_resume_streams_as_admin"}, argument: {None}]

Dispatchable == [target: STRING, op: DOMAIN Decoded]

ASSUME GovernedAssumption ==
    /\ GovernanceAddress \in Addresses \ ForbiddenAdmins
    /\ FirstAdmin # GovernanceAddress
    /\ Decoded \in [DOMAIN Decoded -> Decodings]
    /\ \A payload \in Payloads :
          G!is_dispatchable(payload) => G!operations(payload) \in Seq(Dispatchable)

-----------------------------------------------------------------------------
(* What a dispatched call does.                                            *)

\* What the setters look at and write; the slots in use are not theirs.
policy ==
    [config |-> [factory EXCEPT !.active_streams = 0], allowed |-> allowlist,
     pending |-> pending_admin]

\* The factory's guard and the setter's own checks; a function it does not
\* have traps.  What another contract makes of a call is its own affair.
accepts(p, call) ==
    LET f == Decoded[call.op].function
        x == Decoded[call.op].argument
    IN
    call.target = "factory" =>
        /\ p.config.admin = GovernanceAddress
        /\ \/ f = "set_admin" /\ x \notin ForbiddenAdmins
           \/ f = "set_cap" /\ x > 0
           \/ f = "set_min_duration" /\ x <= p.config.max_duration
           \/ f \in {"set_allowlist", "set_stream_contract", "set_stream_wasm_hash"}

set(p, f, x) ==
    CASE f = "set_admin" -> [p EXCEPT !.config.admin = x, !.pending = None]
      [] f = "set_cap" -> [p EXCEPT !.config.max_deposit = x]
      [] f = "set_min_duration" -> [p EXCEPT !.config.min_duration = x]
      [] f = "set_allowlist" ->
            [p EXCEPT !.config.recipient_allowlist_enabled = @ \/ x[2],
                      !.allowed = IF x[2] THEN @ \cup {x[1]} ELSE @ \ {x[1]}]
      [] f = "set_stream_contract" -> [p EXCEPT !.config.stream_contract = x]
      [] f = "set_stream_wasm_hash" -> [p EXCEPT !.config.stream_wasm_hash = x]
      [] OTHER -> p

after_call(p, call) ==
    IF call.target = "factory" THEN set(p, Decoded[call.op].function, Decoded[call.op].argument)
                               ELSE p

\* The policy p after the first n of the calls, in order.
stages(p, calls) ==
    LET s[n \in 0 .. Len(calls)] == IF n = 0 THEN p ELSE after_call(s[n - 1], calls[n])
    IN  s

after(p, calls) == stages(p, calls)[Len(calls)]

\* All or nothing: each call finds what those before it left.
all_accepted(p, calls) == \A n \in 1 .. Len(calls) : accepts(stages(p, calls)[n - 1], calls[n])

-----------------------------------------------------------------------------
\* Governance has been handed the factory and has not handed it on.
governs == handed.at # None

nothing_handed == [at |-> None]

\* The parts are bounded together, so that each meets the other without every
\* combination of both.
set_together ==
    Cardinality(settings_changed) + (IF pending_admin = None THEN 0 ELSE 1)
        + G!changes + next_proposal_id

GovernedInit == FactoryInit /\ G!Init /\ handed = nothing_handed

GovernedExecute(id) ==
    LET calls == G!operations(proposals[id].payload)
        q == after(policy, calls)
    IN
    /\ G!execute(id)
    /\ all_accepted(policy, calls)
    /\ factory' = [q.config EXCEPT !.active_streams = factory.active_streams]
    /\ allowlist' = q.allowed
    /\ pending_admin' = q.pending
    /\ nominated_by' = IF q.pending = None THEN None ELSE nominated_by
    /\ UNCHANGED <<token_allowlist, rates>>
    /\ handed' = IF q.config.admin = GovernanceAddress THEN handed ELSE nothing_handed

\* Every other call of the governance contract, or the clock.
GovernanceStep ==
    /\ \/ G!Tick
       \/ /\ set_together < MaxTogether
          /\ G!AdminCall
       \/ /\ set_together < MaxTogether
          /\ G!changes + next_proposal_id < MaxMoves
          /\ \E a \in People, payload \in Payloads : G!propose(a, payload)
       \/ \E id \in DOMAIN proposals, a \in People : G!approve(a, id) \/ G!cancel_proposal(a, id)
       \/ \E start_id \in G!ProposalIds, limit \in 1 .. MaxProposals :
             G!prune_expired_proposals(start_id, limit)
    /\ UNCHANGED <<factoryVars, handed>>

\* guard, when the call is not dispatched: the admin signs, and is a person.
signed_by_admin == factory.admin # GovernanceAddress

PersonStep ==
    /\ \/ /\ signed_by_admin
          /\ \/ \E a \in Addresses \cup ForbiddenAdmins : set_admin(a) \/ propose_admin(a)
             \/ PolicyCall
       \/ pending_admin # GovernanceAddress /\ accept_admin
    /\ Cardinality(settings_changed') <= MaxSettings
    /\ handed' = IF factory.admin # GovernanceAddress /\ factory'.admin = GovernanceAddress
                 THEN [policy |-> policy', at |-> Len(dispatched)]
                 ELSE handed
    /\ UNCHANGED <<ledger, governanceVars>>
    /\ set_together' <= MaxTogether

\* The governance contract creates no streams.
CreationStep ==
    /\ \/ \E a \in People : record_creation(a)
       \/ \E a \in People, b \in Addresses, o \in FactoryOffers : create_stream(a, b, o)
       \/ \E c \in StreamContracts : stream_terminated(c)
    /\ UNCHANGED <<ledger, governanceVars, handed>>

GovernedNext ==
    \/ GovernanceStep
    \/ \E id \in DOMAIN proposals : GovernedExecute(id)
    \/ PersonStep
    \/ CreationStep

GovernedSpec == GovernedInit /\ [][GovernedNext]_governedVars

-----------------------------------------------------------------------------
\* The policy p, known after the first at payloads dispatched, after each of
\* those that follow.
replay(p, at, payloads) ==
    LET r[n \in at .. Len(payloads)] ==
            IF n = at THEN p ELSE after(r[n - 1], payloads[n].calls)
    IN  r

\* What the calls governance has dispatched since it was handed the factory
\* make of the policy it was handed.
replayed == replay(handed.policy, handed.at, dispatched)[Len(dispatched)]

\* From the hand-over to governance until a call it dispatches hands the
\* factory on, the factory's policy is what the dispatched calls say, replayed
\* in order: neither the former admin, nor whom they had nominated, nor a
\* batch that failed half-way has any part in it.
PolicyIsAsDispatched ==
    governs => policy = replayed /\ factory.admin = GovernanceAddress

\* The settings CallData has no variant for.  Whatever governance decides, the
\* factory keeps those it was handed over with: one that was paused, or gives
\* out no slots, stays so until it is handed on.
OutOfReach ==
    {"max_duration", "creation_paused", "batch_cap_enforced", "min_rate_per_second",
     "max_rate_per_second", "max_active_streams", "max_creations_per_window",
     "rate_limit_window_ledgers"}

OutOfReachStays ==
    governs => \A f \in OutOfReach : factory[f] = handed.policy.config[f]

hands_on(call) ==
    /\ call.target = "factory"
    /\ Decoded[call.op].function = "set_admin"
    /\ Decoded[call.op].argument # GovernanceAddress

\* A batch that hands the factory on and goes on to tune it is never executed,
\* though it may be proposed, approved and queued: its own first part takes
\* away the authority for the second, and it fails as a whole.
HandingOnComesLast ==
    \A i \in DOMAIN dispatched :
        LET calls == dispatched[i].calls
        IN  \A m, n \in DOMAIN calls :
                m < n /\ hands_on(calls[m]) => calls[n].target # "factory"

\* While governance is its admin, the factory's policy changes only by a
\* proposal that is queued, of the present signers and threshold, and past its
\* timelock.
TunedOnlyByDecision ==
    [][ governs /\ policy' # policy =>
            \E id \in DOMAIN proposals :
                /\ proposals[id].status = "Queued" /\ proposals'[id].status = "Executed"
                /\ proposals[id].signer_generation = generation
                /\ ledger >= G!executable_after(quorum_info[id])
      ]_governedVars
===============================================================================
