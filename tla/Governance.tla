------------------------------ MODULE Governance ------------------------------
(***************************************************************************)
(* The governance contract, contracts/governance/src/lib.rs: proposals are *)
(* approved by weighted signers, wait out a timelock and are executed by   *)
(* calling other contracts.                                                *)
(*                                                                         *)
(* A call is one transaction: an action is a call that succeeds, and a     *)
(* call that fails, the dispatched calls of execute included, leaves every *)
(* variable alone.  The host refuses re-entry, so that the dispatch of     *)
(* execute and its Executing flag are inside one step.  A list of          *)
(* addresses without duplicates is a set.  The time to live of the storage *)
(* entries is added by GovernanceRent.tla.                                 *)
(***************************************************************************)
EXTENDS Integers, Sequences, FiniteSets, Functions

CONSTANTS
    Addresses,          \* admins, guardians, signers
    Admins,             \* addresses set_admin is called with
    InitialAdmin, InitialSigners, InitialThreshold,  \* arguments of init
    GuardianSets,       \* lists set_emergency_guardians is called with
    Weights,            \* weights set_vote_weight is called with
    GracePeriods,       \* arguments of set_grace_period
    Payloads,           \* calldata propose is called with
    GOVERNANCE_TIMELOCK_SECONDS,
    MAX_PROPOSAL_AGE_SECONDS,
    DEFAULT_GRACE_PERIOD_SECONDS,
    MAX_SIGNERS, MAX_CALLDATA_BYTES, MAX_BATCH_CALLS, MAX_PAGE_SIZE,
    U64Max,             \* the width of weights and timestamps
    MaxProposals,       \* bound: proposals made
    MaxMoves,           \* bound: proposals made and settings changed, together
    MaxTime             \* bound: the last ledger timestamp

\* A call of a contract, as calldata encodes it: op is the CallData variant
\* with its arguments, "Batch" for a nested batch, "Undecodable" for bytes
\* that are no CallData at all.
Call == [target: STRING, op: STRING]

\* The calldata of a proposal: its length, and the one call or the batch of
\* calls it encodes.
Payload == [size: Nat, batch: BOOLEAN, calls: Seq(Call)]

ASSUME GovernanceAssumption ==
    /\ InitialAdmin \in Addresses
    /\ InitialSigners \subseteq Addresses /\ IsFiniteSet(InitialSigners)
    /\ MAX_SIGNERS \in Nat /\ Cardinality(InitialSigners) <= MAX_SIGNERS
    /\ InitialThreshold \in 1 .. Cardinality(InitialSigners)
    /\ Admins \subseteq Addresses
    /\ GuardianSets \subseteq SUBSET Addresses
    /\ U64Max \in Nat
    /\ Weights \subseteq 0 .. U64Max
    /\ GracePeriods \subseteq 0 .. U64Max
    /\ \A payload \in Payloads :
          /\ payload.size \in Nat /\ payload.batch \in BOOLEAN
          /\ payload.calls \in Seq(Call)
          /\ payload.batch \/ Len(payload.calls) = 1
    /\ GOVERNANCE_TIMELOCK_SECONDS \in Nat
    /\ MAX_PROPOSAL_AGE_SECONDS \in Nat
    /\ DEFAULT_GRACE_PERIOD_SECONDS \in 0 .. U64Max
    /\ MAX_CALLDATA_BYTES \in Nat /\ MAX_BATCH_CALLS \in Nat /\ MAX_PAGE_SIZE \in Nat
    /\ MaxProposals \in Nat /\ MaxMoves \in Nat
    /\ MaxTime \in 0 .. U64Max

VARIABLES
    now,               \* the ledger timestamp
    admin,             \* DataKey::Admin
    guardians,         \* DataKey::EmergencyGuardians
    signers,           \* DataKey::Signers and DataKey::SignerIndex
    threshold,         \* DataKey::Threshold
    generation,        \* DataKey::SignerGeneration
    weights,           \* DataKey::SignerWeights
    grace,             \* DataKey::GracePeriod
    next_proposal_id,  \* DataKey::NextProposalId
    proposals,         \* DataKey::Proposal(id) and DataKey::ProposalApprovalIdx(id)
    quorum_info,       \* DataKey::QuorumReachedAt(id)
    dispatched,        \* history: the calls made on other contracts, in order
    rosters            \* history: signers and threshold of every generation

config == <<admin, guardians, signers, threshold, generation, weights, grace, rosters>>
vars == <<now, config, next_proposal_id, proposals, quorum_info, dispatched>>

ProposalIds == 0 .. MaxProposals - 1

\* Whoever approved, with the weight the approval was counted with; the code
\* keeps the addresses, as a list and as a map.
Votes == UNION {[S -> 0 .. U64Max] : S \in SUBSET Addresses}

Proposal ==
    [proposer: Addresses, payload: Payloads, approvals: Votes,
     approval_weight: 0 .. U64Max, created_at: 0 .. U64Max, eta: 0 .. U64Max,
     signer_generation: Nat, executed: BOOLEAN, cancelled: BOOLEAN,
     status: {"Proposed", "Approved", "Queued", "Executed", "Cancelled"}]

QuorumInfo == [reached_at: 0 .. U64Max, threshold: Nat]

empty == [x \in {} |-> x]
put(f, k, v) == [x \in DOMAIN f \cup {k} |-> IF x = k THEN v ELSE f[x]]

\* The state init leaves behind, called with arguments it accepts.
Init ==
    /\ now = 0
    /\ admin = InitialAdmin
    /\ guardians = {}
    /\ signers = InitialSigners
    /\ threshold = InitialThreshold
    /\ generation = 0
    /\ weights = empty
    /\ grace = DEFAULT_GRACE_PERIOD_SECONDS
    /\ next_proposal_id = 0
    /\ proposals = empty
    /\ quorum_info = empty
    /\ dispatched = <<>>
    /\ rosters = <<[signers |-> InitialSigners, threshold |-> InitialThreshold]>>

-----------------------------------------------------------------------------
(* The admin's entry points.  Each is authorized by the admin.             *)

set_admin(new_admin) ==
    /\ admin' = new_admin
    /\ UNCHANGED <<now, guardians, signers, threshold, generation, weights, grace, rosters>>
    /\ UNCHANGED <<next_proposal_id, proposals, quorum_info, dispatched>>

set_emergency_guardians(new_guardians) ==
    /\ Cardinality(new_guardians) <= MAX_SIGNERS
    /\ guardians' = new_guardians
    /\ UNCHANGED <<now, admin, signers, threshold, generation, weights, grace, rosters>>
    /\ UNCHANGED <<next_proposal_id, proposals, quorum_info, dispatched>>

\* Every change of the signers or the threshold starts a new generation.
reconfigure(new_signers, new_threshold) ==
    /\ signers' = new_signers
    /\ threshold' = new_threshold
    /\ generation' = generation + 1
    /\ rosters' = Append(rosters, [signers |-> new_signers, threshold |-> new_threshold])
    /\ UNCHANGED <<now, admin, guardians, weights, grace>>
    /\ UNCHANGED <<next_proposal_id, proposals, quorum_info, dispatched>>

\* set_threshold and update_threshold: they differ in the event only.
set_threshold(new_threshold) ==
    /\ new_threshold \in 1 .. Cardinality(signers)
    /\ reconfigure(signers, new_threshold)

add_signer(signer) ==
    /\ signer \notin signers
    /\ Cardinality(signers) < MAX_SIGNERS
    /\ reconfigure(signers \cup {signer}, threshold)

\* A call for somebody who is not a signer succeeds without effect.  The
\* weight of a removed signer stays behind.
remove_signer(signer) ==
    /\ signer \in signers
    /\ Cardinality(signers) - 1 >= threshold
    /\ reconfigure(signers \ {signer}, threshold)

\* The weight of a signer counts from the next approval on.
set_vote_weight(signer, weight) ==
    /\ signer \in signers
    /\ weights' = put(weights, signer, weight)
    /\ UNCHANGED <<now, admin, guardians, signers, threshold, generation, grace, rosters>>
    /\ UNCHANGED <<next_proposal_id, proposals, quorum_info, dispatched>>

\* Any u64 is taken, and holds for the proposals already queued.
set_grace_period(grace_period) ==
    /\ grace' = grace_period
    /\ UNCHANGED <<now, admin, guardians, signers, threshold, generation, weights, rosters>>
    /\ UNCHANGED <<next_proposal_id, proposals, quorum_info, dispatched>>

-----------------------------------------------------------------------------
(* Deadlines.                                                              *)

signer_weight(signer) == IF signer \in DOMAIN weights THEN weights[signer] ELSE 1

\* checked_deadline(start, seconds) is start + seconds when that fits a u64.
fits(x) == x <= U64Max

too_old(p) == now > p.created_at + MAX_PROPOSAL_AGE_SECONDS

executable_after(info) == info.reached_at + GOVERNANCE_TIMELOCK_SECONDS

is_terminal(status) == status \in {"Executed", "Cancelled"}

\* The error checked_deadline returns from proposal_is_expired.
expiry_overflows(id) ==
    LET p == proposals[id] IN
    \/ ~fits(p.created_at + MAX_PROPOSAL_AGE_SECONDS)
    \/ /\ ~too_old(p)
       /\ id \in DOMAIN quorum_info
       /\ ~fits(executable_after(quorum_info[id]) + grace)

\* Mutant: expired already in the last second of grace.
expired_a_second_early(id) ==
    \/ too_old(proposals[id])
    \/ id \in DOMAIN quorum_info /\ now >= executable_after(quorum_info[id]) + grace

proposal_is_expired(id) ==
    \/ too_old(proposals[id])
    \/ id \in DOMAIN quorum_info /\ now > executable_after(quorum_info[id]) + grace

\* Mutant: the generation is left to execute.
is_executable_any_generation(id) ==
    LET p == proposals[id]
        info == quorum_info[id]
    IN
    /\ p.status = "Queued"
    /\ fits(p.created_at + MAX_PROPOSAL_AGE_SECONDS) /\ ~too_old(p)
    /\ id \in DOMAIN quorum_info
    /\ p.approval_weight >= info.threshold
    /\ fits(executable_after(info)) /\ now >= executable_after(info)
    /\ now >= p.eta
    /\ fits(executable_after(info) + grace) /\ now <= executable_after(info) + grace

\* The view is_executable.
is_executable(id) ==
    LET p == proposals[id]
        info == quorum_info[id]
    IN
    /\ p.status = "Queued"
    /\ fits(p.created_at + MAX_PROPOSAL_AGE_SECONDS) /\ ~too_old(p)
    /\ p.signer_generation = generation
    /\ id \in DOMAIN quorum_info
    /\ p.approval_weight >= info.threshold
    /\ fits(executable_after(info)) /\ now >= executable_after(info)
    /\ now >= p.eta
    /\ fits(executable_after(info) + grace) /\ now <= executable_after(info) + grace

-----------------------------------------------------------------------------
(* Proposals.                                                              *)

\* Authorized by proposer, who does not thereby approve.  Nobody decodes the
\* calldata before execute does.
propose(proposer, payload) ==
    /\ next_proposal_id < MaxProposals
    /\ proposer \in signers
    /\ payload.size \in 1 .. MAX_CALLDATA_BYTES
    /\ proposals' = put(proposals, next_proposal_id,
          [proposer |-> proposer, payload |-> payload, approvals |-> empty,
           approval_weight |-> 0, created_at |-> now, eta |-> 0,
           signer_generation |-> generation, status |-> "Proposed",
           executed |-> FALSE, cancelled |-> FALSE])
    /\ next_proposal_id' = next_proposal_id + 1
    /\ UNCHANGED <<now, config, quorum_info, dispatched>>

\* Mutant: the duplicate is not looked up.
may_approve_again(approver, p) ==
    /\ approver \in signers
    /\ p.status \in {"Proposed", "Approved"}
    /\ fits(p.created_at + MAX_PROPOSAL_AGE_SECONDS) /\ ~too_old(p)

\* Mutant: a queued proposal takes votes.
may_approve_queued(approver, p) ==
    /\ approver \in signers
    /\ ~is_terminal(p.status)
    /\ fits(p.created_at + MAX_PROPOSAL_AGE_SECONDS) /\ ~too_old(p)
    /\ approver \notin DOMAIN p.approvals

\* The checks of approve that come before the weight is looked up.
may_approve(approver, p) ==
    /\ approver \in signers
    /\ p.status \in {"Proposed", "Approved"}
    /\ fits(p.created_at + MAX_PROPOSAL_AGE_SECONDS) /\ ~too_old(p)
    /\ approver \notin DOMAIN p.approvals

\* Authorized by approver.  The weight, the signers and the threshold are
\* those of today, whatever generation the proposal is of.
approve(approver, id) ==
    LET p == proposals[id]
        accumulated == p.approval_weight + signer_weight(approver)
        counted == [p EXCEPT !.approvals = put(@, approver, signer_weight(approver)),
                             !.approval_weight = accumulated]
    IN
    /\ may_approve(approver, p)
    /\ fits(accumulated)
    /\ \/ /\ accumulated >= threshold
          /\ fits(now + GOVERNANCE_TIMELOCK_SECONDS)
          /\ proposals' = [proposals EXCEPT ![id] =
                [counted EXCEPT !.eta = now + GOVERNANCE_TIMELOCK_SECONDS, !.status = "Queued"]]
          /\ quorum_info' = put(quorum_info, id, [reached_at |-> now, threshold |-> threshold])
       \/ /\ accumulated < threshold
          /\ proposals' = [proposals EXCEPT ![id] = [counted EXCEPT !.status = "Approved"]]
          /\ UNCHANGED quorum_info
    /\ UNCHANGED <<now, config, next_proposal_id, dispatched>>

\* dispatch_call decodes all of the calldata: a batch is neither empty nor
\* too long, and no batch is inside it.
is_dispatchable(payload) ==
    /\ payload.batch => Len(payload.calls) \in 1 .. MAX_BATCH_CALLS
    /\ \A i \in DOMAIN payload.calls : payload.calls[i].op \notin {"Batch", "Undecodable"}

\* The contract calls dispatch_operation makes: Noop makes none.
operations(payload) == SelectSeq(payload.calls, LAMBDA call : call.op # "Noop")

\* Mutant: signers and threshold may have changed since the proposal.
may_execute_any_generation(id) ==
    LET p == proposals[id]
        info == quorum_info[id]
    IN
    /\ p.status = "Queued"
    /\ fits(p.created_at + MAX_PROPOSAL_AGE_SECONDS) /\ ~too_old(p)
    /\ id \in DOMAIN quorum_info
    /\ p.approval_weight >= info.threshold
    /\ fits(executable_after(info)) /\ now >= executable_after(info)
    /\ now >= p.eta
    /\ fits(executable_after(info) + grace) /\ now <= executable_after(info) + grace

\* Mutant: a quorum in time is enough, execution may be as late as grace lets it.
may_execute_any_age(id) ==
    LET p == proposals[id]
        info == quorum_info[id]
    IN
    /\ p.status = "Queued"
    /\ p.signer_generation = generation
    /\ id \in DOMAIN quorum_info
    /\ p.approval_weight >= info.threshold
    /\ fits(executable_after(info)) /\ now >= executable_after(info)
    /\ now >= p.eta
    /\ fits(executable_after(info) + grace) /\ now <= executable_after(info) + grace

\* The gates of execute, in its order.
may_execute(id) ==
    LET p == proposals[id]
        info == quorum_info[id]
    IN
    /\ p.status = "Queued"
    /\ fits(p.created_at + MAX_PROPOSAL_AGE_SECONDS) /\ ~too_old(p)
    /\ p.signer_generation = generation
    /\ id \in DOMAIN quorum_info
    /\ p.approval_weight >= info.threshold
    /\ fits(executable_after(info)) /\ now >= executable_after(info)
    /\ now >= p.eta
    /\ fits(executable_after(info) + grace) /\ now <= executable_after(info) + grace

\* Mutant: the record says so, the flag does not.
executed_unflagged(p) == [p EXCEPT !.status = "Executed"]

\* What execute writes before it dispatches.
executed(p) == [p EXCEPT !.status = "Executed", !.executed = TRUE]

\* Authorized by anybody.  When a call of the payload traps the proposal
\* stays queued, and may be executed later.
execute(id) ==
    LET p == proposals[id] IN
    /\ may_execute(id)
    /\ is_dispatchable(p.payload)
    /\ proposals' = [proposals EXCEPT ![id] = executed(p)]
    /\ dispatched' = Append(dispatched, [id |-> id, calls |-> operations(p.payload)])
    /\ UNCHANGED <<now, config, next_proposal_id, quorum_info>>

\* Authorized by caller: the proposer, signer or not by now, the admin or a
\* guardian.
cancel_proposal(caller, id) ==
    LET p == proposals[id] IN
    /\ ~is_terminal(p.status)
    /\ caller \in {p.proposer, admin} \cup guardians
    /\ proposals' = [proposals EXCEPT ![id] = [@ EXCEPT !.status = "Cancelled", !.cancelled = TRUE]]
    /\ UNCHANGED <<now, config, next_proposal_id, quorum_info, dispatched>>

\* The ids of the page that starts at start_id.
page(start_id, limit) ==
    {id \in start_id .. next_proposal_id - 1 :
        id < start_id + limit /\ id < start_id + MAX_PAGE_SIZE}

\* Mutant: what was executed is swept away too.
prunable_unless_cancelled(id) == ~proposals[id].cancelled

\* Executed and cancelled proposals are kept, as told by their flags.
prunable(id) == ~proposals[id].executed /\ ~proposals[id].cancelled

quorums_kept(ids) == Restrict(quorum_info, DOMAIN quorum_info \ ids)

\* Authorized by nobody.  One proposal of the page whose deadline overflows
\* fails the call for all.
prune_expired_proposals(start_id, limit) ==
    LET candidates == {id \in page(start_id, limit) \cap DOMAIN proposals : prunable(id)}
        expired == {id \in candidates : proposal_is_expired(id)}
    IN
    /\ expired # {}
    /\ \A id \in candidates : ~expiry_overflows(id)
    /\ proposals' = Restrict(proposals, DOMAIN proposals \ expired)
    /\ quorum_info' = quorums_kept(expired)
    /\ UNCHANGED <<now, config, next_proposal_id, dispatched>>

-----------------------------------------------------------------------------
Tick ==
    /\ now < MaxTime
    /\ now' = now + 1
    /\ UNCHANGED <<config, next_proposal_id, proposals, quorum_info, dispatched>>

\* How many settings differ from those of init.
changes ==
    generation + Cardinality(DOMAIN weights) + Cardinality(guardians)
        + Cardinality({admin} \ {InitialAdmin})
        + Cardinality({grace} \ {DEFAULT_GRACE_PERIOD_SECONDS})

AdminCall ==
    /\ changes + next_proposal_id < MaxMoves
    /\ \/ \E a \in Admins : set_admin(a)
       \/ \E a \in Addresses : add_signer(a) \/ remove_signer(a)
       \/ \E S \in GuardianSets : set_emergency_guardians(S)
       \/ \E t \in 1 .. MAX_SIGNERS : set_threshold(t)
       \/ \E a \in Addresses, w \in Weights : set_vote_weight(a, w)
       \/ \E g \in GracePeriods : set_grace_period(g)

ProposalCall(id) ==
    \/ \E a \in Addresses : approve(a, id) \/ cancel_proposal(a, id)
    \/ execute(id)

Next ==
    \/ Tick
    \/ AdminCall
    \/ /\ changes + next_proposal_id < MaxMoves
       /\ \E a \in Addresses, payload \in Payloads : propose(a, payload)
    \/ \E id \in DOMAIN proposals : ProposalCall(id)
    \/ \E start_id \in ProposalIds, limit \in 1 .. MaxProposals :
          prune_expired_proposals(start_id, limit)

Spec == Init /\ [][Next]_vars
===============================================================================
