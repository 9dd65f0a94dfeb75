---------------------------- MODULE GovernanceProps ----------------------------
(***************************************************************************)
(* What the governance contract promises of the proposals it executes,     *)
(* cancels and prunes, while its signers, weights, threshold and grace     *)
(* period change under them.                                               *)
(***************************************************************************)
EXTENDS Governance

\* Every stored value has the width the contract gives it, and only ids that
\* were issued have a proposal or a quorum.
GovTypeOK ==
    /\ now \in 0 .. U64Max
    /\ admin \in Addresses
    /\ guardians \subseteq Addresses
    /\ signers \subseteq Addresses
    /\ threshold \in Nat /\ generation \in Nat
    /\ DOMAIN weights \subseteq Addresses /\ \A a \in DOMAIN weights : weights[a] \in 0 .. U64Max
    /\ grace \in 0 .. U64Max
    /\ next_proposal_id \in 0 .. MaxProposals
    /\ DOMAIN proposals \subseteq 0 .. next_proposal_id - 1
    /\ \A id \in DOMAIN proposals : proposals[id] \in Proposal
    /\ DOMAIN quorum_info \subseteq DOMAIN proposals
    /\ \A id \in DOMAIN quorum_info : quorum_info[id] \in QuorumInfo
    /\ rosters \in Seq([signers: SUBSET Addresses, threshold: Nat])
    /\ dispatched \in Seq([id: ProposalIds, calls: {operations(p) : p \in Payloads}])

-----------------------------------------------------------------------------
(* Invariants.                                                             *)

roster_of(p) == rosters[p.signer_generation + 1]

\* approve does not ask whether the signers are still those the proposal was
\* made under; only execute compares generations.  Yet what was executed was
\* approved, every vote of it, by signers of the proposal's own generation,
\* and by enough of their weight for that generation's threshold.
ExecutedByItsRoster ==
    \A id \in DOMAIN proposals :
        LET p == proposals[id]
        IN  p.status = "Executed" =>
                /\ DOMAIN p.approvals \subseteq roster_of(p).signers
                /\ quorum_info[id].threshold = roster_of(p).threshold
                /\ p.approval_weight >= roster_of(p).threshold

\* The running weight is the sum of the votes: no signer is counted twice,
\* whatever happens to the signers and the weights between two approvals.
EveryVoteCountsOnce ==
    \A id \in DOMAIN proposals :
        LET votes == proposals[id].approvals
        IN  proposals[id].approval_weight = SumFunctionOnSet(votes, DOMAIN votes)

\* Other contracts are called once for each executed proposal, with the calls
\* it was proposed with, and for no other reason: neither a proposal that is
\* tried again, nor one that was cancelled or pruned, is dispatched.
DispatchedOncePerExecution ==
    /\ \A i, j \in DOMAIN dispatched : dispatched[i].id = dispatched[j].id => i = j
    /\ {dispatched[i].id : i \in DOMAIN dispatched} =
           {id \in DOMAIN proposals : proposals[id].status = "Executed"}
    /\ \A i \in DOMAIN dispatched :
           LET p == proposals[dispatched[i].id]
           IN  is_dispatchable(p.payload) /\ dispatched[i].calls = operations(p.payload)

\* A quorum reached within the timelock of the proposal's last second is
\* accepted and queued all the same, but comes too late: whatever the grace
\* period is set to, what was executed had come out of its timelock before it
\* was too old.
ExecutedWithinItsAge ==
    \A id \in DOMAIN proposals :
        LET p == proposals[id]
        IN  p.status = "Executed" =>
                executable_after(quorum_info[id]) <= p.created_at + MAX_PROPOSAL_AGE_SECONDS

\* is_executable repeats the gates of execute, and the two must not drift
\* apart: it says yes exactly when execute would run, the decoding of the
\* payload and the callee aside.
ViewAgreesWithExecute ==
    \A id \in DOMAIN proposals :
        is_dispatchable(proposals[id].payload) => (is_executable(id) <=> ENABLED execute(id))

\* The signers can still reach the threshold, however they were added and
\* removed; the rosters record what was in force in every generation.
RosterCanDecide ==
    /\ threshold \in 1 .. Cardinality(signers)
    /\ Cardinality(signers) <= MAX_SIGNERS
    /\ Len(rosters) = generation + 1
    /\ rosters[generation + 1] = [signers |-> signers, threshold |-> threshold]

\* What is true of every stored proposal p and makes ExecutedByItsRoster and
\* DispatchedOncePerExecution inductive: prune reads the flags where all
\* others read the status; a quorum is recorded exactly when one was reached;
\* and the votes on a proposal of the present generation are present signers'.
ProposalInv(id, p) ==
    /\ p.executed <=> p.status = "Executed"
    /\ p.cancelled <=> p.status = "Cancelled"
    /\ p.signer_generation <= generation
    /\ p.status \in {"Queued", "Executed"} => id \in DOMAIN quorum_info
    /\ p.status \in {"Proposed", "Approved"} => id \notin DOMAIN quorum_info
    /\ p.signer_generation = generation =>
          /\ DOMAIN p.approvals \subseteq signers
          /\ id \in DOMAIN quorum_info => quorum_info[id].threshold = threshold

\* The inductive invariant of the contract.
GovInv ==
    /\ RosterCanDecide
    /\ \A id \in DOMAIN proposals : ProposalInv(id, proposals[id])
    /\ ExecutedByItsRoster

-----------------------------------------------------------------------------
(* Action properties.                                                      *)

DecisionStands(id) ==
    LET p == proposals[id]
        q == proposals'[id]
    IN  IF id \in DOMAIN proposals'
        THEN /\ is_terminal(p.status) => q = p
             /\ p.status = "Queued" => q.approvals = p.approvals /\ q.eta = p.eta
             /\ q.payload = p.payload /\ q.created_at = p.created_at
             /\ q.signer_generation = p.signer_generation
        ELSE /\ ~is_terminal(p.status)
             /\ ~is_executable(id)
             /\ p.status = "Queued" \/ too_old(p)

\* Decisions stand.  What was executed or cancelled stays, and as it was; a
\* queued proposal takes no more votes; a proposal changes neither its
\* payload, nor its age, nor the generation it is of; and prune removes only
\* what nobody can execute or approve any more.
DecisionsStand == [][\A id \in DOMAIN proposals : DecisionStands(id)]_vars

-----------------------------------------------------------------------------
(* Refinement.                                                             *)

\* A proposal as a timelocked decision.
decision_of(id) ==
    IF id >= next_proposal_id THEN [phase |-> "none", due_since |-> 0]
    ELSE IF id \notin DOMAIN proposals THEN [phase |-> "dropped", due_since |-> 0]
    ELSE CASE proposals[id].status \in {"Proposed", "Approved"} ->
                 [phase |-> "open", due_since |-> 0]
           [] proposals[id].status = "Queued" ->
                 [phase |-> "due", due_since |-> quorum_info[id].reached_at]
           [] proposals[id].status = "Executed" ->
                 [phase |-> "done", due_since |-> quorum_info[id].reached_at]
           [] OTHER -> [phase |-> "dropped", due_since |-> 0]

decisions_now == [id \in ProposalIds |-> decision_of(id)]

Decisions == INSTANCE Timelock WITH
    DecisionIds <- ProposalIds, Delay <- GOVERNANCE_TIMELOCK_SECONDS,
    clock <- now, decisions <- decisions_now

\* The contract keeps the promise of Timelock.tla: a proposal is carried out
\* at most once and no sooner than the timelock after its quorum, and never
\* comes back once it was dropped.
ImplementsTimelock == Decisions!TimelockSpec
===============================================================================
