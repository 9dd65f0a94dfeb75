--------------------------- MODULE GovernanceProofs ---------------------------
(***************************************************************************)
(* What the governance contract promises, proved for every set of signers, *)
(* guardians and payloads, for any weights and widths and for all of its   *)
(* constants.                                                              *)
(*                                                                         *)
(* GovTypeOK comes first.  GovInv, from which the roster of an executed    *)
(* proposal follows, is then kept by every step: a reconfiguration starts  *)
(* a generation, so that the open proposals are no longer of the present   *)
(* one and nothing is claimed of their votes but what execute will ask.    *)
(*                                                                         *)
(* Then the count of the votes, and what becomes of a proposal, up to the  *)
(* refinement of Timelock.tla.                                             *)
(***************************************************************************)
EXTENDS GovernanceRent, SumProofs, FiniteSetTheorems, TLAPS

\* One more vote.
LEMMA VoteAdded ==
    ASSUME NEW votes \in Votes, NEW a \in Addresses, NEW w \in 0 .. U64Max
    PROVE  put(votes, a, w) \in Votes
<1>1. PICK T \in SUBSET Addresses : votes \in [T -> 0 .. U64Max]
  BY DEF Votes
<1>2. put(votes, a, w) \in [T \cup {a} -> 0 .. U64Max]
  BY <1>1 DEF put
<1>3. T \cup {a} \in SUBSET Addresses
  BY <1>1
<1> QED
  BY <1>2, <1>3 DEF Votes

-----------------------------------------------------------------------------
(* Types.                                                                  *)

\* init.
LEMMA InitTyped == Init => GovTypeOK
BY GovernanceAssumption DEF Init, GovTypeOK, empty

\* The admin's calls leave the proposals alone.
LEMMA AdminTyped ==
    ASSUME GovTypeOK, AdminCall
    PROVE  GovTypeOK'
<1> USE GovernanceAssumption DEF GovTypeOK
<1>1. ASSUME signers' \subseteq Addresses, threshold' \in Nat, generation' = generation + 1,
             rosters' = Append(rosters, [signers |-> signers', threshold |-> threshold']),
             UNCHANGED <<now, admin, guardians, weights, grace>>,
             UNCHANGED <<next_proposal_id, proposals, quorum_info, dispatched>>
      PROVE  GovTypeOK'
  <2>1. [signers |-> signers', threshold |-> threshold'] \in [signers: SUBSET Addresses, threshold: Nat]
    BY <1>1
  <2>2. rosters' \in Seq([signers: SUBSET Addresses, threshold: Nat])
    BY <1>1, <2>1
  <2> QED BY <1>1, <2>2
<1>2. CASE \E a \in Admins : set_admin(a)
  BY <1>2 DEF set_admin
<1>3. CASE \E a \in Addresses : add_signer(a)
  BY <1>3, <1>1 DEF add_signer, reconfigure
<1>4. CASE \E a \in Addresses : remove_signer(a)
  BY <1>4, <1>1 DEF remove_signer, reconfigure
<1>5. CASE \E S \in GuardianSets : set_emergency_guardians(S)
  BY <1>5 DEF set_emergency_guardians
<1>6. CASE \E t \in 1 .. MAX_SIGNERS : set_threshold(t)
  BY <1>6, <1>1 DEF set_threshold, reconfigure
<1>7. CASE \E a \in Addresses, w \in Weights : set_vote_weight(a, w)
  <2>1. PICK a \in Addresses, w \in Weights : set_vote_weight(a, w)
    BY <1>7
  <2>2. /\ DOMAIN weights' \subseteq Addresses
        /\ \A x \in DOMAIN weights' : weights'[x] \in 0 .. U64Max
    BY <2>1 DEF set_vote_weight, put
  <2> QED BY <2>1, <2>2 DEF set_vote_weight
<1>8. CASE \E g \in GracePeriods : set_grace_period(g)
  BY <1>8 DEF set_grace_period
<1> QED
  BY <1>2, <1>3, <1>4, <1>5, <1>6, <1>7, <1>8 DEF AdminCall

\* A new proposal.
LEMMA ProposeTyped ==
    ASSUME GovTypeOK, NEW a \in Addresses, NEW payload \in Payloads, propose(a, payload)
    PROVE  GovTypeOK'
<1> USE GovernanceAssumption
<1> DEFINE p == [proposer |-> a, payload |-> payload, approvals |-> empty,
                 approval_weight |-> 0, created_at |-> now, eta |-> 0,
                 signer_generation |-> generation, status |-> "Proposed",
                 executed |-> FALSE, cancelled |-> FALSE]
<1>1. empty \in Votes
  <2>1. empty \in [{} -> 0 .. U64Max]
    BY DEF empty
  <2>2. [{} -> 0 .. U64Max] \in {[S -> 0 .. U64Max] : S \in SUBSET Addresses}
    OBVIOUS
  <2> QED BY <2>1, <2>2 DEF Votes
<1>2. p \in Proposal
  BY <1>1 DEF Proposal, GovTypeOK
<1>3. proposals' = put(proposals, next_proposal_id, p)
  BY DEF propose
<1> HIDE DEF p
<1>4. /\ DOMAIN proposals' = DOMAIN proposals \cup {next_proposal_id}
      /\ \A id \in DOMAIN proposals' : proposals'[id] \in Proposal
  BY <1>2, <1>3 DEF GovTypeOK, put
<1>5. next_proposal_id' \in 0 .. MaxProposals /\ DOMAIN proposals' \subseteq 0 .. next_proposal_id' - 1
  <2>1. /\ next_proposal_id \in 0 .. MaxProposals
        /\ DOMAIN proposals \subseteq 0 .. next_proposal_id - 1
    BY DEF GovTypeOK
  <2>2. next_proposal_id' = next_proposal_id + 1 /\ next_proposal_id < MaxProposals
    BY DEF propose
  <2>3. MaxProposals \in Nat
    BY DEF GovernanceAssumption
  <2> QED
    BY ONLY <1>4, <2>1, <2>2, <2>3
<1>6. DOMAIN quorum_info' \subseteq DOMAIN proposals' /\ UNCHANGED quorum_info
  BY <1>4 DEF GovTypeOK, propose
<1> QED
  BY <1>4, <1>5, <1>6 DEF propose, config, GovTypeOK

\* Saving a proposal, with or without a quorum.
LEMMA SaveTyped ==
    ASSUME GovTypeOK, NEW id \in DOMAIN proposals, NEW p \in Proposal,
           proposals' = [proposals EXCEPT ![id] = p],
           UNCHANGED <<now, config, next_proposal_id>>,
           \/ UNCHANGED quorum_info
           \/ \E info \in QuorumInfo : quorum_info' = put(quorum_info, id, info),
           \/ UNCHANGED dispatched
           \/ dispatched' \in Seq([id: ProposalIds, calls: {operations(q) : q \in Payloads}])
    PROVE  GovTypeOK'
<1>1. /\ DOMAIN proposals' = DOMAIN proposals
      /\ \A i \in DOMAIN proposals' : proposals'[i] \in Proposal
  BY DEF GovTypeOK
<1>2. /\ DOMAIN quorum_info' \subseteq DOMAIN proposals
      /\ \A i \in DOMAIN quorum_info' : quorum_info'[i] \in QuorumInfo
  <2>1. CASE UNCHANGED quorum_info
    BY <2>1 DEF GovTypeOK
  <2>2. CASE \E info \in QuorumInfo : quorum_info' = put(quorum_info, id, info)
    BY <2>2 DEF GovTypeOK, put
  <2> QED BY <2>1, <2>2
<1> QED
  BY <1>1, <1>2 DEF config, GovTypeOK

\* A vote keeps the record's width, as fits looked.
LEMMA ApproveTyped ==
    ASSUME GovTypeOK, NEW a \in Addresses, NEW id \in DOMAIN proposals, approve(a, id)
    PROVE  GovTypeOK'
<1> DEFINE p == proposals[id]
           w == signer_weight(a)
           counted == [p EXCEPT !.approvals = put(@, a, w), !.approval_weight = p.approval_weight + w]
<1>1. p \in Proposal /\ now \in 0 .. U64Max /\ threshold \in Nat
  BY DEF GovTypeOK
<1>2. w \in Nat
  BY GovernanceAssumption DEF signer_weight, GovTypeOK
<1>3. p.approval_weight \in Nat /\ p.approvals \in Votes
  BY <1>1 DEF Proposal
<1>4. p.approval_weight + w \in 0 .. U64Max /\ w \in 0 .. U64Max
  <2>1. p.approval_weight + w <= U64Max
    BY DEF approve, fits
  <2> QED BY <2>1, <1>2, <1>3, GovernanceAssumption
<1>5. put(p.approvals, a, w) \in Votes
  BY <1>3, <1>4, VoteAdded
<1> HIDE DEF w
<1>6. counted \in Proposal
  BY <1>1, <1>4, <1>5 DEF Proposal
<1> HIDE DEF p
<1>7. CASE /\ fits(now + GOVERNANCE_TIMELOCK_SECONDS)
           /\ proposals' = [proposals EXCEPT ![id] =
                 [counted EXCEPT !.eta = now + GOVERNANCE_TIMELOCK_SECONDS, !.status = "Queued"]]
           /\ quorum_info' = put(quorum_info, id, [reached_at |-> now, threshold |-> threshold])
  <2>1. now + GOVERNANCE_TIMELOCK_SECONDS \in 0 .. U64Max
    BY <1>1, <1>7, GovernanceAssumption DEF fits
  <2>2. [counted EXCEPT !.eta = now + GOVERNANCE_TIMELOCK_SECONDS, !.status = "Queued"] \in Proposal
    BY <1>6, <2>1 DEF Proposal
  <2>3. [reached_at |-> now, threshold |-> threshold] \in QuorumInfo
    BY <1>1 DEF QuorumInfo
  <2>4. UNCHANGED <<now, config, next_proposal_id, dispatched>>
    BY DEF approve
  <2> HIDE DEF counted
  <2> QED BY <1>7, <2>2, <2>3, <2>4, SaveTyped
<1>8. CASE /\ proposals' = [proposals EXCEPT ![id] = [counted EXCEPT !.status = "Approved"]]
           /\ UNCHANGED quorum_info
  <2>1. [counted EXCEPT !.status = "Approved"] \in Proposal
    BY <1>6 DEF Proposal
  <2>2. UNCHANGED <<now, config, next_proposal_id, dispatched>>
    BY DEF approve
  <2> HIDE DEF counted
  <2> QED BY <1>8, <2>1, <2>2, SaveTyped
<1> QED
  BY <1>7, <1>8 DEF approve, p, w

\* Executing and cancelling.
LEMMA ExecuteTyped ==
    ASSUME GovTypeOK, NEW id \in DOMAIN proposals, execute(id)
    PROVE  GovTypeOK'
<1>1. proposals[id] \in Proposal /\ id \in ProposalIds
  BY GovernanceAssumption DEF GovTypeOK, ProposalIds
<1>2. executed(proposals[id]) \in Proposal
  BY <1>1 DEF executed, Proposal
<1>3. [id |-> id, calls |-> operations(proposals[id].payload)]
          \in [id: ProposalIds, calls: {operations(q) : q \in Payloads}]
  BY <1>1 DEF Proposal
<1>4. dispatched' \in Seq([id: ProposalIds, calls: {operations(q) : q \in Payloads}])
  BY <1>3 DEF execute, GovTypeOK
<1> QED
  BY <1>2, <1>4, SaveTyped DEF execute

LEMMA CancelTyped ==
    ASSUME GovTypeOK, NEW a, NEW id \in DOMAIN proposals, cancel_proposal(a, id)
    PROVE  GovTypeOK'
<1>1. proposals[id] \in Proposal
  BY DEF GovTypeOK
<1>2. [proposals[id] EXCEPT !.status = "Cancelled", !.cancelled = TRUE] \in Proposal
  BY <1>1 DEF Proposal
<1> QED
  BY <1>2, SaveTyped DEF cancel_proposal

\* Pruning removes a proposal together with its quorum.
LEMMA PruneTyped ==
    ASSUME GovTypeOK, NEW b, NEW n, prune_expired_proposals(b, n)
    PROVE  GovTypeOK'
BY DEF prune_expired_proposals, quorums_kept, Restrict, config, GovTypeOK

\* Every step keeps the types.
LEMMA StepTyped ==
    ASSUME GovTypeOK, [Next]_vars
    PROVE  GovTypeOK'
<1>1. CASE UNCHANGED vars
  BY <1>1 DEF vars, config, GovTypeOK
<1>2. CASE Tick
  BY <1>2, GovernanceAssumption DEF Tick, config, GovTypeOK
<1>3. CASE \E id \in DOMAIN proposals : ProposalCall(id)
  BY <1>3, ApproveTyped, CancelTyped, ExecuteTyped DEF ProposalCall
<1> QED
  BY <1>1, <1>2, <1>3, AdminTyped, ProposeTyped, PruneTyped DEF Next

\* Every stored value keeps its width: the weights of a proposal do not
\* overflow, and no quorum is left without its proposal.
THEOREM GovTypeSafe == Spec => []GovTypeOK
<1>1. Init => GovTypeOK
  BY InitTyped
<1>2. GovTypeOK /\ [Next]_vars => GovTypeOK'
  BY StepTyped
<1> QED
  BY <1>1, <1>2, PTL DEF Spec

-----------------------------------------------------------------------------
(* The inductive invariant.                                                *)

GovIndInv == GovTypeOK /\ GovInv /\ IsFiniteSet(signers)

\* init.
LEMMA InitDecides == Init => GovIndInv
<1> SUFFICES ASSUME Init PROVE GovIndInv
  OBVIOUS
<1>1. GovTypeOK
  BY InitTyped
<1>2. Cardinality(signers) <= MAX_SIGNERS /\ threshold \in 1 .. Cardinality(signers)
      /\ IsFiniteSet(signers)
  BY GovernanceAssumption DEF Init
<1>3. Len(rosters) = generation + 1
      /\ rosters[generation + 1] = [signers |-> signers, threshold |-> threshold]
  BY DEF Init
<1>4. DOMAIN proposals = {}
  BY DEF Init, empty
<1> QED
  BY <1>1, <1>2, <1>3, <1>4 DEF GovIndInv, GovInv, RosterCanDecide, ExecutedByItsRoster

\* A new generation disowns the open proposals and keeps the old rosters.
LEMMA NewGenerationKeeps ==
    ASSUME GovIndInv, signers' \subseteq Addresses, IsFiniteSet(signers'),
           Cardinality(signers') <= MAX_SIGNERS, threshold' \in 1 .. Cardinality(signers'),
           generation' = generation + 1,
           rosters' = Append(rosters, [signers |-> signers', threshold |-> threshold']),
           UNCHANGED <<proposals, quorum_info>>
    PROVE  GovInv' /\ IsFiniteSet(signers)'
<1>1. generation \in Nat /\ rosters \in Seq([signers: SUBSET Addresses, threshold: Nat])
      /\ Len(rosters) = generation + 1 /\ \A id \in DOMAIN proposals : proposals[id] \in Proposal
  BY DEF GovIndInv, GovTypeOK, GovInv, RosterCanDecide
<1>2. Len(rosters') = generation' + 1
      /\ rosters'[generation' + 1] = [signers |-> signers', threshold |-> threshold']
      /\ \A g \in 0 .. generation : rosters'[g + 1] = rosters[g + 1]
  BY <1>1
<1>3. RosterCanDecide'
  BY <1>2 DEF RosterCanDecide
<1>4. ASSUME NEW id \in DOMAIN proposals
      PROVE  ProposalInv(id, proposals[id])'
  <2>1. ProposalInv(id, proposals[id]) /\ proposals[id].signer_generation \in Nat
    BY <1>1 DEF GovIndInv, GovInv, Proposal
  <2> QED BY <2>1, <1>1 DEF ProposalInv
<1>5. ExecutedByItsRoster'
  <2> SUFFICES ASSUME NEW id \in DOMAIN proposals, proposals[id].status = "Executed"
               PROVE  LET r == rosters'[proposals[id].signer_generation + 1]
                      IN  /\ DOMAIN proposals[id].approvals \subseteq r.signers
                          /\ quorum_info[id].threshold = r.threshold
                          /\ proposals[id].approval_weight >= r.threshold
    BY DEF ExecutedByItsRoster, roster_of
  <2>1. proposals[id].signer_generation \in 0 .. generation
    BY <1>1 DEF GovIndInv, GovInv, ProposalInv, Proposal
  <2> QED
    BY <2>1, <1>2 DEF GovIndInv, GovInv, ExecutedByItsRoster, roster_of
<1> QED
  BY <1>3, <1>4, <1>5 DEF GovInv

\* The admin's calls.
LEMMA AdminKeeps ==
    ASSUME GovIndInv, AdminCall
    PROVE  GovInv' /\ IsFiniteSet(signers)'
<1> USE GovernanceAssumption
<1>1. signers \subseteq Addresses /\ IsFiniteSet(signers) /\ Cardinality(signers) \in Nat
      /\ threshold \in 1 .. Cardinality(signers) /\ Cardinality(signers) <= MAX_SIGNERS
  BY FS_CardinalityType DEF GovIndInv, GovTypeOK, GovInv, RosterCanDecide
<1>2. CASE UNCHANGED <<signers, threshold, generation, rosters, proposals, quorum_info>>
  BY <1>2 DEF GovIndInv, GovInv, RosterCanDecide, ExecutedByItsRoster, ProposalInv, roster_of
<1>3. CASE \E a \in Addresses : add_signer(a)
  <2>1. PICK a \in Addresses : add_signer(a)
    BY <1>3
  <2>2. IsFiniteSet(signers \cup {a}) /\ Cardinality(signers \cup {a}) = Cardinality(signers) + 1
    BY <1>1, <2>1, FS_AddElement DEF add_signer
  <2> QED
    BY <2>1, <2>2, <1>1, NewGenerationKeeps DEF add_signer, reconfigure
<1>4. CASE \E a \in Addresses : remove_signer(a)
  <2>1. PICK a \in Addresses : remove_signer(a)
    BY <1>4
  <2>2. IsFiniteSet(signers \ {a}) /\ Cardinality(signers \ {a}) = Cardinality(signers) - 1
    BY <1>1, <2>1, FS_RemoveElement DEF remove_signer
  <2> QED
    BY <2>1, <2>2, <1>1, NewGenerationKeeps DEF remove_signer, reconfigure
<1>5. CASE \E t \in 1 .. MAX_SIGNERS : set_threshold(t)
  BY <1>5, <1>1, NewGenerationKeeps DEF set_threshold, reconfigure
<1> QED
  BY <1>2, <1>3, <1>4, <1>5
  DEF AdminCall, set_admin, set_emergency_guardians, set_vote_weight, set_grace_period

\* A call that changes one proposal keeps the invariant when the proposal
\* saved satisfies it.
LEMMA SaveKeeps ==
    ASSUME GovIndInv, NEW id \in DOMAIN proposals, NEW p,
           proposals' = [proposals EXCEPT ![id] = p],
           UNCHANGED <<signers, threshold, generation, rosters>>,
           \/ UNCHANGED quorum_info
           \/ \E info : quorum_info' = put(quorum_info, id, info),
           ProposalInv(id, proposals[id])',
           p.status = "Executed" =>
               /\ DOMAIN p.approvals \subseteq rosters[p.signer_generation + 1].signers
               /\ quorum_info'[id].threshold = rosters[p.signer_generation + 1].threshold
               /\ p.approval_weight >= rosters[p.signer_generation + 1].threshold
    PROVE  GovInv' /\ IsFiniteSet(signers)'
<1>1. DOMAIN proposals' = DOMAIN proposals /\ proposals'[id] = p
      /\ \A i \in DOMAIN proposals : i # id => proposals'[i] = proposals[i]
  OBVIOUS
<1>2. \A i : i # id => (i \in DOMAIN quorum_info' <=> i \in DOMAIN quorum_info)
                       /\ (i \in DOMAIN quorum_info => quorum_info'[i] = quorum_info[i])
  BY DEF put
<1>3. RosterCanDecide'
  BY DEF GovIndInv, GovInv, RosterCanDecide
<1>4. ASSUME NEW i \in DOMAIN proposals, i # id
      PROVE  ProposalInv(i, proposals[i])'
  BY <1>1, <1>2, <1>4 DEF GovIndInv, GovInv, ProposalInv
<1>5. ASSUME NEW i \in DOMAIN proposals, i # id, proposals[i].status = "Executed"
      PROVE  /\ DOMAIN proposals[i].approvals \subseteq roster_of(proposals[i]).signers
             /\ quorum_info'[i].threshold = roster_of(proposals[i]).threshold
             /\ proposals[i].approval_weight >= roster_of(proposals[i]).threshold
  <2>1. ProposalInv(i, proposals[i])
    BY DEF GovIndInv, GovInv
  <2>2. i \in DOMAIN quorum_info
    BY <2>1, <1>5 DEF ProposalInv
  <2> QED BY <2>2, <1>2, <1>5 DEF GovIndInv, GovInv, ExecutedByItsRoster
<1>6. \A i \in DOMAIN proposals' : ProposalInv(i, proposals[i])'
  BY <1>1, <1>4
<1>7. ExecutedByItsRoster'
  BY <1>1, <1>5 DEF ExecutedByItsRoster, roster_of
<1> QED
  BY <1>3, <1>6, <1>7 DEF GovIndInv, GovInv

\* A vote is a present signer's, and a quorum is one of the present threshold.
LEMMA ApproveKeeps ==
    ASSUME GovIndInv, NEW a \in Addresses, NEW id \in DOMAIN proposals, approve(a, id)
    PROVE  GovInv' /\ IsFiniteSet(signers)'
<1> DEFINE p == proposals[id]
           counted == [p EXCEPT !.approvals = put(@, a, signer_weight(a)),
                                !.approval_weight = p.approval_weight + signer_weight(a)]
           queued == [counted EXCEPT !.eta = now + GOVERNANCE_TIMELOCK_SECONDS, !.status = "Queued"]
           approved == [counted EXCEPT !.status = "Approved"]
           info == [reached_at |-> now, threshold |-> threshold]
<1>1. p \in Proposal /\ ProposalInv(id, p)
  BY DEF GovIndInv, GovTypeOK, GovInv
<1>2. a \in signers /\ p.status \in {"Proposed", "Approved"}
  BY DEF approve, may_approve
<1>3. UNCHANGED <<signers, threshold, generation, rosters>>
  BY DEF approve, config
<1>4. /\ DOMAIN counted.approvals = DOMAIN p.approvals \cup {a}
      /\ counted.signer_generation = p.signer_generation
      /\ counted.executed = p.executed /\ counted.cancelled = p.cancelled
  BY <1>1 DEF Proposal, put
<1>5. /\ queued.approvals = counted.approvals /\ queued.signer_generation = p.signer_generation
      /\ queued.status = "Queued"
      /\ queued.executed = p.executed /\ queued.cancelled = p.cancelled
  BY <1>1, <1>4 DEF Proposal
<1>6. /\ approved.approvals = counted.approvals /\ approved.signer_generation = p.signer_generation
      /\ approved.status = "Approved"
      /\ approved.executed = p.executed /\ approved.cancelled = p.cancelled
  BY <1>1, <1>4 DEF Proposal
<1>7. \/ proposals' = [proposals EXCEPT ![id] = queued] /\ quorum_info' = put(quorum_info, id, info)
      \/ proposals' = [proposals EXCEPT ![id] = approved] /\ UNCHANGED quorum_info
  BY DEF approve
<1> HIDE DEF p, counted, queued, approved, info
<1>8. CASE proposals' = [proposals EXCEPT ![id] = queued] /\ quorum_info' = put(quorum_info, id, info)
  <2>1. proposals'[id] = queued /\ id \in DOMAIN quorum_info' /\ quorum_info'[id].threshold = threshold
    BY <1>8 DEF put, info
  <2>2. ProposalInv(id, proposals[id])'
    BY <2>1, <1>1, <1>2, <1>3, <1>4, <1>5 DEF ProposalInv
  <2> QED BY <1>3, <1>5, <1>8, <2>2, SaveKeeps
<1>9. CASE proposals' = [proposals EXCEPT ![id] = approved] /\ UNCHANGED quorum_info
  <2>1. ProposalInv(id, proposals[id])'
    BY <1>1, <1>2, <1>3, <1>4, <1>6, <1>9 DEF ProposalInv
  <2> QED BY <1>3, <1>6, <1>9, <2>1, SaveKeeps
<1> QED
  BY <1>7, <1>8, <1>9

\* What is executed is of the present generation.
LEMMA ExecuteKeeps ==
    ASSUME GovIndInv, NEW id \in DOMAIN proposals, execute(id)
    PROVE  GovInv' /\ IsFiniteSet(signers)'
<1> DEFINE p == proposals[id]
           q == executed(p)
<1>1. p \in Proposal /\ ProposalInv(id, p) /\ RosterCanDecide /\ generation \in Nat
  BY DEF GovIndInv, GovTypeOK, GovInv
<1>2. /\ p.status = "Queued" /\ p.signer_generation = generation
      /\ id \in DOMAIN quorum_info /\ p.approval_weight >= quorum_info[id].threshold
  BY DEF execute, may_execute
<1>3. UNCHANGED <<signers, threshold, generation, rosters, quorum_info>>
      /\ proposals' = [proposals EXCEPT ![id] = q]
  BY DEF execute, config
<1>4. /\ q.approvals = p.approvals /\ q.signer_generation = p.signer_generation
      /\ q.approval_weight = p.approval_weight
      /\ q.status = "Executed" /\ q.executed = TRUE /\ q.cancelled = p.cancelled
  BY <1>1 DEF Proposal, executed
<1> HIDE DEF p, q
<1>5. ProposalInv(id, proposals[id])'
  BY <1>1, <1>2, <1>3, <1>4 DEF ProposalInv
<1>6. /\ DOMAIN p.approvals \subseteq rosters[generation + 1].signers
      /\ quorum_info[id].threshold = rosters[generation + 1].threshold
  BY <1>1, <1>2 DEF ProposalInv, RosterCanDecide
<1> QED
  BY <1>2, <1>3, <1>4, <1>5, <1>6, SaveKeeps

\* Cancelling sets the status and the flag together.
LEMMA CancelKeeps ==
    ASSUME GovIndInv, NEW a, NEW id \in DOMAIN proposals, cancel_proposal(a, id)
    PROVE  GovInv' /\ IsFiniteSet(signers)'
<1> DEFINE p == proposals[id]
           q == [p EXCEPT !.status = "Cancelled", !.cancelled = TRUE]
<1>1. p \in Proposal /\ ProposalInv(id, p)
  BY DEF GovIndInv, GovTypeOK, GovInv
<1>2. UNCHANGED <<signers, threshold, generation, rosters, quorum_info>>
      /\ proposals' = [proposals EXCEPT ![id] = q]
  BY DEF cancel_proposal, config
<1>3. p.status \notin {"Executed", "Cancelled"}
  BY DEF cancel_proposal, is_terminal
<1>4. /\ q.approvals = p.approvals /\ q.signer_generation = p.signer_generation
      /\ q.status = "Cancelled" /\ q.executed = p.executed /\ q.cancelled = TRUE
  BY <1>1 DEF Proposal
<1> HIDE DEF p, q
<1>5. ProposalInv(id, proposals[id])'
  BY <1>1, <1>2, <1>3, <1>4 DEF ProposalInv
<1> QED
  BY <1>2, <1>4, <1>5, SaveKeeps

\* A new proposal has no votes and no quorum.
LEMMA ProposeKeeps ==
    ASSUME GovIndInv, NEW a \in Addresses, NEW payload \in Payloads, propose(a, payload)
    PROVE  GovInv' /\ IsFiniteSet(signers)'
<1>0. PICK k \in Nat : k = next_proposal_id
  BY DEF GovIndInv, GovTypeOK
<1> DEFINE p == [proposer |-> a, payload |-> payload, approvals |-> empty,
                 approval_weight |-> 0, created_at |-> now, eta |-> 0,
                 signer_generation |-> generation, status |-> "Proposed",
                 executed |-> FALSE, cancelled |-> FALSE]
<1>1. k \in Nat /\ k \notin DOMAIN proposals /\ DOMAIN quorum_info \subseteq DOMAIN proposals
      /\ generation \in Nat
  BY <1>0 DEF GovIndInv, GovTypeOK
<1>2. proposals' = put(proposals, k, p)
      /\ UNCHANGED <<signers, threshold, generation, rosters, quorum_info>>
  BY <1>0 DEF propose, config
<1>3. p.status = "Proposed" /\ ~p.executed /\ ~p.cancelled /\ p.signer_generation = generation
      /\ DOMAIN p.approvals = {}
  BY DEF empty
<1> HIDE DEF p
<1>4. DOMAIN proposals' = DOMAIN proposals \cup {k} /\ proposals'[k] = p
      /\ \A id \in DOMAIN proposals : proposals'[id] = proposals[id]
  BY <1>1, <1>2 DEF put
<1>5. RosterCanDecide'
  BY <1>2 DEF GovIndInv, GovInv, RosterCanDecide
<1>6. \A id \in DOMAIN proposals' : ProposalInv(id, proposals[id])'
  <2>1. ProposalInv(k, proposals[k])'
    <3>1. k \notin DOMAIN quorum_info' /\ proposals'[k] = p /\ generation' = generation
      BY <1>1, <1>2, <1>4
    <3>2. p.signer_generation <= generation
      BY <1>1, <1>3
    <3>3. /\ p.executed <=> p.status = "Executed"
          /\ p.cancelled <=> p.status = "Cancelled"
      BY <1>3
    <3> QED BY <3>1, <3>2, <3>3, <1>3 DEF ProposalInv
  <2>2. ASSUME NEW id \in DOMAIN proposals PROVE ProposalInv(id, proposals[id])'
    <3>1. ProposalInv(id, proposals[id])
      BY DEF GovIndInv, GovInv
    <3>2. proposals'[id] = proposals[id]
      BY <1>4
    <3> QED BY <1>2, <3>1, <3>2 DEF ProposalInv
  <2> QED BY <2>1, <2>2, <1>4
<1>7. ExecutedByItsRoster'
  BY <1>2, <1>3, <1>4 DEF GovIndInv, GovInv, ExecutedByItsRoster, roster_of
<1> QED
  BY <1>2, <1>5, <1>6, <1>7 DEF GovIndInv, GovInv

\* A prune keeps the quorums of the proposals it keeps.
LEMMA PruneKeeps ==
    ASSUME GovIndInv, NEW b, NEW n, prune_expired_proposals(b, n)
    PROVE  GovInv' /\ IsFiniteSet(signers)'
<1>1. PICK gone : /\ proposals' = Restrict(proposals, DOMAIN proposals \ gone)
                  /\ quorum_info' = Restrict(quorum_info, DOMAIN quorum_info \ gone)
  BY DEF prune_expired_proposals, quorums_kept
<1>2. UNCHANGED <<signers, threshold, generation, rosters>>
  BY DEF prune_expired_proposals, config
<1>3. /\ DOMAIN proposals' = DOMAIN proposals \ gone
      /\ \A id \in DOMAIN proposals' : /\ proposals'[id] = proposals[id]
                                       /\ id \in DOMAIN quorum_info' <=> id \in DOMAIN quorum_info
                                       /\ id \in DOMAIN quorum_info => quorum_info'[id] = quorum_info[id]
  BY <1>1 DEF Restrict
<1>4. RosterCanDecide'
  BY <1>2 DEF GovIndInv, GovInv, RosterCanDecide
<1>5. \A id \in DOMAIN proposals' : ProposalInv(id, proposals[id])'
  BY <1>2, <1>3 DEF GovIndInv, GovInv, ProposalInv
<1>6. ExecutedByItsRoster'
  <2> SUFFICES ASSUME NEW id \in DOMAIN proposals', proposals[id].status = "Executed"
               PROVE  /\ DOMAIN proposals[id].approvals \subseteq roster_of(proposals[id]).signers
                      /\ quorum_info'[id].threshold = roster_of(proposals[id]).threshold
                      /\ proposals[id].approval_weight >= roster_of(proposals[id]).threshold
    BY <1>2, <1>3 DEF ExecutedByItsRoster, roster_of
  <2>1. id \in DOMAIN proposals /\ id \in DOMAIN quorum_info
    BY <1>3 DEF GovIndInv, GovInv, ProposalInv
  <2> QED BY <2>1, <1>3 DEF GovIndInv, GovInv, ExecutedByItsRoster
<1> QED
  BY <1>2, <1>4, <1>5, <1>6 DEF GovIndInv, GovInv

\* Every step keeps the inductive invariant.
LEMMA StepDecides ==
    ASSUME GovIndInv, [Next]_vars
    PROVE  GovIndInv'
<1>1. GovTypeOK'
  BY StepTyped DEF GovIndInv
<1>2. CASE UNCHANGED <<config, proposals, quorum_info>>
  BY <1>1, <1>2
  DEF config, GovIndInv, GovInv, RosterCanDecide, ExecutedByItsRoster, ProposalInv, roster_of
<1>3. CASE AdminCall
  BY <1>1, <1>3, AdminKeeps DEF GovIndInv
<1>4. CASE \E a \in Addresses, payload \in Payloads : propose(a, payload)
  BY <1>1, <1>4, ProposeKeeps DEF GovIndInv
<1>5. CASE \E id \in DOMAIN proposals : ProposalCall(id)
  BY <1>1, <1>5, ApproveKeeps, CancelKeeps, ExecuteKeeps DEF GovIndInv, ProposalCall
<1>6. CASE \E b \in ProposalIds, n \in 1 .. MaxProposals : prune_expired_proposals(b, n)
  BY <1>1, <1>6, PruneKeeps DEF GovIndInv
<1> QED
  BY <1>2, <1>3, <1>4, <1>5, <1>6 DEF Next, Tick, vars

\* The inductive invariant holds throughout.
THEOREM GovSafe == Spec => []GovIndInv
<1>1. Init => GovIndInv
  BY InitDecides
<1>2. GovIndInv /\ [Next]_vars => GovIndInv'
  BY StepDecides
<1> QED
  BY <1>1, <1>2, PTL DEF Spec

\* The signers can always reach the threshold; flags and status of a proposal
\* agree; a quorum is recorded exactly when one was reached.
THEOREM GovInvSafe == Spec => []GovInv
BY GovSafe, PTL DEF GovIndInv

\* Whatever was executed was approved by signers of its own generation and by
\* that generation's threshold, although approve looks at neither.
THEOREM ExecutedByItsRosterSafe == Spec => []ExecutedByItsRoster
BY GovSafe, PTL DEF GovIndInv, GovInv
-----------------------------------------------------------------------------
(* The count of the votes.                                                 *)

\* A proposal whose weight is the sum of its finitely many votes.
Counted(p) ==
    /\ IsFiniteSet(DOMAIN p.approvals)
    /\ p.approval_weight = SumFunctionOnSet(p.approvals, DOMAIN p.approvals)

AllCounted == \A id \in DOMAIN proposals : Counted(proposals[id])

\* A saved proposal that is counted leaves all counted.
LEMMA SaveCounts ==
    ASSUME AllCounted, NEW id \in DOMAIN proposals, NEW p, Counted(p),
           proposals' = [proposals EXCEPT ![id] = p]
    PROVE  AllCounted'
BY DEF AllCounted

\* A vote is a new voter's, so that it adds its weight to the sum.
LEMMA ApproveCounts ==
    ASSUME GovTypeOK, AllCounted, NEW a \in Addresses, NEW id \in DOMAIN proposals,
           approve(a, id)
    PROVE  AllCounted'
<1> DEFINE p == proposals[id]
           w == signer_weight(a)
           more == put(p.approvals, a, w)
           counted == [p EXCEPT !.approvals = put(@, a, w), !.approval_weight = p.approval_weight + w]
           queued == [counted EXCEPT !.eta = now + GOVERNANCE_TIMELOCK_SECONDS, !.status = "Queued"]
           approved == [counted EXCEPT !.status = "Approved"]
<1>1. p \in Proposal /\ Counted(p) /\ a \notin DOMAIN p.approvals
  BY DEF GovTypeOK, AllCounted, approve, may_approve
<1>2. w \in Int
  BY GovernanceAssumption DEF signer_weight, GovTypeOK
<1>3. \A b \in DOMAIN p.approvals : p.approvals[b] \in Int
  <2>1. PICK T \in SUBSET Addresses : p.approvals \in [T -> 0 .. U64Max]
    BY <1>1 DEF Proposal, Votes
  <2> QED BY <2>1
<1> DEFINE voters == DOMAIN p.approvals
<1>4. /\ DOMAIN more = voters \cup {a} /\ more[a] = w
      /\ \A b \in voters : more[b] = p.approvals[b]
  BY <1>1 DEF put
<1>5. counted.approvals = more /\ counted.approval_weight = p.approval_weight + w
  BY <1>1 DEF Proposal
<1>6. /\ queued.approvals = counted.approvals /\ queued.approval_weight = counted.approval_weight
      /\ approved.approvals = counted.approvals
      /\ approved.approval_weight = counted.approval_weight
  BY <1>1 DEF Proposal
<1>7. \/ proposals' = [proposals EXCEPT ![id] = queued]
      \/ proposals' = [proposals EXCEPT ![id] = approved]
  BY DEF approve
<1> HIDE DEF more, counted, queued, approved, w
<1>8. SumFunctionOnSet(more, voters \cup {a}) = p.approval_weight + w
  <2>1. IsFiniteSet(voters) /\ p.approval_weight = SumFunctionOnSet(p.approvals, voters)
    BY <1>1 DEF Counted
  <2> HIDE DEF p
  <2>2. a \notin voters /\ \A b \in voters \cup {a} : more[b] \in Int
    BY <1>1, <1>2, <1>3, <1>4 DEF p
  <2>3. SumFunctionOnSet(more, voters \cup {a}) = SumFunctionOnSet(more, voters) + more[a]
    <3> HIDE DEF voters
    <3> QED BY <2>1, <2>2, SumWith
  <2>4. SumFunctionOnSet(p.approvals, voters) = SumFunctionOnSet(more, voters)
    <3>1. \A b \in voters : p.approvals[b] \in Int /\ more[b] = p.approvals[b]
      BY <1>3, <1>4
    <3> HIDE DEF voters
    <3> QED BY <2>1, <3>1, SumAgrees
  <2> QED BY <1>4, <2>1, <2>3, <2>4
<1>9. IsFiniteSet(voters \cup {a})
  BY <1>1, FS_AddElement DEF Counted
<1>10. Counted(queued) /\ Counted(approved)
  BY <1>4, <1>5, <1>6, <1>8, <1>9 DEF Counted
<1> QED
  BY <1>7, <1>10, SaveCounts

\* Every other step leaves the votes and the weights alone.
LEMMA StepCounts ==
    ASSUME GovTypeOK, AllCounted, [Next]_vars
    PROVE  AllCounted'
<1>1. CASE UNCHANGED proposals
  BY <1>1 DEF AllCounted
<1>2. CASE AdminCall
  BY <1>1, <1>2 DEF AdminCall, set_admin, add_signer, remove_signer, set_emergency_guardians,
                    set_threshold, set_vote_weight, set_grace_period, reconfigure
<1>3. ASSUME NEW a \in Addresses, NEW payload \in Payloads, propose(a, payload)
      PROVE  AllCounted'
  <2> DEFINE p == [proposer |-> a, payload |-> payload, approvals |-> empty,
                   approval_weight |-> 0, created_at |-> now, eta |-> 0,
                   signer_generation |-> generation, status |-> "Proposed",
                   executed |-> FALSE, cancelled |-> FALSE]
  <2>1. proposals' = put(proposals, next_proposal_id, p)
    BY <1>3 DEF propose
  <2>2. DOMAIN p.approvals = {} /\ p.approval_weight = 0
    BY DEF empty
  <2> HIDE DEF p
  <2>3. Counted(p)
    BY <2>2, SumEmpty, FS_EmptySet DEF Counted
  <2> QED BY <2>1, <2>3 DEF AllCounted, put
<1>4. ASSUME NEW id \in DOMAIN proposals, ProposalCall(id)
      PROVE  AllCounted'
  <2>1. proposals[id] \in Proposal /\ Counted(proposals[id])
    BY DEF GovTypeOK, AllCounted
  <2>2. ASSUME NEW a \in Addresses, approve(a, id) PROVE AllCounted'
    BY <2>2, ApproveCounts
  <2>3. ASSUME NEW a \in Addresses, cancel_proposal(a, id) PROVE AllCounted'
    <3> DEFINE q == [proposals[id] EXCEPT !.status = "Cancelled", !.cancelled = TRUE]
    <3>1. Counted(q)
      BY <2>1 DEF Counted, Proposal
    <3> QED BY <2>3, <3>1, SaveCounts DEF cancel_proposal
  <2>4. CASE execute(id)
    <3>1. Counted(executed(proposals[id]))
      BY <2>1 DEF Counted, Proposal, executed
    <3> QED BY <2>4, <3>1, SaveCounts DEF execute
  <2> QED BY <1>4, <2>2, <2>3, <2>4 DEF ProposalCall
<1>5. ASSUME NEW b, NEW n, prune_expired_proposals(b, n)
      PROVE  AllCounted'
  BY <1>5 DEF prune_expired_proposals, Restrict, AllCounted
<1> QED
  BY <1>1, <1>2, <1>3, <1>4, <1>5 DEF Next, Tick, vars

\* The running weight of a proposal is the sum of its votes: nobody's vote is
\* counted twice, whatever happens to the signers and the weights meanwhile.
THEOREM EveryVoteAlwaysCountsOnce == Spec => []EveryVoteCountsOnce
<1>1. Init => AllCounted
  BY DEF Init, AllCounted, empty
<1>2. GovTypeOK /\ AllCounted /\ [Next]_vars => AllCounted'
  BY StepCounts
<1>3. AllCounted => EveryVoteCountsOnce
  BY DEF AllCounted, Counted, EveryVoteCountsOnce
<1> QED
  BY <1>1, <1>2, <1>3, GovTypeSafe, PTL DEF Spec

-----------------------------------------------------------------------------
(* What becomes of a proposal, proved from the same inductive invariant:   *)
(* it is dispatched when it is executed and only then, its decision        *)
(* stands, and the contract implements the timelock of Timelock.tla.       *)

\* What an approval, a cancellation and an execution write, for every step
\* that leaves the payload, the age and the generation alone.
Saves(id, q) ==
    /\ proposals' = [proposals EXCEPT ![id] = q]
    /\ q.payload = proposals[id].payload
    /\ q.created_at = proposals[id].created_at
    /\ q.signer_generation = proposals[id].signer_generation

\* An approval that does not reach the quorum, and one that does.
LEMMA ApproveSaves ==
    ASSUME GovIndInv, NEW a \in Addresses, NEW id \in DOMAIN proposals, approve(a, id)
    PROVE  /\ proposals[id].status \in {"Proposed", "Approved"}
           /\ UNCHANGED <<now, next_proposal_id, dispatched>>
           /\ \E q : /\ Saves(id, q)
                     /\ \/ q.status = "Approved" /\ UNCHANGED quorum_info
                        \/ /\ q.status = "Queued"
                           /\ quorum_info' = put(quorum_info, id, [reached_at |-> now, threshold |-> threshold])
<1> DEFINE p == proposals[id]
           w == signer_weight(a)
           counted == [p EXCEPT !.approvals = put(@, a, w), !.approval_weight = p.approval_weight + w]
           queued == [counted EXCEPT !.eta = now + GOVERNANCE_TIMELOCK_SECONDS, !.status = "Queued"]
           approved == [counted EXCEPT !.status = "Approved"]
<1>1. p \in Proposal
  BY DEF GovIndInv, GovTypeOK
<1>2. /\ counted.payload = p.payload /\ counted.created_at = p.created_at
      /\ counted.signer_generation = p.signer_generation
      /\ queued = [counted EXCEPT !.eta = now + GOVERNANCE_TIMELOCK_SECONDS, !.status = "Queued"]
      /\ approved = [counted EXCEPT !.status = "Approved"]
      /\ queued.status = "Queued" /\ approved.status = "Approved"
      /\ queued.payload = p.payload /\ queued.created_at = p.created_at
      /\ queued.signer_generation = p.signer_generation
      /\ approved.payload = p.payload /\ approved.created_at = p.created_at
      /\ approved.signer_generation = p.signer_generation
  BY <1>1 DEF Proposal
<1>3. p.status \in {"Proposed", "Approved"} /\ UNCHANGED <<now, next_proposal_id, dispatched>>
  BY DEF approve, may_approve
<1>4. \/ /\ proposals' = [proposals EXCEPT ![id] = queued]
         /\ quorum_info' = put(quorum_info, id, [reached_at |-> now, threshold |-> threshold])
      \/ proposals' = [proposals EXCEPT ![id] = approved] /\ UNCHANGED quorum_info
  BY DEF approve
<1> HIDE DEF counted, queued, approved
<1> QED
  BY <1>2, <1>3, <1>4 DEF Saves

LEMMA ExecuteSaves ==
    ASSUME GovIndInv, NEW id \in DOMAIN proposals, execute(id)
    PROVE  /\ proposals[id].status = "Queued" /\ id \in DOMAIN quorum_info
           /\ now >= executable_after(quorum_info[id])
           /\ is_dispatchable(proposals[id].payload)
           /\ dispatched' = Append(dispatched,
                 [id |-> id, calls |-> operations(proposals[id].payload)])
           /\ UNCHANGED <<now, next_proposal_id, quorum_info>>
           /\ \E q : /\ Saves(id, q) /\ q.status = "Executed"
                     /\ q.approvals = proposals[id].approvals /\ q.eta = proposals[id].eta
<1>1. proposals[id] \in Proposal
  BY DEF GovIndInv, GovTypeOK
<1> DEFINE q == executed(proposals[id])
<1>2. /\ q.status = "Executed" /\ q.payload = proposals[id].payload
      /\ q.created_at = proposals[id].created_at
      /\ q.signer_generation = proposals[id].signer_generation
      /\ q.approvals = proposals[id].approvals /\ q.eta = proposals[id].eta
  BY <1>1 DEF Proposal, executed
<1>3. proposals' = [proposals EXCEPT ![id] = q]
  BY DEF execute
<1>4. Saves(id, q)
  BY <1>2, <1>3 DEF Saves
<1> HIDE DEF q
<1> QED
  BY <1>2, <1>4 DEF execute, may_execute

LEMMA CancelSaves ==
    ASSUME GovIndInv, NEW a, NEW id \in DOMAIN proposals, cancel_proposal(a, id)
    PROVE  /\ ~is_terminal(proposals[id].status)
           /\ UNCHANGED <<now, next_proposal_id, quorum_info, dispatched>>
           /\ \E q : /\ Saves(id, q) /\ q.status = "Cancelled"
                     /\ q.approvals = proposals[id].approvals /\ q.eta = proposals[id].eta
<1>1. proposals[id] \in Proposal
  BY DEF GovIndInv, GovTypeOK
<1> DEFINE q == [proposals[id] EXCEPT !.status = "Cancelled", !.cancelled = TRUE]
<1>2. /\ q.status = "Cancelled" /\ q.payload = proposals[id].payload
      /\ q.created_at = proposals[id].created_at
      /\ q.signer_generation = proposals[id].signer_generation
      /\ q.approvals = proposals[id].approvals /\ q.eta = proposals[id].eta
  BY <1>1 DEF Proposal
<1>3. proposals' = [proposals EXCEPT ![id] = q]
  BY DEF cancel_proposal
<1>4. Saves(id, q)
  BY <1>2, <1>3 DEF Saves
<1> HIDE DEF q
<1> QED
  BY <1>2, <1>4 DEF cancel_proposal

LEMMA ProposeSaves ==
    ASSUME GovIndInv, NEW a \in Addresses, NEW payload \in Payloads, propose(a, payload)
    PROVE  /\ next_proposal_id \in ProposalIds /\ next_proposal_id \notin DOMAIN proposals
           /\ DOMAIN proposals' = DOMAIN proposals \cup {next_proposal_id}
           /\ \A id \in DOMAIN proposals : proposals'[id] = proposals[id]
           /\ proposals'[next_proposal_id].status = "Proposed"
           /\ next_proposal_id' = next_proposal_id + 1
           /\ UNCHANGED <<now, quorum_info, dispatched>>
BY GovernanceAssumption DEF GovIndInv, GovTypeOK, propose, put, ProposalIds

\* A prune removes a set of proposals that nobody can execute any more, with
\* their quorums.
LEMMA PruneRemoves ==
    ASSUME GovIndInv, NEW b, NEW n, prune_expired_proposals(b, n)
    PROVE  /\ UNCHANGED <<now, next_proposal_id, dispatched>>
           /\ \E gone \in SUBSET DOMAIN proposals :
                 /\ \A id \in gone : ~is_terminal(proposals[id].status) /\ proposal_is_expired(id)
                 /\ proposals' = [id \in DOMAIN proposals \ gone |-> proposals[id]]
                 /\ quorum_info' = [id \in DOMAIN quorum_info \ gone |-> quorum_info[id]]
<1> DEFINE candidates == {id \in page(b, n) \cap DOMAIN proposals : prunable(id)}
           gone == {id \in candidates : proposal_is_expired(id)}
<1>1. \A id \in gone : ~is_terminal(proposals[id].status)
  BY DEF prunable, is_terminal, GovIndInv, GovInv, ProposalInv
<1>2. proposals' = Restrict(proposals, DOMAIN proposals \ gone)
      /\ quorum_info' = Restrict(quorum_info, DOMAIN quorum_info \ gone)
  BY DEF prune_expired_proposals, quorums_kept
<1>3. proposals' = [id \in DOMAIN proposals \ gone |-> proposals[id]]
      /\ quorum_info' = [id \in DOMAIN quorum_info \ gone |-> quorum_info[id]]
  BY <1>2 DEF Restrict
<1>4. gone \in SUBSET DOMAIN proposals /\ \A id \in gone : proposal_is_expired(id)
  OBVIOUS
<1>5. UNCHANGED <<now, next_proposal_id, dispatched>>
  BY DEF prune_expired_proposals
<1> HIDE DEF gone
<1> QED
  BY <1>1, <1>3, <1>4, <1>5

\* The admin's calls and the passing of time.
LEMMA AdminLeaves ==
    ASSUME AdminCall
    PROVE  UNCHANGED <<now, next_proposal_id, proposals, quorum_info, dispatched>>
BY DEF AdminCall, set_admin, add_signer, remove_signer, set_emergency_guardians,
       set_threshold, reconfigure, set_vote_weight, set_grace_period

-----------------------------------------------------------------------------
(* Dispatched once for each execution.                                     *)

\* The executed proposals.
Done(f) == {id \in DOMAIN f : f[id].status = "Executed"}

LEMMA DispatchKept ==
    ASSUME DispatchedOncePerExecution, UNCHANGED dispatched, Done(proposals') = Done(proposals),
           \A id \in Done(proposals) : proposals'[id].payload = proposals[id].payload
    PROVE  DispatchedOncePerExecution'
<1>1. \A i \in DOMAIN dispatched : dispatched[i].id \in Done(proposals)
  BY DEF DispatchedOncePerExecution, Done
<1>2. \A i \in DOMAIN dispatched :
          proposals'[dispatched[i].id].payload = proposals[dispatched[i].id].payload
  BY <1>1
<1> QED
  BY <1>2 DEF DispatchedOncePerExecution, Done

\* Saving a record that was not executed and is not now.
LEMMA DispatchSaved ==
    ASSUME DispatchedOncePerExecution, UNCHANGED dispatched, NEW id \in DOMAIN proposals, NEW q,
           Saves(id, q), proposals[id].status # "Executed", q.status # "Executed"
    PROVE  DispatchedOncePerExecution'
<1>1. Done(proposals') = Done(proposals)
  BY DEF Saves, Done
<1>2. \A i \in Done(proposals) : proposals'[i].payload = proposals[i].payload
  BY DEF Saves, Done
<1> QED
  BY <1>1, <1>2, DispatchKept

\* The call of a queued proposal is new.
LEMMA DispatchAppended ==
    ASSUME GovIndInv, DispatchedOncePerExecution, NEW id \in DOMAIN proposals, execute(id)
    PROVE  DispatchedOncePerExecution'
<1> DEFINE payload == proposals[id].payload
           d == [id |-> id, calls |-> operations(payload)]
           n == Len(dispatched)
<1>1. PICK q : Saves(id, q) /\ q.status = "Executed"
  BY ExecuteSaves
<1>2. /\ proposals[id].status = "Queued" /\ is_dispatchable(payload)
      /\ dispatched' = Append(dispatched, d)
  BY ExecuteSaves
<1>3. dispatched \in Seq([id: ProposalIds, calls: {operations(p) : p \in Payloads}])
  BY DEF GovIndInv, GovTypeOK
<1>4. /\ n \in Nat /\ DOMAIN dispatched = 1 .. n /\ DOMAIN dispatched' = 1 .. n + 1
      /\ dispatched'[n + 1] = d
      /\ \A i \in 1 .. n : dispatched'[i] = dispatched[i]
  BY <1>2, <1>3
<1>5. /\ d.id = id /\ d.calls = operations(payload)
  OBVIOUS
<1>6. \A i \in 1 .. n : dispatched[i].id \in Done(proposals) /\ dispatched[i].id # id
  BY <1>2, <1>4 DEF DispatchedOncePerExecution, Done
<1>7. Done(proposals') = Done(proposals) \cup {id}
      /\ \A i \in DOMAIN proposals : proposals'[i].payload = proposals[i].payload
  BY <1>1 DEF Saves, Done
<1> HIDE DEF d, n
<1>8. \A i, j \in DOMAIN dispatched' : dispatched'[i].id = dispatched'[j].id => i = j
  <2> SUFFICES ASSUME NEW i \in 1 .. n + 1, NEW j \in 1 .. n + 1,
                      dispatched'[i].id = dispatched'[j].id
               PROVE  i = j
    BY <1>4
  <2>1. CASE i \in 1 .. n /\ j \in 1 .. n
    BY <2>1, <1>4 DEF DispatchedOncePerExecution
  <2>2. CASE i = n + 1 \/ j = n + 1
    BY <2>2, <1>4, <1>5, <1>6
  <2> QED BY <2>1, <2>2, <1>4
<1>9. {dispatched'[i].id : i \in DOMAIN dispatched'} = Done(proposals) \cup {id}
  <2>1. {dispatched[i].id : i \in 1 .. n} = Done(proposals)
    BY <1>4 DEF DispatchedOncePerExecution, Done
  <2>2. \A i \in 1 .. n + 1 : dispatched'[i].id \in Done(proposals) \cup {id}
    <3> TAKE i \in 1 .. n + 1
    <3>1. CASE i = n + 1
      BY <3>1, <1>4, <1>5
    <3>2. CASE i \in 1 .. n
      BY <3>2, <1>4, <1>6
    <3> QED BY <3>1, <3>2, <1>4
  <2>3. \A x \in Done(proposals) : \E i \in 1 .. n + 1 : dispatched'[i].id = x
    <3> TAKE x \in Done(proposals)
    <3>1. PICK i \in 1 .. n : dispatched[i].id = x
      BY <2>1
    <3>2. i \in 1 .. n + 1 /\ dispatched'[i].id = x
      BY <3>1, <1>4
    <3> QED BY <3>2
  <2>4. n + 1 \in 1 .. n + 1 /\ dispatched'[n + 1].id = id
    BY <1>4, <1>5
  <2> QED BY <1>4, <2>2, <2>3, <2>4
<1>10. ASSUME NEW i \in DOMAIN dispatched'
       PROVE  LET p == proposals'[dispatched'[i].id]
              IN  is_dispatchable(p.payload) /\ dispatched'[i].calls = operations(p.payload)
  <2>1. CASE i = n + 1
    BY <2>1, <1>2, <1>4, <1>5, <1>7
  <2>2. CASE i \in 1 .. n
    <3>1. /\ is_dispatchable(proposals[dispatched[i].id].payload)
          /\ dispatched[i].calls = operations(proposals[dispatched[i].id].payload)
      BY <2>2, <1>4 DEF DispatchedOncePerExecution
    <3>2. proposals'[dispatched[i].id].payload = proposals[dispatched[i].id].payload
      BY <2>2, <1>6, <1>7 DEF Done
    <3> QED BY <2>2, <3>1, <3>2, <1>4
  <2> QED BY <2>1, <2>2, <1>4
<1> QED
  BY <1>7, <1>8, <1>9, <1>10 DEF DispatchedOncePerExecution, Done

LEMMA StepDispatches ==
    ASSUME GovIndInv, DispatchedOncePerExecution, [Next]_vars
    PROVE  DispatchedOncePerExecution'
<1>1. CASE UNCHANGED <<proposals, dispatched>>
  BY <1>1, DispatchKept DEF Done
<1>2. CASE \E a \in Addresses, payload \in Payloads : propose(a, payload)
  <2>1. Done(proposals') = Done(proposals) /\ UNCHANGED dispatched
        /\ \A id \in Done(proposals) : proposals'[id].payload = proposals[id].payload
    BY <1>2, ProposeSaves DEF Done
  <2> QED BY <2>1, DispatchKept
<1>3. CASE \E id \in DOMAIN proposals : ProposalCall(id)
  <2>1. PICK id \in DOMAIN proposals : ProposalCall(id)
    BY <1>3
  <2>2. ASSUME NEW a \in Addresses, approve(a, id) PROVE DispatchedOncePerExecution'
    BY <2>2, ApproveSaves, DispatchSaved
  <2>3. ASSUME NEW a \in Addresses, cancel_proposal(a, id) PROVE DispatchedOncePerExecution'
    BY <2>3, CancelSaves, DispatchSaved DEF is_terminal
  <2> QED BY <2>1, <2>2, <2>3, DispatchAppended DEF ProposalCall
<1>4. CASE \E b \in ProposalIds, n \in 1 .. MaxProposals : prune_expired_proposals(b, n)
  <2>1. PICK gone \in SUBSET DOMAIN proposals :
            /\ \A id \in gone : ~is_terminal(proposals[id].status)
            /\ proposals' = [id \in DOMAIN proposals \ gone |-> proposals[id]]
    BY <1>4, PruneRemoves
  <2>2. Done(proposals') = Done(proposals)
        /\ \A id \in Done(proposals) : proposals'[id].payload = proposals[id].payload
    BY <2>1 DEF Done, is_terminal
  <2>3. UNCHANGED dispatched
    BY <1>4, PruneRemoves
  <2> QED BY <2>2, <2>3, DispatchKept
<1> QED
  BY <1>1, <1>2, <1>3, <1>4, AdminLeaves DEF Next, Tick, vars

\* Other contracts are called once for each proposal that was executed, with
\* the calls it was proposed with, and for no other reason.
THEOREM DispatchedOnce == Spec => []DispatchedOncePerExecution
<1>1. Init => DispatchedOncePerExecution
  BY DEF Init, empty, DispatchedOncePerExecution
<1>2. GovIndInv /\ DispatchedOncePerExecution /\ [Next]_vars => DispatchedOncePerExecution'
  BY StepDispatches
<1> QED
  BY <1>1, <1>2, GovSafe, PTL DEF Spec

-----------------------------------------------------------------------------
(* The age of what is executed.                                            *)

\* A record that is executed after a step was executed by it, or had been,
\* and its quorum is the one that was recorded.
LEMMA ExecutedBy ==
    ASSUME GovIndInv, [Next]_vars, NEW id \in DOMAIN proposals', proposals'[id].status = "Executed"
    PROVE  /\ id \in DOMAIN proposals
           /\ proposals'[id].created_at = proposals[id].created_at
           /\ quorum_info'[id] = quorum_info[id]
           /\ proposals[id].status = "Executed" \/ execute(id)
<1> DEFINE Goal == /\ id \in DOMAIN proposals
                   /\ proposals'[id].created_at = proposals[id].created_at
                   /\ quorum_info'[id] = quorum_info[id]
                   /\ proposals[id].status = "Executed" \/ execute(id)
<1>1. CASE UNCHANGED <<proposals, quorum_info>>
  BY <1>1
<1>2. CASE \E a \in Addresses, payload \in Payloads : propose(a, payload)
  BY <1>2, ProposeSaves
<1>3. CASE \E i \in DOMAIN proposals : ProposalCall(i)
  <2>1. PICK i \in DOMAIN proposals : ProposalCall(i)
    BY <1>3
  <2>2. ASSUME NEW a \in Addresses, approve(a, i) PROVE Goal
    <3>1. PICK q : /\ Saves(i, q) /\ q.status # "Executed"
                   /\ \/ UNCHANGED quorum_info
                      \/ quorum_info' = put(quorum_info, i, [reached_at |-> now, threshold |-> threshold])
      BY <2>2, ApproveSaves
    <3>2. id # i /\ proposals'[id] = proposals[id]
      BY <3>1 DEF Saves
    <3>3. id \in DOMAIN proposals
      BY <3>1 DEF Saves
    <3>4. id \in DOMAIN quorum_info
      BY <3>2, <3>3 DEF GovIndInv, GovInv, ProposalInv
    <3>5. quorum_info'[id] = quorum_info[id]
      BY <3>1, <3>2, <3>4 DEF put
    <3> QED BY <3>2, <3>3, <3>5
  <2>3. ASSUME NEW a \in Addresses, cancel_proposal(a, i) PROVE Goal
    <3>1. PICK q : Saves(i, q) /\ q.status = "Cancelled"
      BY <2>3, CancelSaves
    <3> QED BY <2>3, <3>1, CancelSaves DEF Saves
  <2>4. ASSUME execute(i) PROVE Goal
    <3>1. PICK q : Saves(i, q) /\ q.status = "Executed"
      BY <2>4, ExecuteSaves
    <3> QED BY <2>4, <3>1, ExecuteSaves DEF Saves
  <2> QED BY <2>1, <2>2, <2>3, <2>4 DEF ProposalCall
<1>4. CASE \E b \in ProposalIds, n \in 1 .. MaxProposals : prune_expired_proposals(b, n)
  <2>1. PICK gone \in SUBSET DOMAIN proposals :
            /\ proposals' = [i \in DOMAIN proposals \ gone |-> proposals[i]]
            /\ quorum_info' = [i \in DOMAIN quorum_info \ gone |-> quorum_info[i]]
    BY <1>4, PruneRemoves
  <2>2. id \in DOMAIN proposals \ gone /\ proposals'[id] = proposals[id]
    BY <2>1
  <2>3. id \in DOMAIN quorum_info
    BY <2>2 DEF GovIndInv, GovInv, ProposalInv
  <2> QED BY <2>1, <2>2, <2>3
<1> QED
  BY <1>1, <1>2, <1>3, <1>4, AdminLeaves DEF Next, Tick, vars

LEMMA StepKeepsAge ==
    ASSUME GovIndInv, ExecutedWithinItsAge, [Next]_vars
    PROVE  ExecutedWithinItsAge'
<1> SUFFICES ASSUME NEW id \in DOMAIN proposals', proposals'[id].status = "Executed"
             PROVE  executable_after(quorum_info'[id])
                        <= proposals'[id].created_at + MAX_PROPOSAL_AGE_SECONDS
  BY DEF ExecutedWithinItsAge
<1>1. /\ id \in DOMAIN proposals
      /\ proposals'[id].created_at = proposals[id].created_at
      /\ quorum_info'[id] = quorum_info[id]
      /\ proposals[id].status = "Executed" \/ execute(id)
  BY ExecutedBy
<1>2. CASE proposals[id].status = "Executed"
  BY <1>1, <1>2 DEF ExecutedWithinItsAge
<1>3. CASE execute(id)
  <2>1. now >= executable_after(quorum_info[id])
        /\ ~(now > proposals[id].created_at + MAX_PROPOSAL_AGE_SECONDS)
    BY <1>3 DEF execute, may_execute, too_old
  <2>2. /\ now \in Int /\ proposals[id].created_at \in Int /\ id \in DOMAIN quorum_info
        /\ proposals[id] \in Proposal
    BY <1>1, <1>3, GovernanceAssumption DEF GovIndInv, GovTypeOK, Proposal, execute, may_execute
  <2>3. quorum_info[id].reached_at \in Int
    BY <2>2, GovernanceAssumption DEF GovIndInv, GovTypeOK, QuorumInfo
  <2>4. executable_after(quorum_info[id]) <= proposals[id].created_at + MAX_PROPOSAL_AGE_SECONDS
    BY <2>1, <2>2, <2>3, GovernanceAssumption, SMTT(30) DEF executable_after
  <2> QED BY <1>1, <2>4
<1> QED
  BY <1>1, <1>2, <1>3

\* A quorum that comes within the timelock of its proposal's last second is
\* queued and never executed, whatever the grace period is set to.
THEOREM AlwaysExecutedWithinItsAge == Spec => []ExecutedWithinItsAge
<1>1. Init => ExecutedWithinItsAge
  BY DEF Init, empty, ExecutedWithinItsAge
<1>2. GovIndInv /\ ExecutedWithinItsAge /\ [Next]_vars => ExecutedWithinItsAge'
  BY StepKeepsAge
<1> QED
  BY <1>1, <1>2, GovSafe, PTL DEF Spec

-----------------------------------------------------------------------------
(* Decisions stand.                                                        *)

\* Saving the record of a proposal that was not decided.
LEMMA SavedStands ==
    ASSUME NEW id \in DOMAIN proposals, NEW q, Saves(id, q), ~is_terminal(proposals[id].status),
           proposals[id].status = "Queued" =>
               q.approvals = proposals[id].approvals /\ q.eta = proposals[id].eta,
           NEW other \in DOMAIN proposals
    PROVE  DecisionStands(other)
<1>1. other \in DOMAIN proposals'
  BY DEF Saves
<1>2. CASE other = id
  <2>1. proposals'[other] = q
    BY <1>2 DEF Saves
  <2> QED BY <1>1, <1>2, <2>1 DEF Saves, DecisionStands
<1>3. CASE other # id
  <2>1. proposals'[other] = proposals[other]
    BY <1>3 DEF Saves
  <2> QED BY <1>1, <2>1 DEF DecisionStands
<1> QED
  BY <1>2, <1>3

LEMMA StepStands ==
    ASSUME GovIndInv, [Next]_vars, NEW id \in DOMAIN proposals
    PROVE  DecisionStands(id)
<1>1. CASE id \in DOMAIN proposals' /\ proposals'[id] = proposals[id]
  BY <1>1 DEF DecisionStands
<1>2. CASE \E a \in Addresses, payload \in Payloads : propose(a, payload)
  <2>1. id \in DOMAIN proposals' /\ proposals'[id] = proposals[id]
    BY <1>2, ProposeSaves
  <2> QED BY <2>1, <1>1
<1>3. CASE \E i \in DOMAIN proposals : ProposalCall(i)
  <2>1. PICK i \in DOMAIN proposals : ProposalCall(i)
    BY <1>3
  <2>2. ASSUME NEW a \in Addresses, approve(a, i) PROVE DecisionStands(id)
    BY <2>2, ApproveSaves, SavedStands DEF is_terminal
  <2>3. ASSUME NEW a \in Addresses, cancel_proposal(a, i) PROVE DecisionStands(id)
    BY <2>3, CancelSaves, SavedStands
  <2>4. ASSUME execute(i) PROVE DecisionStands(id)
    BY <2>4, ExecuteSaves, SavedStands DEF is_terminal
  <2> QED BY <2>1, <2>2, <2>3, <2>4 DEF ProposalCall
<1>4. CASE \E b \in ProposalIds, n \in 1 .. MaxProposals : prune_expired_proposals(b, n)
  <2>1. PICK gone \in SUBSET DOMAIN proposals :
            /\ \A i \in gone : ~is_terminal(proposals[i].status) /\ proposal_is_expired(i)
            /\ proposals' = [i \in DOMAIN proposals \ gone |-> proposals[i]]
    BY <1>4, PruneRemoves
  <2>2. CASE id \in gone
    <3>1. ~is_terminal(proposals[id].status) /\ proposal_is_expired(id) /\ id \notin DOMAIN proposals'
      BY <2>1, <2>2
    <3>2. proposals[id].status \in {"Proposed", "Approved", "Queued"}
      BY <3>1 DEF GovIndInv, GovTypeOK, Proposal, is_terminal
    <3>3. id \in DOMAIN quorum_info => quorum_info[id] \in QuorumInfo /\ now \in Nat /\ grace \in Nat
      BY GovernanceAssumption DEF GovIndInv, GovTypeOK
    <3>4. ~is_executable(id)
      BY <3>1, <3>3, GovernanceAssumption
      DEF is_executable, proposal_is_expired, executable_after, QuorumInfo
    <3>5. proposals[id].status = "Queued" \/ too_old(proposals[id])
      BY <3>1, <3>2 DEF proposal_is_expired, GovIndInv, GovInv, ProposalInv
    <3> QED BY <3>1, <3>4, <3>5 DEF DecisionStands
  <2>3. CASE id \notin gone
    BY <2>1, <2>3, <1>1
  <2> QED BY <2>2, <2>3
<1> QED
  BY <1>1, <1>2, <1>3, <1>4, AdminLeaves DEF Next, Tick, vars

\* What was executed or cancelled stays as it was, a queued proposal takes no
\* more votes, and a prune removes only what nobody can execute any more.
THEOREM DecisionsAlwaysStand == Spec => DecisionsStand
<1>1. GovIndInv /\ [Next]_vars => [\A id \in DOMAIN proposals : DecisionStands(id)]_vars
  BY StepStands
<1> QED
  BY <1>1, GovSafe, PTL DEF Spec, DecisionsStand

-----------------------------------------------------------------------------
(* The contract implements the timelock.                                   *)

\* The decision of an id depends on its own records only.
LEMMA DecisionKept ==
    ASSUME NEW id, id < next_proposal_id <=> id < next_proposal_id',
           id \in DOMAIN proposals <=> id \in DOMAIN proposals',
           id \in DOMAIN proposals => proposals'[id].status = proposals[id].status,
           id \in DOMAIN proposals /\ proposals[id].status \in {"Queued", "Executed"} =>
               quorum_info'[id] = quorum_info[id],
           next_proposal_id \in Nat, next_proposal_id' \in Nat, id \in Nat
    PROVE  decision_of(id)' = decision_of(id)
BY DEF decision_of

\* The four decisions a stored proposal can be.
LEMMA DecisionCases ==
    ASSUME GovIndInv, NEW id \in DOMAIN proposals
    PROVE  /\ proposals[id].status \in {"Proposed", "Approved"} =>
                  decision_of(id) = [phase |-> "open", due_since |-> 0]
           /\ proposals[id].status = "Queued" =>
                  decision_of(id) = [phase |-> "due", due_since |-> quorum_info[id].reached_at]
           /\ proposals[id].status = "Executed" =>
                  decision_of(id) = [phase |-> "done", due_since |-> quorum_info[id].reached_at]
           /\ proposals[id].status = "Cancelled" =>
                  decision_of(id) = [phase |-> "dropped", due_since |-> 0]
           /\ id \in ProposalIds
<1>1. id < next_proposal_id /\ id \in Nat /\ next_proposal_id \in 0 .. MaxProposals /\ id \in ProposalIds
  BY GovernanceAssumption DEF GovIndInv, GovTypeOK, ProposalIds
<1> QED
  BY <1>1 DEF decision_of

\* Nothing of a decision changes.
LEMMA DecisionsKept ==
    ASSUME GovIndInv, UNCHANGED <<next_proposal_id, proposals, quorum_info>>
    PROVE  UNCHANGED decisions_now
<1>1. \A id \in ProposalIds : decision_of(id)' = decision_of(id)
  BY DEF decision_of
<1> QED
  BY <1>1 DEF decisions_now

\* A saved record changes one decision.
LEMMA DecisionSaved ==
    ASSUME GovIndInv, NEW id \in DOMAIN proposals, NEW q, Saves(id, q), UNCHANGED next_proposal_id,
           \A i \in DOMAIN quorum_info \ {id} : quorum_info'[i] = quorum_info[i]
    PROVE  \A i \in ProposalIds \ {id} : decision_of(i)' = decision_of(i)
<1> TAKE i \in ProposalIds \ {id}
<1>1. i \in Nat /\ next_proposal_id \in Nat
  BY GovernanceAssumption DEF GovIndInv, GovTypeOK, ProposalIds
<1>2. DOMAIN proposals' = DOMAIN proposals /\ proposals'[i] = proposals[i]
  BY DEF Saves
<1>3. i \in DOMAIN proposals /\ proposals[i].status \in {"Queued", "Executed"} =>
          quorum_info'[i] = quorum_info[i]
  BY DEF GovIndInv, GovInv, ProposalInv
<1> QED
  BY <1>1, <1>2, <1>3, DecisionKept

LEMMA OneDecision ==
    ASSUME NEW id \in ProposalIds, NEW v, decision_of(id)' = v,
           \A i \in ProposalIds \ {id} : decision_of(i)' = decision_of(i)
    PROVE  /\ decisions_now' = [decisions_now EXCEPT ![id] = v]
           /\ decisions_now[id] = decision_of(id)
<1>1. \A i \in ProposalIds :
          decision_of(i)' = IF i = id THEN v ELSE decision_of(i)
  OBVIOUS
<1> QED
  BY <1>1 DEF decisions_now

\* An approval opens nothing; the one that reaches the quorum starts the
\* timelock.
LEMMA ApproveImplements ==
    ASSUME GovIndInv, NEW a \in Addresses, NEW id \in DOMAIN proposals, approve(a, id)
    PROVE  Decisions!BecomeDue(id) \/ UNCHANGED <<now, decisions_now>>
<1>1. PICK q : /\ Saves(id, q)
               /\ \/ q.status = "Approved" /\ UNCHANGED quorum_info
                  \/ /\ q.status = "Queued"
                     /\ quorum_info' = put(quorum_info, id, [reached_at |-> now, threshold |-> threshold])
  BY ApproveSaves
<1>2. proposals[id].status \in {"Proposed", "Approved"} /\ UNCHANGED <<now, next_proposal_id>>
  BY ApproveSaves
<1>3. decision_of(id) = [phase |-> "open", due_since |-> 0] /\ id \in ProposalIds
      /\ id < next_proposal_id /\ id \in Nat
  BY <1>2, DecisionCases, GovernanceAssumption DEF GovIndInv, GovTypeOK, ProposalIds
<1>4. \A i \in DOMAIN quorum_info \ {id} : quorum_info'[i] = quorum_info[i]
  BY <1>1 DEF put
<1>5. \A i \in ProposalIds \ {id} : decision_of(i)' = decision_of(i)
  BY <1>1, <1>2, <1>4, DecisionSaved
<1>6. proposals'[id].status = q.status /\ id \in DOMAIN proposals'
  BY <1>1 DEF Saves
<1>7. CASE q.status = "Approved"
  <2>1. decision_of(id)' = decision_of(id)
    BY <1>2, <1>3, <1>6, <1>7 DEF decision_of
  <2> QED BY <1>2, <1>5, <2>1 DEF decisions_now
<1>8. CASE /\ q.status = "Queued"
           /\ quorum_info' = put(quorum_info, id, [reached_at |-> now, threshold |-> threshold])
  <2>1. quorum_info'[id].reached_at = now
    BY <1>8 DEF put
  <2>2. decision_of(id)' = [phase |-> "due", due_since |-> now]
    BY <1>2, <1>3, <1>6, <1>8, <2>1 DEF decision_of
  <2>3. /\ decisions_now' = [decisions_now EXCEPT ![id] = [phase |-> "due", due_since |-> now]]
        /\ decisions_now[id] = decision_of(id)
    BY <1>3, <1>5, <2>2, OneDecision
  <2> QED BY <1>2, <1>3, <2>3 DEF Decisions!BecomeDue
<1> QED
  BY <1>1, <1>7, <1>8

LEMMA ExecuteImplements ==
    ASSUME GovIndInv, NEW id \in DOMAIN proposals, execute(id)
    PROVE  Decisions!CarryOut(id)
<1>1. PICK q : Saves(id, q) /\ q.status = "Executed"
  BY ExecuteSaves
<1>2. /\ proposals[id].status = "Queued" /\ UNCHANGED <<now, next_proposal_id, quorum_info>>
      /\ now >= executable_after(quorum_info[id])
  BY ExecuteSaves
<1> DEFINE at == quorum_info[id].reached_at
<1>3. decision_of(id) = [phase |-> "due", due_since |-> at] /\ id \in ProposalIds
      /\ id < next_proposal_id
  BY <1>2, DecisionCases, GovernanceAssumption DEF GovIndInv, GovTypeOK, ProposalIds
<1>4. \A i \in ProposalIds \ {id} : decision_of(i)' = decision_of(i)
  BY <1>1, <1>2, DecisionSaved
<1>5. proposals'[id].status = "Executed" /\ id \in DOMAIN proposals'
  BY <1>1 DEF Saves
<1>6. decision_of(id)' = [phase |-> "done", due_since |-> at]
  BY <1>2, <1>3, <1>5 DEF decision_of
<1>7. /\ decisions_now' = [decisions_now EXCEPT ![id] = [phase |-> "done", due_since |-> at]]
      /\ decisions_now[id] = [phase |-> "due", due_since |-> at]
  BY <1>3, <1>4, <1>6, OneDecision
<1>8. decisions_now' = [decisions_now EXCEPT ![id].phase = "done"]
  <2>1. [decisions_now[id] EXCEPT !.phase = "done"] = [phase |-> "done", due_since |-> at]
    BY <1>7
  <2> QED BY <1>7, <2>1
<1>9. now >= at + GOVERNANCE_TIMELOCK_SECONDS
  BY <1>2 DEF executable_after
<1>10. decisions_now[id].phase = "due" /\ decisions_now[id].due_since = at
  BY <1>7
<1> HIDE DEF at
<1> QED
  BY <1>2, <1>8, <1>9, <1>10 DEF Decisions!CarryOut

LEMMA CancelImplements ==
    ASSUME GovIndInv, NEW a, NEW id \in DOMAIN proposals, cancel_proposal(a, id)
    PROVE  Decisions!Drop({id})
<1>1. PICK q : Saves(id, q) /\ q.status = "Cancelled"
  BY CancelSaves
<1>2. ~is_terminal(proposals[id].status) /\ UNCHANGED <<now, next_proposal_id, quorum_info>>
  BY CancelSaves
<1>3. proposals[id].status \in {"Proposed", "Approved", "Queued"}
  BY <1>2 DEF GovIndInv, GovTypeOK, Proposal, is_terminal
<1>4. decision_of(id).phase \in {"open", "due"} /\ id \in ProposalIds /\ id < next_proposal_id
  BY <1>3, DecisionCases, GovernanceAssumption DEF GovIndInv, GovTypeOK, ProposalIds
<1>5. \A i \in ProposalIds \ {id} : decision_of(i)' = decision_of(i)
  BY <1>1, <1>2, DecisionSaved
<1>6. proposals'[id].status = "Cancelled" /\ id \in DOMAIN proposals'
  BY <1>1 DEF Saves
<1>7. decision_of(id)' = [phase |-> "dropped", due_since |-> 0]
  BY <1>2, <1>4, <1>6 DEF decision_of
<1>8. decisions_now' = [i \in ProposalIds |->
          IF i \in {id} THEN [phase |-> "dropped", due_since |-> 0] ELSE decisions_now[i]]
  BY <1>5, <1>7 DEF decisions_now
<1>9. decisions_now[id].phase \in {"open", "due"}
  BY <1>4 DEF decisions_now
<1> QED
  BY <1>2, <1>8, <1>9 DEF Decisions!Drop, Decisions!Dropped

LEMMA ProposeImplements ==
    ASSUME GovIndInv, NEW a \in Addresses, NEW payload \in Payloads, propose(a, payload)
    PROVE  \E id \in ProposalIds : Decisions!Open(id)
<1>1. PICK k \in ProposalIds : k = next_proposal_id
  BY ProposeSaves
<1>2. /\ k \notin DOMAIN proposals /\ DOMAIN proposals' = DOMAIN proposals \cup {k}
      /\ \A id \in DOMAIN proposals : proposals'[id] = proposals[id]
      /\ proposals'[k].status = "Proposed" /\ next_proposal_id' = k + 1
      /\ UNCHANGED <<now, quorum_info>>
  BY <1>1, ProposeSaves
<1>3. k \in Nat /\ \A i \in ProposalIds : i \in Nat
  BY GovernanceAssumption DEF ProposalIds
<1>4. decision_of(k) = [phase |-> "none", due_since |-> 0]
  BY <1>1, <1>3 DEF decision_of
<1>5. decision_of(k)' = [phase |-> "open", due_since |-> 0]
  BY <1>2, <1>3 DEF decision_of
<1>6. ASSUME NEW i \in ProposalIds \ {k} PROVE decision_of(i)' = decision_of(i)
  <2>1. i < next_proposal_id <=> i < next_proposal_id'
    BY <1>1, <1>2, <1>3
  <2>2. i \in DOMAIN proposals <=> i \in DOMAIN proposals'
    BY <1>2
  <2> QED BY <1>1, <1>2, <1>3, <2>1, <2>2, DecisionKept
<1>7. /\ decisions_now' = [decisions_now EXCEPT ![k] = [phase |-> "open", due_since |-> 0]]
      /\ decisions_now[k] = [phase |-> "none", due_since |-> 0]
  BY <1>4, <1>5, <1>6, OneDecision
<1>8. decisions_now[k].phase = "none"
  BY <1>7
<1>9. Decisions!Open(k)
  BY <1>2, <1>7, <1>8 DEF Decisions!Open, Decisions!Opened
<1> QED
  BY <1>9

LEMMA PruneImplements ==
    ASSUME GovIndInv, NEW b, NEW n, prune_expired_proposals(b, n)
    PROVE  \E ids \in SUBSET ProposalIds : Decisions!Drop(ids)
<1>1. PICK gone \in SUBSET DOMAIN proposals :
          /\ \A id \in gone : ~is_terminal(proposals[id].status) /\ proposal_is_expired(id)
          /\ proposals' = [id \in DOMAIN proposals \ gone |-> proposals[id]]
          /\ quorum_info' = [id \in DOMAIN quorum_info \ gone |-> quorum_info[id]]
  BY PruneRemoves
<1>2. UNCHANGED <<now, next_proposal_id>>
  BY PruneRemoves
<1>3. /\ gone \in SUBSET ProposalIds
      /\ \A id \in gone : id < next_proposal_id
      /\ next_proposal_id \in Nat
      /\ \A i \in ProposalIds : i \in Nat
  BY GovernanceAssumption DEF GovIndInv, GovTypeOK, ProposalIds
<1>4. ASSUME NEW id \in gone
      PROVE  decision_of(id).phase \in {"open", "due"}
  <2>1. proposals[id].status \in {"Proposed", "Approved", "Queued"}
    BY <1>1 DEF GovIndInv, GovTypeOK, Proposal, is_terminal
  <2> QED BY <2>1, DecisionCases
<1>5. ASSUME NEW id \in gone
      PROVE  decision_of(id)' = [phase |-> "dropped", due_since |-> 0]
  BY <1>1, <1>2, <1>3 DEF decision_of
<1>6. ASSUME NEW i \in ProposalIds \ gone
      PROVE  decision_of(i)' = decision_of(i)
  <2>1. i \in DOMAIN proposals <=> i \in DOMAIN proposals'
    BY <1>1
  <2>2. i \in DOMAIN proposals => proposals'[i] = proposals[i]
    BY <1>1
  <2>3. i \in DOMAIN proposals /\ proposals[i].status \in {"Queued", "Executed"} =>
            quorum_info'[i] = quorum_info[i]
    BY <1>1 DEF GovIndInv, GovInv, ProposalInv
  <2>4. next_proposal_id' = next_proposal_id /\ next_proposal_id \in Nat /\ i \in Nat
    BY <1>2, <1>3
  <2>5. i \in DOMAIN proposals => proposals'[i].status = proposals[i].status
    BY <2>2
  <2> QED BY <2>1, <2>3, <2>4, <2>5, DecisionKept
<1>7. decisions_now' = [i \in ProposalIds |->
          IF i \in gone THEN [phase |-> "dropped", due_since |-> 0] ELSE decisions_now[i]]
  BY <1>5, <1>6 DEF decisions_now
<1>8. \A id \in gone : decisions_now[id].phase \in {"open", "due"}
  BY <1>3, <1>4 DEF decisions_now
<1> QED
  BY <1>2, <1>3, <1>7, <1>8 DEF Decisions!Drop, Decisions!Dropped

\* Every step is a step of the timelock or leaves it alone.
LEMMA StepImplements ==
    ASSUME GovIndInv, [Next]_vars
    PROVE  [Decisions!TimelockNext]_(Decisions!decisionVars)
<1>1. CASE UNCHANGED <<now, next_proposal_id, proposals, quorum_info>>
  BY <1>1, DecisionsKept DEF Decisions!decisionVars
<1>2. CASE Tick
  <2>1. now' >= now /\ UNCHANGED <<next_proposal_id, proposals, quorum_info>>
    BY <1>2, GovernanceAssumption DEF Tick, GovIndInv, GovTypeOK
  <2> QED BY <2>1, DecisionsKept DEF Decisions!TimelockNext, Decisions!Pass
<1>3. CASE \E a \in Addresses, payload \in Payloads : propose(a, payload)
  BY <1>3, ProposeImplements DEF Decisions!TimelockNext
<1>4. CASE \E id \in DOMAIN proposals : ProposalCall(id)
  <2>1. PICK id \in DOMAIN proposals : ProposalCall(id)
    BY <1>4
  <2>2. id \in ProposalIds /\ {id} \in SUBSET ProposalIds
    BY DecisionCases
  <2>3. ASSUME NEW a \in Addresses, approve(a, id)
        PROVE  Decisions!TimelockNext \/ UNCHANGED <<now, decisions_now>>
    BY <2>2, <2>3, ApproveImplements DEF Decisions!TimelockNext
  <2>4. ASSUME NEW a \in Addresses, cancel_proposal(a, id) PROVE Decisions!TimelockNext
    BY <2>2, <2>4, CancelImplements DEF Decisions!TimelockNext
  <2>5. ASSUME execute(id) PROVE Decisions!TimelockNext
    BY <2>2, <2>5, ExecuteImplements DEF Decisions!TimelockNext
  <2> QED BY <2>1, <2>3, <2>4, <2>5 DEF ProposalCall, Decisions!decisionVars
<1>5. CASE \E b \in ProposalIds, n \in 1 .. MaxProposals : prune_expired_proposals(b, n)
  BY <1>5, PruneImplements DEF Decisions!TimelockNext
<1> QED
  BY <1>1, <1>2, <1>3, <1>4, <1>5, AdminLeaves DEF Next, vars

LEMMA InitImplements == Init => Decisions!TimelockInit
<1> SUFFICES ASSUME Init PROVE Decisions!TimelockInit
  OBVIOUS
<1>1. \A id \in ProposalIds : decision_of(id) = [phase |-> "none", due_since |-> 0]
  BY GovernanceAssumption DEF Init, decision_of, ProposalIds
<1> QED
  BY <1>1 DEF Init, decisions_now, Decisions!TimelockInit, Decisions!NoDecision

\* A proposal is carried out at most once and no sooner than the timelock
\* after its quorum, and never comes back once it was dropped.
THEOREM GovernanceImplementsTimelock == Spec => ImplementsTimelock
<1>1. GovIndInv /\ [Next]_vars => [Decisions!TimelockNext]_(Decisions!decisionVars)
  BY StepImplements
<1> QED
  BY <1>1, InitImplements, GovSafe, PTL DEF Spec, ImplementsTimelock, Decisions!TimelockSpec
-----------------------------------------------------------------------------
(* The time to live of a proposal's entries, GovernanceRent.tla.           *)

\* Whatever the network takes for rent, no call does anything to a proposal
\* that the contract alone would not do.
LEMMA RentStepIsStep == [RentNext]_rentVars => [Next]_vars
<1> SUFFICES ASSUME [RentNext]_rentVars PROVE [Next]_vars
  OBVIOUS
<1>1. CASE Tick \/ AdminCall
  BY <1>1 DEF Next
<1>2. CASE /\ changes + next_proposal_id < MaxMoves
           /\ \E a \in Addresses, payload \in Payloads : RentPropose(a, payload)
  BY <1>2 DEF Next, RentPropose
<1>3. CASE \E id \in DOMAIN proposals : \E a \in Addresses : RentApprove(a, id)
  <2>1. PICK id \in DOMAIN proposals, a \in Addresses : RentApprove(a, id)
    BY <1>3
  <2>2. ProposalCall(id)
    BY <2>1 DEF RentApprove, ProposalCall
  <2> QED BY <2>2 DEF Next
<1>4. CASE \E id \in DOMAIN proposals : RentFinish(id)
  <2>1. PICK id \in DOMAIN proposals : RentFinish(id)
    BY <1>4
  <2>2. ProposalCall(id)
    BY <2>1 DEF RentFinish, ProposalCall
  <2> QED BY <2>2 DEF Next
<1>5. CASE \E b \in ProposalIds, n \in 1 .. MaxProposals : RentPrune(b, n)
  BY <1>5 DEF Next, RentPrune
<1>6. CASE UNCHANGED vars
  BY <1>6
<1> QED
  BY <1>1, <1>2, <1>3, <1>4, <1>5, <1>6
  DEF RentNext, RentView, get_quorum_info, get_proposals_by_id_range, Restore, rentVars

\* Rent takes nothing from what was proved of the contract: with archived
\* entries, renewals and restores it is still the contract of Governance.tla.
THEOREM RentImplementsGovernance == RentSpec => Spec
BY RentStepIsStep, PTL DEF RentSpec, RentInit, Spec

\* Every entry belongs to a proposal, and that of an active one was given its
\* guaranteed life when the proposal was made, or later.
LongEnough(f, P) ==
    /\ DOMAIN f \subseteq Keys \X DOMAIN P
    /\ \A k \in DOMAIN f :
          /\ f[k] \in Int
          /\ ~is_terminal(P[k[2]].status) => f[k] >= P[k[2]].created_at + guaranteed_life

LifeInv ==
    /\ LongEnough(live_until, proposals)
    /\ \A id \in DOMAIN proposals : proposals[id].created_at <= now

\* extend_ttl never shortens a life.
LEMMA ExtendedNotShortened ==
    ASSUME NEW until \in Int, NEW at \in Int, NEW th \in Int, NEW by \in Int
    PROVE  /\ extended_until(until, at, th, by) \in Int
           /\ extended_until(until, at, th, by) >= until
BY DEF extended_until

\* The first renewal of a new entry.
LEMMA NewEntryLives ==
    ASSUME NEW at \in Int
    PROVE  /\ created_until(at) \in Int /\ created_until(at) >= at
           /\ extended_until(created_until(at), at, PERSISTENT_LIFETIME_THRESHOLD,
                             ACTIVE_PROPOSAL_BUMP_AMOUNT) >= at + guaranteed_life
BY RentAssumption, RetentionAssumption DEF created_until, extended_until, guaranteed_life

LEMMA LifeIsInt == guaranteed_life \in Int
BY RentAssumption, RetentionAssumption DEF guaranteed_life

LEMMA BumpedNotShortened ==
    ASSUME NEW f, NEW ks, now \in Int, \A k \in DOMAIN f : f[k] \in Int
    PROVE  /\ DOMAIN bumped(f, ks) = DOMAIN f
           /\ \A k \in DOMAIN f : bumped(f, ks)[k] \in Int /\ bumped(f, ks)[k] >= f[k]
           /\ \A k \in DOMAIN f \ ks : bumped(f, ks)[k] = f[k]
<1>1. DOMAIN bumped(f, ks) = DOMAIN f
  BY DEF bumped
<1>2. ASSUME NEW k \in DOMAIN f, k \in ks
      PROVE  bumped(f, ks)[k] \in Int /\ bumped(f, ks)[k] >= f[k]
  <2>1. bumped(f, ks)[k] = extended_until(f[k], now, PERSISTENT_LIFETIME_THRESHOLD,
                                          ACTIVE_PROPOSAL_BUMP_AMOUNT)
    BY <1>2 DEF bumped
  <2>2. f[k] \in Int /\ PERSISTENT_LIFETIME_THRESHOLD \in Int /\ ACTIVE_PROPOSAL_BUMP_AMOUNT \in Int
    BY RetentionAssumption
  <2>3. /\ extended_until(f[k], now, PERSISTENT_LIFETIME_THRESHOLD, ACTIVE_PROPOSAL_BUMP_AMOUNT) \in Int
        /\ extended_until(f[k], now, PERSISTENT_LIFETIME_THRESHOLD, ACTIVE_PROPOSAL_BUMP_AMOUNT) >= f[k]
    BY <2>2, ExtendedNotShortened
  <2> QED BY <2>1, <2>3
<1>3. \A k \in DOMAIN f \ ks : bumped(f, ks)[k] = f[k]
  BY DEF bumped
<1> QED
  BY <1>1, <1>2, <1>3

LEMMA SealedIsInt ==
    ASSUME NEW f, NEW ks, now \in Int, \A k \in DOMAIN f : f[k] \in Int
    PROVE  /\ DOMAIN sealed(f, ks) = DOMAIN f
           /\ \A k \in DOMAIN f : sealed(f, ks)[k] \in Int
           /\ \A k \in DOMAIN f \ ks : sealed(f, ks)[k] = f[k]
<1>1. ASSUME NEW k \in DOMAIN f, k \in ks
      PROVE  sealed(f, ks)[k] \in Int
  <2>1. sealed(f, ks)[k] = extended_until(f[k], now, PERSISTENT_LIFETIME_THRESHOLD,
                                          TERMINAL_PROPOSAL_RETENTION)
    BY <1>1 DEF sealed
  <2>2. f[k] \in Int /\ PERSISTENT_LIFETIME_THRESHOLD \in Int /\ TERMINAL_PROPOSAL_RETENTION \in Int
    BY RetentionAssumption
  <2>3. /\ extended_until(f[k], now, PERSISTENT_LIFETIME_THRESHOLD, TERMINAL_PROPOSAL_RETENTION) \in Int
        /\ extended_until(f[k], now, PERSISTENT_LIFETIME_THRESHOLD, TERMINAL_PROPOSAL_RETENTION) >= f[k]
    BY <2>2, ExtendedNotShortened
  <2> QED BY <2>1, <2>3
<1> QED
  BY <1>1 DEF sealed

\* A call that writes a new entry k of a proposal as old as created, or finds
\* it there, and renews it.
LEMMA WrittenLives ==
    ASSUME NEW f, NEW k, NEW ks, k \in ks, now \in Int, \A j \in DOMAIN f : f[j] \in Int,
           NEW created \in Int, created <= now,
           k \in DOMAIN f => f[k] >= created + guaranteed_life
    PROVE  /\ \A j \in DOMAIN written(f, k) : written(f, k)[j] \in Int
           /\ DOMAIN written(f, k) = DOMAIN f \cup {k}
           /\ \A j \in DOMAIN f : written(f, k)[j] = f[j]
           /\ bumped(written(f, k), ks)[k] >= created + guaranteed_life
<1>1. /\ DOMAIN written(f, k) = DOMAIN f \cup {k}
      /\ \A j \in DOMAIN f : written(f, k)[j] = f[j]
      /\ k \notin DOMAIN f => written(f, k)[k] = created_until(now)
  BY DEF written, put
<1>2. \A j \in DOMAIN written(f, k) : written(f, k)[j] \in Int
  BY <1>1, NewEntryLives
<1>3. CASE k \in DOMAIN f
  <2>1. bumped(written(f, k), ks)[k] >= f[k] /\ bumped(written(f, k), ks)[k] \in Int
    BY <1>1, <1>2, <1>3, BumpedNotShortened
  <2> QED BY <1>1, <1>2, <1>3, <2>1, LifeIsInt
<1>4. CASE k \notin DOMAIN f
  <2>1. bumped(written(f, k), ks)[k]
            = extended_until(created_until(now), now, PERSISTENT_LIFETIME_THRESHOLD,
                             ACTIVE_PROPOSAL_BUMP_AMOUNT)
    BY <1>1, <1>4 DEF bumped
  <2>2. bumped(written(f, k), ks)[k] \in Int
    BY <1>1, <1>2, BumpedNotShortened
  <2> QED BY <1>1, <1>2, <2>1, <2>2, NewEntryLives, LifeIsInt
<1> QED
  BY <1>1, <1>2, <1>3, <1>4

\* A call that renews entries and touches no proposal, all the views.
LEMMA RenewalKeeps ==
    ASSUME LifeInv, now \in Int, NEW ks, live_until' = bumped(live_until, ks), UNCHANGED vars,
           \A id \in DOMAIN proposals : proposals[id].created_at \in Int
    PROVE  LifeInv'
<1>1. UNCHANGED <<proposals, now>>
  BY DEF vars
<1>2. \A k \in DOMAIN live_until : live_until[k] \in Int
  BY DEF LifeInv, LongEnough
<1>3. /\ DOMAIN live_until' = DOMAIN live_until
      /\ \A k \in DOMAIN live_until : live_until'[k] \in Int /\ live_until'[k] >= live_until[k]
  BY <1>2, BumpedNotShortened
<1>4. ASSUME NEW k \in DOMAIN live_until, ~is_terminal(proposals[k[2]].status)
      PROVE  live_until'[k] >= proposals[k[2]].created_at + guaranteed_life
  <2>1. k[2] \in DOMAIN proposals
    BY DEF LifeInv, LongEnough
  <2>2. live_until[k] >= proposals[k[2]].created_at + guaranteed_life
    BY <1>4 DEF LifeInv, LongEnough
  <2> QED BY <1>2, <1>3, <2>1, <2>2, LifeIsInt
<1>5. LongEnough(live_until, proposals)'
  BY <1>1, <1>3, <1>4 DEF LifeInv, LongEnough, guaranteed_life
<1> QED
  BY <1>1, <1>5 DEF LifeInv

\* A new record is renewed as soon as it is written.
LEMMA ProposeLives ==
    ASSUME GovIndInv, LifeInv, NEW a \in Addresses, NEW payload \in Payloads, RentPropose(a, payload)
    PROVE  LifeInv'
<1> DEFINE n == next_proposal_id
           k == <<"Proposal", n>>
           w == written(live_until, k)
<1>1. /\ now \in Int
      /\ \A id \in DOMAIN proposals : proposals[id].created_at \in Int
      /\ \A j \in DOMAIN live_until : live_until[j] \in Int
  BY GovernanceAssumption DEF GovIndInv, GovTypeOK, Proposal, LifeInv, LongEnough
<1>2. /\ n \notin DOMAIN proposals /\ DOMAIN proposals' = DOMAIN proposals \cup {n}
      /\ \A id \in DOMAIN proposals : proposals'[id] = proposals[id]
      /\ UNCHANGED now
  BY ProposeSaves DEF RentPropose
<1>3. proposals'[n].created_at = now
  BY DEF RentPropose, propose, put
<1>4. k \notin DOMAIN live_until
  BY <1>2 DEF LifeInv, LongEnough
<1>5. /\ \A j \in DOMAIN w : w[j] \in Int
      /\ DOMAIN w = DOMAIN live_until \cup {k}
      /\ \A j \in DOMAIN live_until : w[j] = live_until[j]
      /\ bumped(w, {k})[k] >= now + guaranteed_life
  <2> HIDE DEF k
  <2>1. now <= now /\ k \in {k}
    BY <1>1
  <2> QED BY <1>1, <1>4, <2>1, WrittenLives
<1>6. live_until' = bumped(w, {k})
  BY DEF RentPropose
<1>7. k[2] = n /\ k \in Keys \X {n}
  BY DEF Keys
<1> HIDE DEF k, w
<1>8. /\ DOMAIN live_until' = DOMAIN live_until \cup {k}
      /\ \A j \in DOMAIN live_until' : live_until'[j] \in Int
      /\ \A j \in DOMAIN live_until : live_until'[j] = live_until[j]
  BY <1>1, <1>4, <1>5, <1>6, BumpedNotShortened
<1>9. ASSUME NEW j \in DOMAIN live_until', ~is_terminal(proposals'[j[2]].status)
      PROVE  live_until'[j] >= proposals'[j[2]].created_at + guaranteed_life
  <2>1. CASE j = k
    BY <2>1, <1>3, <1>5, <1>6, <1>7
  <2>2. CASE j \in DOMAIN live_until
    <3>1. j[2] \in DOMAIN proposals /\ proposals'[j[2]] = proposals[j[2]]
      BY <2>2, <1>2 DEF LifeInv, LongEnough
    <3> QED BY <2>2, <3>1, <1>8, <1>9 DEF LifeInv, LongEnough
  <2> QED BY <2>1, <2>2, <1>8
<1>10. DOMAIN live_until' \subseteq Keys \X DOMAIN proposals'
  BY <1>2, <1>7, <1>8 DEF LifeInv, LongEnough
<1>11. LongEnough(live_until, proposals)'
  BY <1>8, <1>9, <1>10 DEF LongEnough, guaranteed_life
<1>12. \A id \in DOMAIN proposals' : proposals'[id].created_at <= now'
  BY <1>1, <1>2, <1>3 DEF LifeInv
<1> QED
  BY <1>11, <1>12 DEF LifeInv

\* What a saved record leaves of the other proposals, and of itself once it is
\* terminal; new is the record's own part.
LEMMA SaveLives ==
    ASSUME GovIndInv, LifeInv, NEW id \in DOMAIN proposals, NEW q, Saves(id, q), UNCHANGED now,
           DOMAIN live_until' \subseteq DOMAIN live_until \cup (Keys \X {id}),
           \A k \in DOMAIN live_until' : live_until'[k] \in Int,
           \A k \in DOMAIN live_until' \ (Keys \X {id}) : live_until'[k] = live_until[k],
           ~is_terminal(q.status) =>
               \A k \in DOMAIN live_until' \cap (Keys \X {id}) :
                   live_until'[k] >= proposals[id].created_at + guaranteed_life
    PROVE  LifeInv'
<1>1. /\ DOMAIN proposals' = DOMAIN proposals /\ proposals'[id] = q
      /\ q.created_at = proposals[id].created_at
      /\ \A i \in DOMAIN proposals \ {id} : proposals'[i] = proposals[i]
  BY DEF Saves
<1>2. ASSUME NEW k \in DOMAIN live_until', ~is_terminal(proposals'[k[2]].status)
      PROVE  live_until'[k] >= proposals'[k[2]].created_at + guaranteed_life
  <2>1. CASE k \in Keys \X {id}
    BY <2>1, <1>1, <1>2
  <2>2. CASE k \notin Keys \X {id}
    <3>1. k \in DOMAIN live_until /\ live_until'[k] = live_until[k]
      BY <2>2
    <3>2. k[2] \in DOMAIN proposals \ {id} /\ proposals'[k[2]] = proposals[k[2]]
      BY <2>2, <3>1, <1>1 DEF LifeInv, LongEnough
    <3> QED BY <3>1, <3>2, <1>2 DEF LifeInv, LongEnough
  <2> QED BY <2>1, <2>2
<1>3. DOMAIN live_until' \subseteq Keys \X DOMAIN proposals'
  BY <1>1 DEF LifeInv, LongEnough
<1>4. LongEnough(live_until, proposals)'
  BY <1>2, <1>3 DEF LongEnough, guaranteed_life
<1>5. \A i \in DOMAIN proposals' : proposals'[i].created_at <= now'
  BY <1>1 DEF LifeInv
<1> QED
  BY <1>4, <1>5 DEF LifeInv

\* An approval writes the votes and may write the quorum, and renews all.
LEMMA ApproveLives ==
    ASSUME GovIndInv, LifeInv, NEW a \in Addresses, NEW id \in DOMAIN proposals, RentApprove(a, id)
    PROVE  LifeInv'
<1> DEFINE v == <<"ProposalApprovalIdx", id>>
           u == <<"QuorumReachedAt", id>>
           ks == Keys \X {id}
           created == proposals[id].created_at
           voted == written(live_until, v)
           all == IF id \in DOMAIN quorum_info' THEN written(voted, u) ELSE voted
<1>1. /\ now \in Int /\ created \in Int /\ created <= now
      /\ \A j \in DOMAIN live_until : live_until[j] \in Int
  BY GovernanceAssumption DEF GovIndInv, GovTypeOK, Proposal, LifeInv, LongEnough
<1>2. approve(a, id) /\ live_until' = bumped(all, ks)
  BY DEF RentApprove
<1>3. PICK q : Saves(id, q)
  BY <1>2, ApproveSaves
<1>4. UNCHANGED now /\ ~is_terminal(proposals[id].status)
  BY <1>2, ApproveSaves DEF is_terminal
<1>5. \A k \in DOMAIN live_until \cap ks : live_until[k] >= created + guaranteed_life
  BY <1>4 DEF LifeInv, LongEnough
<1>6. v \in ks /\ u \in ks /\ v # u
  BY DEF Keys
<1> HIDE DEF v, u, ks, created
\* After the votes are written.
<1>7. /\ \A j \in DOMAIN voted : voted[j] \in Int
      /\ DOMAIN voted = DOMAIN live_until \cup {v}
      /\ \A j \in DOMAIN live_until : voted[j] = live_until[j]
      /\ bumped(voted, ks)[v] >= created + guaranteed_life
  BY <1>1, <1>5, <1>6, WrittenLives
<1>8. /\ \A j \in DOMAIN all : all[j] \in Int
      /\ DOMAIN live_until \cup {v} \subseteq DOMAIN all
      /\ DOMAIN all \subseteq DOMAIN live_until \cup {v, u}
      /\ \A j \in DOMAIN live_until \cup {v} : all[j] = voted[j]
      /\ u \in DOMAIN all => bumped(all, ks)[u] >= created + guaranteed_life
  <2>1. CASE id \in DOMAIN quorum_info'
    <3>1. u \in DOMAIN voted => voted[u] >= created + guaranteed_life
      BY <1>5, <1>6, <1>7
    <3> HIDE DEF voted
    <3>2. /\ \A j \in DOMAIN written(voted, u) : written(voted, u)[j] \in Int
          /\ DOMAIN written(voted, u) = DOMAIN voted \cup {u}
          /\ \A j \in DOMAIN voted : written(voted, u)[j] = voted[j]
          /\ bumped(written(voted, u), ks)[u] >= created + guaranteed_life
      BY <1>1, <1>6, <1>7, <3>1, WrittenLives
    <3> QED BY <2>1, <3>2, <1>7
  <2>2. CASE id \notin DOMAIN quorum_info'
    <3>1. all = voted
      BY <2>2
    <3>2. u \in DOMAIN voted => u \in DOMAIN live_until /\ bumped(voted, ks)[u] >= voted[u]
                                /\ bumped(voted, ks)[u] \in Int
      BY <1>1, <1>6, <1>7, BumpedNotShortened
    <3>3. u \in DOMAIN voted => voted[u] \in Int /\ voted[u] >= created + guaranteed_life
      BY <1>5, <1>6, <1>7, <3>2
    <3> HIDE DEF all, voted
    <3> QED BY <1>1, <1>7, <3>1, <3>2, <3>3, LifeIsInt
  <2> QED BY <2>1, <2>2
<1> HIDE DEF all
<1>9. bumped(all, ks)[v] >= created + guaranteed_life
  <2>1. bumped(all, ks)[v] = bumped(voted, ks)[v]
    BY <1>7, <1>8 DEF bumped
  <2> QED BY <1>7, <2>1
<1>10. /\ DOMAIN live_until' = DOMAIN all
       /\ \A j \in DOMAIN all : live_until'[j] \in Int /\ live_until'[j] >= all[j]
       /\ \A j \in DOMAIN all \ ks : live_until'[j] = all[j]
  BY <1>1, <1>2, <1>8, BumpedNotShortened
<1>11. ASSUME NEW k \in DOMAIN live_until' \cap ks
       PROVE  live_until'[k] >= created + guaranteed_life
  <2>1. CASE k = v \/ k = u
    BY <2>1, <1>2, <1>8, <1>9, <1>10
  <2>2. CASE k \in DOMAIN live_until
    <3>1. all[k] = live_until[k] /\ live_until[k] >= created + guaranteed_life
      BY <2>2, <1>5, <1>7, <1>8
    <3>2. live_until'[k] >= all[k] /\ live_until'[k] \in Int /\ all[k] \in Int
      BY <2>2, <1>8, <1>10
    <3> QED BY <3>1, <3>2, <1>1, LifeIsInt
  <2> QED BY <2>1, <2>2, <1>8, <1>10
<1>12. \A k \in DOMAIN live_until' \ ks : live_until'[k] = live_until[k]
  BY <1>6, <1>7, <1>8, <1>10
<1>13. DOMAIN live_until' \subseteq DOMAIN live_until \cup ks
  BY <1>6, <1>8, <1>10
<1> HIDE DEF voted
<1> QED
  BY <1>3, <1>4, <1>8, <1>10, <1>11, <1>12, <1>13, SaveLives DEF ks, created

\* What is executed or cancelled was renewed first and is sealed then.
LEMMA FinishLives ==
    ASSUME GovIndInv, LifeInv, NEW id \in DOMAIN proposals, RentFinish(id)
    PROVE  LifeInv'
<1> DEFINE ks == Keys \X {id}
           renewed == bumped(live_until, ks)
<1>1. now \in Int /\ \A j \in DOMAIN live_until : live_until[j] \in Int
  BY GovernanceAssumption DEF GovIndInv, GovTypeOK, LifeInv, LongEnough
<1>2. PICK q : Saves(id, q) /\ is_terminal(q.status) /\ UNCHANGED now
  BY ExecuteSaves, CancelSaves DEF RentFinish, is_terminal
<1>3. live_until' = sealed(renewed, ks)
  BY DEF RentFinish, loads
<1> HIDE DEF ks
<1>4. /\ DOMAIN renewed = DOMAIN live_until
      /\ \A k \in DOMAIN renewed : renewed[k] \in Int
      /\ \A k \in DOMAIN live_until \ ks : renewed[k] = live_until[k]
  BY <1>1, BumpedNotShortened
<1> HIDE DEF renewed
<1>5. /\ DOMAIN live_until' = DOMAIN live_until
      /\ \A k \in DOMAIN live_until : live_until'[k] \in Int
      /\ \A k \in DOMAIN live_until \ ks : live_until'[k] = live_until[k]
  BY <1>1, <1>3, <1>4, SealedIsInt
<1> QED
  BY <1>2, <1>5, SaveLives DEF ks

\* A prune takes the entries of what it removes, and leaves the others.
LEMMA PruneLives ==
    ASSUME GovIndInv, LifeInv, NEW b, NEW n, RentPrune(b, n)
    PROVE  LifeInv'
<1>1. PICK gone \in SUBSET DOMAIN proposals :
          proposals' = [id \in DOMAIN proposals \ gone |-> proposals[id]]
  BY PruneRemoves DEF RentPrune
<1>2. UNCHANGED now
  BY PruneRemoves DEF RentPrune
<1>3. /\ DOMAIN live_until' = {k \in DOMAIN live_until : k[2] \in DOMAIN proposals'}
      /\ \A k \in DOMAIN live_until' : live_until'[k] = live_until[k]
  BY DEF RentPrune, Restrict
<1>4. \A id \in DOMAIN proposals' : id \in DOMAIN proposals /\ proposals'[id] = proposals[id]
  BY <1>1
<1>5. LongEnough(live_until, proposals)'
  BY <1>3, <1>4 DEF LifeInv, LongEnough, guaranteed_life
<1> QED
  BY <1>2, <1>4, <1>5 DEF LifeInv

\* A restored entry had outlived its guarantee, or its proposal was decided.
LEMMA RestoreLives ==
    ASSUME GovIndInv, LifeInv, NEW k \in DOMAIN live_until, Restore(k)
    PROVE  LifeInv'
<1>1. now \in Int /\ \A j \in DOMAIN live_until : live_until[j] \in Int
  BY GovernanceAssumption DEF GovIndInv, GovTypeOK, LifeInv, LongEnough
<1>2. /\ live_until' = [live_until EXCEPT ![k] = created_until(now)]
      /\ UNCHANGED <<proposals, now>> /\ now > live_until[k]
  BY <1>1 DEF Restore, vars, is_live
<1>3. created_until(now) \in Int /\ created_until(now) >= live_until[k]
  BY <1>1, <1>2, NewEntryLives
<1>4. ASSUME NEW j \in DOMAIN live_until
      PROVE  live_until'[j] \in Int /\ live_until'[j] >= live_until[j]
  BY <1>1, <1>2, <1>3
<1>5. ASSUME NEW j \in DOMAIN live_until, ~is_terminal(proposals[j[2]].status)
      PROVE  live_until'[j] >= proposals[j[2]].created_at + guaranteed_life
  <2>1. j[2] \in DOMAIN proposals /\ live_until[j] >= proposals[j[2]].created_at + guaranteed_life
    BY <1>5 DEF LifeInv, LongEnough
  <2>2. proposals[j[2]].created_at \in Int
    BY <2>1, GovernanceAssumption DEF GovIndInv, GovTypeOK, Proposal
  <2> QED BY <1>1, <1>4, <2>1, <2>2, LifeIsInt
<1>6. LongEnough(live_until, proposals)'
  BY <1>2, <1>4, <1>5 DEF LifeInv, LongEnough, guaranteed_life
<1> QED
  BY <1>2, <1>6 DEF LifeInv

LEMMA StepLives ==
    ASSUME GovIndInv, LifeInv, [RentNext]_rentVars
    PROVE  LifeInv'
<1>1. now \in Int /\ \A id \in DOMAIN proposals : proposals[id].created_at \in Int
  BY GovernanceAssumption DEF GovIndInv, GovTypeOK, Proposal
<1>2. ASSUME UNCHANGED <<proposals, live_until>>, now' \in Int, now' >= now
      PROVE  LifeInv'
  <2>1. LongEnough(live_until, proposals)'
    BY <1>2 DEF LifeInv, LongEnough, guaranteed_life
  <2>2. \A id \in DOMAIN proposals : proposals[id].created_at <= now'
    BY <1>1, <1>2 DEF LifeInv
  <2> QED BY <1>2, <2>1, <2>2 DEF LifeInv
<1>3. CASE Tick /\ UNCHANGED <<live_until, loaded_at>>
  BY <1>1, <1>2, <1>3 DEF Tick
<1>4. CASE AdminCall /\ UNCHANGED <<live_until, loaded_at>>
  BY <1>1, <1>2, <1>4, AdminLeaves
<1>5. CASE UNCHANGED rentVars
  BY <1>1, <1>2, <1>5 DEF rentVars, vars
<1>6. CASE \E a \in Addresses, payload \in Payloads : RentPropose(a, payload)
  BY <1>6, ProposeLives
<1>7. ASSUME NEW id \in DOMAIN proposals,
             \/ \E a \in Addresses : RentApprove(a, id)
             \/ RentFinish(id)
             \/ RentView(id)
             \/ get_quorum_info(id)
      PROVE  LifeInv'
  BY <1>1, <1>7, ApproveLives, FinishLives, RenewalKeeps DEF RentView, get_quorum_info
<1>8. ASSUME NEW b \in ProposalIds, NEW n \in 1 .. MaxProposals,
             RentPrune(b, n) \/ get_proposals_by_id_range(b, n)
      PROVE  LifeInv'
  BY <1>1, <1>8, PruneLives, RenewalKeeps DEF get_proposals_by_id_range
<1>9. CASE \E k \in DOMAIN live_until : Restore(k)
  BY <1>9, RestoreLives
<1> QED
  BY <1>3, <1>4, <1>5, <1>6, <1>7, <1>8, <1>9 DEF RentNext

-----------------------------------------------------------------------------
(* How long a load keeps a proposal live.                                  *)

renewed_until(at) == at + PERSISTENT_LIFETIME_THRESHOLD + 1

active(P) == {id \in DOMAIN P : ~is_terminal(P[id].status)}

\* Every active proposal was loaded, and each of its entries has been live
\* since then, and is for the threshold and a ledger more.
LoadedInv ==
    /\ DOMAIN loaded_at = active(proposals)
    /\ \A id \in DOMAIN loaded_at : loaded_at[id] \in Int
    /\ \A k \in DOMAIN live_until :
          k[2] \in DOMAIN loaded_at => live_until[k] >= renewed_until(loaded_at[k[2]])

\* A renewal that does nothing finds more than the threshold left, and one that
\* does something gives more than that.
LEMMA ExtendedLongEnough ==
    ASSUME NEW until \in Int, NEW at \in Int
    PROVE  extended_until(until, at, PERSISTENT_LIFETIME_THRESHOLD, ACTIVE_PROPOSAL_BUMP_AMOUNT)
               >= renewed_until(at)
BY RetentionAssumption DEF extended_until, renewed_until

LEMMA BumpedLongEnough ==
    ASSUME NEW f, NEW ks, now \in Int, \A k \in DOMAIN f : f[k] \in Int
    PROVE  \A k \in DOMAIN f \cap ks : bumped(f, ks)[k] >= renewed_until(now)
<1> SUFFICES ASSUME NEW k \in DOMAIN f, k \in ks
             PROVE  bumped(f, ks)[k] >= renewed_until(now)
  OBVIOUS
<1>1. bumped(f, ks)[k] = extended_until(f[k], now, PERSISTENT_LIFETIME_THRESHOLD,
                                        ACTIVE_PROPOSAL_BUMP_AMOUNT)
  BY DEF bumped
<1> QED
  BY <1>1, ExtendedLongEnough

\* The entry k as a step leaves it: not shortened, of a proposal the step did
\* not load, or renewed with the rest of the proposal.
kept_or_renewed(k) ==
    \/ /\ k \in DOMAIN live_until /\ k[2] \in DOMAIN loaded_at
       /\ loaded_at'[k[2]] = loaded_at[k[2]]
       /\ live_until'[k] >= live_until[k]
    \/ loaded_at'[k[2]] = now /\ live_until'[k] >= renewed_until(now)

\* What is enough for a step to keep the invariant.
LEMMA LoadedKept ==
    ASSUME LoadedInv, LifeInv, LifeInv', now \in Int,
           DOMAIN loaded_at' = active(proposals'),
           \A id \in DOMAIN loaded_at' : \/ loaded_at'[id] = now
                                         \/ id \in DOMAIN loaded_at /\ loaded_at'[id] = loaded_at[id],
           \A k \in DOMAIN live_until' : k[2] \in DOMAIN loaded_at' => kept_or_renewed(k)
    PROVE  LoadedInv'
<1>1. \A id \in DOMAIN loaded_at' : loaded_at'[id] \in Int
  BY DEF LoadedInv
<1>2. /\ \A k \in DOMAIN live_until : live_until[k] \in Int
      /\ \A k \in DOMAIN live_until' : live_until'[k] \in Int
  BY DEF LifeInv, LongEnough
<1>3. ASSUME NEW k \in DOMAIN live_until', k[2] \in DOMAIN loaded_at'
      PROVE  live_until'[k] >= renewed_until(loaded_at'[k[2]])
  <2>1. kept_or_renewed(k)
    BY <1>3
  <2>2. CASE loaded_at'[k[2]] = now /\ live_until'[k] >= renewed_until(now)
    BY <2>2
  <2>3. CASE /\ k \in DOMAIN live_until /\ k[2] \in DOMAIN loaded_at
             /\ loaded_at'[k[2]] = loaded_at[k[2]]
             /\ live_until'[k] >= live_until[k]
    <3>1. live_until[k] >= renewed_until(loaded_at[k[2]]) /\ loaded_at[k[2]] \in Int
      BY <2>3 DEF LoadedInv
    <3>2. live_until[k] \in Int /\ live_until'[k] \in Int
      BY <1>2, <1>3, <2>3
    <3> QED BY <2>3, <3>1, <3>2, RetentionAssumption DEF renewed_until
  <2> QED BY <2>1, <2>2, <2>3 DEF kept_or_renewed
<1> QED
  BY <1>1, <1>3 DEF LoadedInv, active, renewed_until

\* The calls that renew some entries and load no whole proposal.
LEMMA RenewalKeepsLoaded ==
    ASSUME LoadedInv, LifeInv, LifeInv', now \in Int, NEW ks, live_until' = bumped(live_until, ks),
           UNCHANGED <<vars, loaded_at>>
    PROVE  LoadedInv'
<1>1. \A k \in DOMAIN live_until : live_until[k] \in Int
  BY DEF LifeInv, LongEnough
<1>2. /\ DOMAIN live_until' = DOMAIN live_until
      /\ \A k \in DOMAIN live_until : live_until'[k] >= live_until[k]
  BY <1>1, BumpedNotShortened
<1>3. DOMAIN loaded_at' = active(proposals')
  BY DEF LoadedInv, vars
<1>4. \A k \in DOMAIN live_until' : k[2] \in DOMAIN loaded_at' => kept_or_renewed(k)
  BY <1>2 DEF kept_or_renewed
<1> QED
  BY <1>3, <1>4, LoadedKept

LEMMA ViewLoads ==
    ASSUME LoadedInv, LifeInv, LifeInv', now \in Int, NEW id \in DOMAIN proposals, RentView(id)
    PROVE  LoadedInv'
<1> DEFINE ks == Keys \X {id}
<1>1. /\ \A k \in DOMAIN live_until : live_until[k] \in Int
      /\ DOMAIN live_until \subseteq Keys \X DOMAIN proposals
  BY DEF LifeInv, LongEnough
<1>2. live_until' = bumped(live_until, ks)
  BY DEF RentView, loads
<1>3. /\ id \in DOMAIN loaded_at /\ DOMAIN loaded_at' = DOMAIN loaded_at
      /\ loaded_at'[id] = now
      /\ \A i \in DOMAIN loaded_at \ {id} : loaded_at'[i] = loaded_at[i]
  BY DEF RentView, LoadedInv, active, put
<1>4. UNCHANGED proposals
  BY DEF RentView, vars
<1>5. \A k \in DOMAIN live_until : k[2] = id => k \in ks
  BY <1>1
<1> HIDE DEF ks
<1>6. /\ DOMAIN live_until' = DOMAIN live_until
      /\ \A k \in DOMAIN live_until : live_until'[k] >= live_until[k]
      /\ \A k \in DOMAIN live_until \cap ks : live_until'[k] >= renewed_until(now)
  BY <1>1, <1>2, BumpedNotShortened, BumpedLongEnough
<1>7. \A k \in DOMAIN live_until' : k[2] \in DOMAIN loaded_at' => kept_or_renewed(k)
  BY <1>3, <1>5, <1>6 DEF kept_or_renewed
<1>8. DOMAIN loaded_at' = active(proposals')
  BY <1>3, <1>4 DEF LoadedInv
<1> QED
  BY <1>3, <1>7, <1>8, LoadedKept

LEMMA ProposeLoads ==
    ASSUME GovIndInv, LoadedInv, LifeInv, LifeInv', NEW a \in Addresses, NEW payload \in Payloads,
           RentPropose(a, payload)
    PROVE  LoadedInv'
<1> DEFINE n == next_proposal_id
           k == <<"Proposal", n>>
           w == written(live_until, k)
<1>1. /\ now \in Int
      /\ \A j \in DOMAIN live_until : live_until[j] \in Int
      /\ DOMAIN live_until \subseteq Keys \X DOMAIN proposals
  BY GovernanceAssumption DEF GovIndInv, GovTypeOK, LifeInv, LongEnough
<1>2. /\ n \notin DOMAIN proposals /\ DOMAIN proposals' = DOMAIN proposals \cup {n}
      /\ \A id \in DOMAIN proposals : proposals'[id] = proposals[id]
      /\ proposals'[n].status = "Proposed"
  BY ProposeSaves DEF RentPropose
<1>3. /\ DOMAIN loaded_at' = DOMAIN loaded_at \cup {n} /\ loaded_at'[n] = now
      /\ n \notin DOMAIN loaded_at
      /\ \A id \in DOMAIN loaded_at : loaded_at'[id] = loaded_at[id]
  BY <1>2 DEF RentPropose, put, LoadedInv, active
<1>4. /\ k[2] = n /\ k \notin DOMAIN live_until
      /\ \A j \in DOMAIN live_until : j[2] # n
  BY <1>1, <1>2
<1>5. live_until' = bumped(w, {k})
  BY DEF RentPropose
<1> HIDE DEF k
<1>6. /\ DOMAIN w = DOMAIN live_until \cup {k}
      /\ \A j \in DOMAIN live_until : w[j] = live_until[j]
      /\ w[k] = created_until(now)
  BY <1>4 DEF written, put
<1>7. \A j \in DOMAIN w : w[j] \in Int
  BY <1>1, <1>6, NewEntryLives
<1> HIDE DEF w
<1>8. /\ DOMAIN live_until' = DOMAIN w
      /\ \A j \in DOMAIN w : live_until'[j] >= w[j]
      /\ live_until'[k] >= renewed_until(now)
  BY <1>1, <1>5, <1>6, <1>7, BumpedNotShortened, BumpedLongEnough
<1>9. \A j \in DOMAIN live_until' : j[2] \in DOMAIN loaded_at' => kept_or_renewed(j)
  BY <1>3, <1>4, <1>6, <1>8 DEF kept_or_renewed
<1>10. DOMAIN loaded_at' = active(proposals')
  BY <1>2, <1>3 DEF LoadedInv, active, is_terminal
<1> QED
  BY <1>1, <1>3, <1>9, <1>10, LoadedKept

LEMMA ApproveLoads ==
    ASSUME GovIndInv, LoadedInv, LifeInv, LifeInv', NEW a \in Addresses, NEW id \in DOMAIN proposals,
           RentApprove(a, id)
    PROVE  LoadedInv'
<1> DEFINE ks == Keys \X {id}
           voted == written(live_until, <<"ProposalApprovalIdx", id>>)
           all == IF id \in DOMAIN quorum_info' THEN written(voted, <<"QuorumReachedAt", id>>)
                                                ELSE voted
<1>1. /\ now \in Int
      /\ \A j \in DOMAIN live_until : live_until[j] \in Int
      /\ DOMAIN live_until \subseteq Keys \X DOMAIN proposals
  BY GovernanceAssumption DEF GovIndInv, GovTypeOK, LifeInv, LongEnough
<1>2. /\ approve(a, id) /\ live_until' = bumped(all, ks)
      /\ loaded_at' = put(loaded_at, id, now)
  BY DEF RentApprove
<1>3. PICK q : Saves(id, q) /\ ~is_terminal(q.status)
  BY <1>2, ApproveSaves DEF is_terminal
<1>4. ~is_terminal(proposals[id].status)
  BY <1>2, ApproveSaves DEF is_terminal
<1>5. /\ id \in DOMAIN loaded_at /\ DOMAIN loaded_at' = DOMAIN loaded_at
      /\ loaded_at'[id] = now
      /\ \A i \in DOMAIN loaded_at \ {id} : loaded_at'[i] = loaded_at[i]
  BY <1>2, <1>4 DEF LoadedInv, active, put
<1>6. /\ DOMAIN live_until \subseteq DOMAIN all /\ DOMAIN all \subseteq DOMAIN live_until \cup ks
      /\ \A j \in DOMAIN live_until : all[j] = live_until[j]
      /\ \A j \in DOMAIN all \ DOMAIN live_until : all[j] = created_until(now)
  BY DEF written, put, Keys
<1>7. \A j \in DOMAIN all : all[j] \in Int
  BY <1>1, <1>6, NewEntryLives
<1>8. \A j \in DOMAIN all : j[2] = id <=> j \in ks
  BY <1>1, <1>6
<1> HIDE DEF ks, all
<1>9. /\ DOMAIN live_until' = DOMAIN all
      /\ \A j \in DOMAIN all : live_until'[j] >= all[j]
      /\ \A j \in DOMAIN all \cap ks : live_until'[j] >= renewed_until(now)
  BY <1>1, <1>2, <1>7, BumpedNotShortened, BumpedLongEnough
<1>10. \A j \in DOMAIN live_until' : j[2] \in DOMAIN loaded_at' => kept_or_renewed(j)
  BY <1>5, <1>6, <1>8, <1>9 DEF kept_or_renewed
<1>11. DOMAIN loaded_at' = active(proposals')
  BY <1>3, <1>4, <1>5 DEF LoadedInv, active, Saves
<1> QED
  BY <1>1, <1>5, <1>10, <1>11, LoadedKept

LEMMA FinishUnloads ==
    ASSUME GovIndInv, LoadedInv, LifeInv, LifeInv', NEW id \in DOMAIN proposals, RentFinish(id)
    PROVE  LoadedInv'
<1> DEFINE ks == Keys \X {id}
           renewed == bumped(live_until, ks)
<1>1. /\ now \in Int
      /\ \A j \in DOMAIN live_until : live_until[j] \in Int
  BY GovernanceAssumption DEF GovIndInv, GovTypeOK, LifeInv, LongEnough
<1>2. PICK q : Saves(id, q) /\ is_terminal(q.status)
  BY ExecuteSaves, CancelSaves DEF RentFinish, is_terminal
<1>3. live_until' = sealed(renewed, ks)
  BY DEF RentFinish, loads
<1>4. /\ DOMAIN loaded_at' = DOMAIN loaded_at \ {id}
      /\ \A i \in DOMAIN loaded_at \ {id} : loaded_at'[i] = loaded_at[i]
  BY DEF RentFinish, Restrict
<1>5. \A k \in DOMAIN live_until : k[2] # id => k \notin ks
  OBVIOUS
<1> HIDE DEF ks
<1>6. /\ DOMAIN renewed = DOMAIN live_until
      /\ \A k \in DOMAIN renewed : renewed[k] \in Int
      /\ \A k \in DOMAIN live_until \ ks : renewed[k] = live_until[k]
  BY <1>1, BumpedNotShortened
<1> HIDE DEF renewed
<1>7. /\ DOMAIN live_until' = DOMAIN live_until
      /\ \A k \in DOMAIN live_until \ ks : live_until'[k] = live_until[k]
  BY <1>1, <1>3, <1>6, SealedIsInt
<1>8. \A k \in DOMAIN live_until' : k[2] \in DOMAIN loaded_at' => kept_or_renewed(k)
  BY <1>1, <1>4, <1>5, <1>7 DEF kept_or_renewed
<1>9. DOMAIN loaded_at' = active(proposals')
  BY <1>2, <1>4 DEF LoadedInv, active, Saves
<1> QED
  BY <1>1, <1>4, <1>8, <1>9, LoadedKept

LEMMA PruneUnloads ==
    ASSUME GovIndInv, LoadedInv, LifeInv, LifeInv', NEW b, NEW n, RentPrune(b, n)
    PROVE  LoadedInv'
<1>1. PICK gone \in SUBSET DOMAIN proposals :
          proposals' = [id \in DOMAIN proposals \ gone |-> proposals[id]]
  BY PruneRemoves DEF RentPrune
<1>2. /\ DOMAIN live_until' \subseteq DOMAIN live_until
      /\ \A k \in DOMAIN live_until' : live_until'[k] = live_until[k]
  BY DEF RentPrune, Restrict
<1>3. /\ DOMAIN loaded_at' = DOMAIN loaded_at \cap DOMAIN proposals'
      /\ \A i \in DOMAIN loaded_at' : loaded_at'[i] = loaded_at[i]
  BY DEF RentPrune, Restrict
<1>4. now \in Int /\ \A j \in DOMAIN live_until : live_until[j] \in Int
  BY GovernanceAssumption DEF GovIndInv, GovTypeOK, LifeInv, LongEnough
<1>5. \A k \in DOMAIN live_until' : k[2] \in DOMAIN loaded_at' => kept_or_renewed(k)
  BY <1>2, <1>3, <1>4 DEF kept_or_renewed
<1>6. DOMAIN loaded_at' = active(proposals')
  BY <1>1, <1>3 DEF LoadedInv, active
<1> QED
  BY <1>3, <1>4, <1>5, <1>6, LoadedKept

LEMMA RestoreKeepsLoaded ==
    ASSUME GovIndInv, LoadedInv, LifeInv, LifeInv', NEW k \in DOMAIN live_until, Restore(k)
    PROVE  LoadedInv'
<1>1. now \in Int /\ \A j \in DOMAIN live_until : live_until[j] \in Int
  BY GovernanceAssumption DEF GovIndInv, GovTypeOK, LifeInv, LongEnough
<1>2. /\ live_until' = [live_until EXCEPT ![k] = created_until(now)]
      /\ UNCHANGED <<proposals, now, loaded_at>> /\ now > live_until[k]
  BY <1>1 DEF Restore, vars, is_live
<1>3. created_until(now) \in Int /\ created_until(now) >= live_until[k]
  BY <1>1, <1>2, NewEntryLives
<1>4. \A j \in DOMAIN live_until' : j[2] \in DOMAIN loaded_at' => kept_or_renewed(j)
  BY <1>1, <1>2, <1>3 DEF kept_or_renewed
<1>5. DOMAIN loaded_at' = active(proposals')
  BY <1>2 DEF LoadedInv
<1> QED
  BY <1>1, <1>2, <1>4, <1>5, LoadedKept

LEMMA StepLoaded ==
    ASSUME GovIndInv, LoadedInv, LifeInv, LifeInv', [RentNext]_rentVars
    PROVE  LoadedInv'
<1>1. now \in Int
  BY GovernanceAssumption DEF GovIndInv, GovTypeOK
<1>2. ASSUME UNCHANGED <<proposals, live_until, loaded_at>>
      PROVE  LoadedInv'
  BY <1>2 DEF LoadedInv, active, renewed_until
<1>3. CASE (Tick \/ AdminCall) /\ UNCHANGED <<live_until, loaded_at>>
  BY <1>2, <1>3, AdminLeaves DEF Tick
<1>4. CASE UNCHANGED rentVars
  BY <1>2, <1>4 DEF rentVars, vars
<1>5. CASE \E a \in Addresses, payload \in Payloads : RentPropose(a, payload)
  BY <1>5, ProposeLoads
<1>6. ASSUME NEW id \in DOMAIN proposals,
             \/ \E a \in Addresses : RentApprove(a, id)
             \/ RentFinish(id)
             \/ RentView(id)
             \/ get_quorum_info(id)
      PROVE  LoadedInv'
  BY <1>1, <1>6, ApproveLoads, FinishUnloads, ViewLoads, RenewalKeepsLoaded DEF get_quorum_info
<1>7. ASSUME NEW b \in ProposalIds, NEW n \in 1 .. MaxProposals,
             RentPrune(b, n) \/ get_proposals_by_id_range(b, n)
      PROVE  LoadedInv'
  BY <1>1, <1>7, PruneUnloads, RenewalKeepsLoaded DEF get_proposals_by_id_range
<1>8. CASE \E k \in DOMAIN live_until : Restore(k)
  BY <1>8, RestoreKeepsLoaded
<1> QED
  BY <1>3, <1>4, <1>5, <1>6, <1>7, <1>8 DEF RentNext

\* On any network whatever it gives a new entry, and whoever reads, approves,
\* prunes and restores meanwhile: the record, the votes and the quorum of an
\* active proposal are live together for the life the network guarantees a new
\* entry, and for the threshold and a ledger after each load.
THEOREM AlwaysLiveWhileLoaded == RentSpec => []StaysLiveWhileLoaded
<1>1. RentInit => LifeInv /\ LoadedInv
  BY DEF RentInit, Init, LifeInv, LongEnough, LoadedInv, active, empty
<1>2. GovIndInv /\ LifeInv /\ LoadedInv /\ [RentNext]_rentVars => (LifeInv /\ LoadedInv)'
  BY StepLives, StepLoaded
<1>3. GovIndInv /\ LifeInv /\ LoadedInv => StaysLiveWhileLoaded
  <2> SUFFICES ASSUME GovIndInv, LifeInv, LoadedInv, NEW id \in DOMAIN proposals,
                      NEW k \in entries_of(id),
                      ~is_terminal(proposals[id].status), ~is_live(live_until[k], now)
               PROVE  /\ now > proposals[id].created_at + guaranteed_life
                      /\ now > loaded_at[id] + PERSISTENT_LIFETIME_THRESHOLD + 1
    BY DEF StaysLiveWhileLoaded, all_live
  <2>1. /\ live_until[k] >= proposals[id].created_at + guaranteed_life
        /\ live_until[k] >= renewed_until(loaded_at[id])
        /\ live_until[k] \in Int /\ loaded_at[id] \in Int
    BY DEF entries_of, LifeInv, LongEnough, LoadedInv, active
  <2>2. now \in Int /\ proposals[id].created_at \in Int
    BY GovernanceAssumption DEF GovIndInv, GovTypeOK, Proposal
  <2> QED BY <2>1, <2>2, LifeIsInt, RetentionAssumption DEF is_live, renewed_until
<1> QED
  BY <1>1, <1>2, <1>3, RentImplementsGovernance, GovSafe, PTL DEF RentSpec
===============================================================================
