---------------------------- MODULE GovernanceRent ----------------------------
(***************************************************************************)
(* The retention policy of the governance contract: the time to live of    *)
(* the three entries a proposal occupies, and every call that renews it,   *)
(* the views among them.  The instance entry, renewed by nearly every      *)
(* call, is left out.                                                      *)
(***************************************************************************)
EXTENDS MCGovernance, Rent

CONSTANTS
    PERSISTENT_LIFETIME_THRESHOLD,
    ACTIVE_PROPOSAL_BUMP_AMOUNT,
    TERMINAL_PROPOSAL_RETENTION

ASSUME RetentionAssumption ==
    /\ PERSISTENT_LIFETIME_THRESHOLD \in Nat
    /\ ACTIVE_PROPOSAL_BUMP_AMOUNT \in Nat
    /\ TERMINAL_PROPOSAL_RETENTION \in Nat
    /\ PERSISTENT_LIFETIME_THRESHOLD < ACTIVE_PROPOSAL_BUMP_AMOUNT

VARIABLES
    live_until,  \* <<key, id>> -> the last ledger on which that entry is live
    loaded_at    \* history: active id -> when it was last proposed, approved or loaded

rentVars == <<vars, live_until, loaded_at>>

Keys == {"Proposal", "QuorumReachedAt", "ProposalApprovalIdx"}
entries_of(id) == {k \in DOMAIN live_until : k[2] = id}

\* bump_active_entry, for each entry in ks that exists, of an active proposal.
bumped(f, ks) ==
    [k \in DOMAIN f |->
        IF k \in ks THEN extended_until(f[k], now, PERSISTENT_LIFETIME_THRESHOLD,
                                        ACTIVE_PROPOSAL_BUMP_AMOUNT)
                    ELSE f[k]]

\* seal_terminal_proposal.
sealed(f, ks) ==
    [k \in DOMAIN f |->
        IF k \in ks THEN extended_until(f[k], now, PERSISTENT_LIFETIME_THRESHOLD,
                                        TERMINAL_PROPOSAL_RETENTION)
                    ELSE f[k]]

\* Mutant: the record alone is renewed.
loads_record(id) == {"Proposal"} \X {id}

\* What load_proposal renews of an active proposal: all that exists of it.
loads(id) == Keys \X {id}

\* Setting an entry that exists does not renew it.
written(f, k) == IF k \in DOMAIN f THEN f ELSE put(f, k, created_until(now))

all_live(id) == \A k \in entries_of(id) : is_live(live_until[k], now)

-----------------------------------------------------------------------------
RentInit == Init /\ live_until = empty /\ loaded_at = empty

\* save_proposal of a new record.
RentPropose(proposer, payload) ==
    LET k == <<"Proposal", next_proposal_id>> IN
    /\ propose(proposer, payload)
    /\ live_until' = bumped(written(live_until, k), {k})
    /\ loaded_at' = put(loaded_at, next_proposal_id, now)

\* load_proposal, save_proposal, save_approval_index and the quorum snapshot:
\* what is written is written first and everything is renewed.
RentApprove(approver, id) ==
    LET voted == written(live_until, <<"ProposalApprovalIdx", id>>)
        all == IF id \in DOMAIN quorum_info' THEN written(voted, <<"QuorumReachedAt", id>>)
                                             ELSE voted
    IN
    /\ all_live(id)
    /\ approve(approver, id)
    /\ live_until' = bumped(all, Keys \X {id})
    /\ loaded_at' = put(loaded_at, id, now)

\* load_proposal finds the proposal active and renews it; save_proposal then
\* finds it terminal and seals it.
RentFinish(id) ==
    /\ all_live(id)
    /\ \/ execute(id)
       \/ \E caller \in Addresses : cancel_proposal(caller, id)
    /\ live_until' = sealed(bumped(live_until, loads(id)), Keys \X {id})
    /\ loaded_at' = Restrict(loaded_at, DOMAIN loaded_at \ {id})

RentPrune(start_id, limit) ==
    /\ \A id \in page(start_id, limit) : all_live(id)
    /\ prune_expired_proposals(start_id, limit)
    /\ live_until' = Restrict(live_until, {k \in DOMAIN live_until : k[2] \in DOMAIN proposals'})
    /\ loaded_at' = Restrict(loaded_at, DOMAIN loaded_at \cap DOMAIN proposals')

\* load_proposal, in get_proposal and the views like it.
RentView(id) ==
    /\ all_live(id)
    /\ ~is_terminal(proposals[id].status)
    /\ live_until' = bumped(live_until, loads(id))
    /\ loaded_at' = put(loaded_at, id, now)
    /\ UNCHANGED vars

\* get_quorum_info.
get_quorum_info(id) ==
    /\ all_live(id)
    /\ id \in DOMAIN quorum_info /\ ~is_terminal(proposals[id].status)
    /\ live_until' = bumped(live_until, {<<"QuorumReachedAt", id>>})
    /\ UNCHANGED <<vars, loaded_at>>

\* get_proposals_by_id_range: the records of a page, without what belongs to
\* them.
get_proposals_by_id_range(start_id, limit) ==
    LET active == {id \in page(start_id, limit) \cap DOMAIN proposals :
                      ~is_terminal(proposals[id].status)}
    IN
    /\ \A id \in page(start_id, limit) : all_live(id)
    /\ live_until' = bumped(live_until, {"Proposal"} \X active)
    /\ UNCHANGED <<vars, loaded_at>>

\* Anybody may restore an archived entry.
Restore(k) ==
    /\ ~is_live(live_until[k], now)
    /\ live_until' = [live_until EXCEPT ![k] = created_until(now)]
    /\ UNCHANGED <<vars, loaded_at>>

RentNext ==
    \/ Tick /\ UNCHANGED <<live_until, loaded_at>>
    \/ AdminCall /\ UNCHANGED <<live_until, loaded_at>>
    \/ /\ changes + next_proposal_id < MaxMoves
       /\ \E a \in Addresses, payload \in Payloads : RentPropose(a, payload)
    \/ \E id \in DOMAIN proposals :
          \/ \E a \in Addresses : RentApprove(a, id)
          \/ RentFinish(id)
          \/ RentView(id)
          \/ get_quorum_info(id)
    \/ \E start_id \in ProposalIds, limit \in 1 .. MaxProposals :
          \/ RentPrune(start_id, limit)
          \/ get_proposals_by_id_range(start_id, limit)
    \/ \E k \in DOMAIN live_until : Restore(k)

RentSpec == RentInit /\ [][RentNext]_rentVars

-----------------------------------------------------------------------------
\* What a network gives every entry of an active proposal: a new entry is
\* renewed at once where it has at most the threshold to live, and lives the
\* network's minimum otherwise, until some later call renews it.
guaranteed_life ==
    IF min_persistent_ttl - 1 <= PERSISTENT_LIFETIME_THRESHOLD
    THEN ACTIVE_PROPOSAL_BUMP_AMOUNT
    ELSE min_persistent_ttl - 1

\* On any network, and whoever reads, approves, prunes and restores meanwhile,
\* the record, the votes and the quorum of an active proposal are all live for
\* the life the network guarantees them, and past that as long as somebody
\* proposed, approved or loaded the proposal within the last threshold and a
\* ledger.  The calls that renew one entry of the three, the pages of records
\* and get_quorum_info, keep nothing alive, and leave nothing behind.
StaysLiveWhileLoaded ==
    \A id \in DOMAIN proposals : ~is_terminal(proposals[id].status) /\ ~all_live(id) =>
        /\ now > proposals[id].created_at + guaranteed_life
        /\ now > loaded_at[id] + PERSISTENT_LIFETIME_THRESHOLD + 1
===============================================================================
