------------------------------- MODULE StreamNft -------------------------------
(***************************************************************************)
(* The claim token, contracts/stream-nft/src/lib.rs: one token for each    *)
(* stream id, whose owner should be the stream's recipient.                *)
(* Deployment.tla composes it with the stream contract it calls.           *)
(***************************************************************************)
EXTENDS Integers

VARIABLES
    owner,        \* DataKey::Owner(stream_id)
    nft_balance,  \* DataKey::Balance(owner), stored when not zero
    supply        \* DataKey::Supply

nftVars == <<owner, nft_balance, supply>>

NftInit ==
    /\ owner = [id \in {} |-> {}]
    /\ nft_balance = [a \in {} |-> 0]
    /\ supply = 0

balance_of(balances, a) == IF a \in DOMAIN balances THEN balances[a] ELSE 0

credited(balances, a) ==
    [b \in DOMAIN balances \cup {a} |-> IF b = a THEN balance_of(balances, a) + 1 ELSE balances[b]]

\* A balance of one is removed, not set to zero.
debited(balances, a) ==
    [b \in {b \in DOMAIN balances : b # a \/ balances[b] > 1} |->
        IF b = a THEN balances[b] - 1 ELSE balances[b]]

\* The seller's balance is written before the buyer's is read: they may be one.
moved(balances, from, to) == credited(debited(balances, from), to)

may_mint(id) == id \notin DOMAIN owner

\* Authorized by the caller.  Neither the stream nor its recipient is asked,
\* nor whether the stream has been created yet.  A supply of u64::MAX is out of
\* reach.
mint(caller, id) ==
    /\ may_mint(id)
    /\ owner' = [i \in DOMAIN owner \cup {id} |-> IF i = id THEN caller ELSE owner[i]]
    /\ nft_balance' = credited(nft_balance, caller)
    /\ supply' = supply + 1

\* The token's part of transfer, authorized by the owner.  The call of the
\* stream contract's transfer_recipient comes first and must succeed.
transfer(id, to) ==
    /\ id \in DOMAIN owner
    /\ owner' = [owner EXCEPT ![id] = to]
    /\ nft_balance' = moved(nft_balance, owner[id], to)
    /\ UNCHANGED supply
===============================================================================
