------------------------------- MODULE Stream -------------------------------
(***************************************************************************)
(* The stream contract, contracts/stream/src/lib.rs: its storage, its      *)
(* pooled token balance and one action per mutating entry point.           *)
(*                                                                         *)
(* A call of the contract is one transaction: the host commits all of its  *)
(* writes and transfers, or, when it returns an error or traps, none.  An  *)
(* action is therefore a successful call; a call that fails leaves every   *)
(* variable alone, as does one the token refuses.  Authorization is the    *)
(* party an entry point asks for, named in each action's comment.          *)
(*                                                                         *)
(* Storage entries carry a time to live that every call renews.  It is     *)
(* left out here and added by StreamRent.tla: an entry that lapses is      *)
(* archived, never lost, and a call on it fails until somebody restores it.*)
(***************************************************************************)
EXTENDS Lifecycle, FiniteSets, Functions

CONSTANTS
    Addresses,     \* senders, recipients and delegates
    Contract,      \* the contract's own address, holder of the pool
    Tokens,        \* token contracts
    Supply,        \* what each address holds of each token at first
    Offers,        \* arguments create_stream is called with
    Amounts,       \* amounts top_up and withdraw are called with
    Delegates,     \* addresses grants are issued to
    GrantOps,      \* sets of operations grant_delegate is called with
    Expiries,      \* expires_at values grant_delegate is called with
    MaxBatchSize,  \* ids in one batch call (16 in the code)
    MaxStreams,    \* bound: streams created
    MaxTime        \* bound: the last ledger timestamp

Offer == [deposit: Int, start_time: 0 .. U64Max, end_time: 0 .. U64Max,
          cliff_time: 0 .. U64Max, cancellable: BOOLEAN, pausable: BOOLEAN,
          transferable: BOOLEAN]

sender_ops == {"CANCEL", "PAUSE", "RESUME", "TOP_UP"}
recipient_ops == {"WITHDRAW", "TRANSFER_RECIPIENT"}

ASSUME StreamAssumption ==
    /\ Contract \notin Addresses
    /\ Supply \in Nat
    /\ Offers \subseteq Offer
    /\ Amounts \subseteq Int
    /\ Delegates \subseteq Addresses
    /\ GrantOps \subseteq SUBSET (sender_ops \cup recipient_ops)
    /\ Expiries \subseteq Nat \cup {None}
    /\ MaxBatchSize \in Nat
    /\ MaxStreams \in Nat
    /\ MaxTime \in 0 .. U64Max

VARIABLES
    now,             \* the ledger timestamp
    next_stream_id,  \* DataKey::NextStreamId
    streams,         \* DataKey::Stream(id), for every id issued
    grants,          \* DataKey::Delegate(id, delegate), for every grant stored
    balance          \* token balances, the contract's pool among them

vars == <<now, next_stream_id, streams, grants, balance>>

Accounts == Addresses \cup {Contract}
Ids == 0 .. MaxStreams - 1

StreamRecord ==
    [sender: Addresses, recipient: Addresses, token: Tokens,
     deposited: 0 .. I128Max, withdrawn: 0 .. I128Max,
     start_time: 0 .. U64Max, end_time: 0 .. U64Max, cliff_time: 0 .. U64Max,
     cancellable: BOOLEAN, pausable: BOOLEAN, transferable: BOOLEAN,
     paused_at: 0 .. U64Max \cup {None}, paused_total: 0 .. U64Max,
     status: {"Active", "Paused", "Cancelled", "Depleted"}]

DelegateGrant ==
    [ops: SUBSET (sender_ops \cup recipient_ops), expires_at: Nat \cup {None}]

Init ==
    /\ now = 0
    /\ next_stream_id = 0
    /\ streams = [id \in {} |-> {}]
    /\ grants = [k \in {} |-> {}]
    /\ balance = [tok \in Tokens |->
                     [a \in Accounts |-> IF a = Contract THEN 0 ELSE Supply]]

-----------------------------------------------------------------------------
(* Building blocks.                                                        *)

\* token_transfer succeeds: the payer has the amount, and it moves.
token_transfer(tok, from, to, amount) ==
    /\ balance[tok][from] >= amount
    /\ balance' = [balance EXCEPT ![tok][from] = @ - amount,
                                  ![tok][to] = @ + amount]

save_stream(id, s) == streams' = [streams EXCEPT ![id] = s]

\* check_delegate: a stored grant, not past its expiry, that covers op.
check_delegate(id, delegate, op) ==
    /\ <<id, delegate>> \in DOMAIN grants
    /\ LET grant == grants[<<id, delegate>>]
       IN  /\ grant.expires_at # None => now <= grant.expires_at
           /\ op \in grant.ops

\* A batch is a non-empty list of at most MaxBatchSize distinct ids; neither
\* its result nor its failure depends on the order, so it is a set.
is_batch(ids) == ids # {} /\ Cardinality(ids) <= MaxBatchSize

-----------------------------------------------------------------------------
(* The sender's entry points.                                              *)

\* Authorized by sender, who pays the deposit.
create_stream(sender, recipient, token, o) ==
    /\ next_stream_id < MaxStreams
    /\ sender # recipient
    /\ may_create(o)
    /\ token_transfer(token, sender, Contract, o.deposit)
    /\ streams' = [id \in 0 .. next_stream_id |->
                      IF id = next_stream_id
                      THEN created(o, sender, recipient, token)
                      ELSE streams[id]]
    /\ next_stream_id' = next_stream_id + 1
    /\ UNCHANGED <<now, grants>>

\* Authorized by the stream's sender, who pays the amount.
top_up(id, amount) ==
    LET s == streams[id] IN
    /\ may_top_up(s, amount, now)
    /\ token_transfer(s.token, s.sender, Contract, amount)
    /\ save_stream(id, topped_up(s, amount))
    /\ UNCHANGED <<now, next_stream_id, grants>>

\* Authorized by the stream's sender, who gets the unvested rest back.
cancel(id) ==
    LET s == streams[id] IN
    /\ may_cancel(s, now)
    /\ save_stream(id, cancelled(s, now))
    /\ token_transfer(s.token, Contract, s.sender, refundable(s, now))
    /\ UNCHANGED <<now, next_stream_id, grants>>

\* Authorized by the stream's sender.
pause(id) ==
    /\ may_pause(streams[id])
    /\ save_stream(id, paused(streams[id], now))
    /\ UNCHANGED <<now, next_stream_id, grants, balance>>

\* Authorized by the stream's sender.
resume(id) ==
    /\ may_resume(streams[id], now)
    /\ save_stream(id, resumed(streams[id], now))
    /\ UNCHANGED <<now, next_stream_id, grants, balance>>

\* Authorized by the stream's sender.
transfer_recipient(id, new_recipient) ==
    /\ may_transfer(streams[id], new_recipient)
    /\ save_stream(id, transferred(streams[id], new_recipient))
    /\ UNCHANGED <<now, next_stream_id, grants, balance>>

\* Authorized by the sender of the first stream, which must be that of all.
batch_transfer_recipient(ids, new_recipient) ==
    /\ is_batch(ids)
    /\ \A i, j \in ids : streams[i].sender = streams[j].sender
    /\ \A id \in ids : may_transfer(streams[id], new_recipient)
    /\ streams' = [id \in DOMAIN streams |->
                      IF id \in ids THEN transferred(streams[id], new_recipient)
                                    ELSE streams[id]]
    /\ UNCHANGED <<now, next_stream_id, grants, balance>>

-----------------------------------------------------------------------------
(* The recipient's entry points.                                           *)

\* Authorized by the stream's recipient, who is paid.
withdraw(id, request) ==
    LET s == streams[id]
        amount == payout(s, request, now)
    IN
    /\ may_withdraw(s, request, now)
    /\ save_stream(id, after_withdrawal(s, amount, now))
    /\ token_transfer(s.token, Contract, s.recipient, amount)
    /\ UNCHANGED <<now, next_stream_id, grants>>

\* What a batch pays out of each stream.
payouts(ids) == [id \in ids |-> withdrawable(streams[id], now)]

\* What it pays out, whatever the tokens: the call's result, an i128.
batch_payout(ids) == SumFunctionOnSet(payouts(ids), ids)

\* Mutant: every payout in every token.
batch_total_untyped(ids, tok) == batch_payout(ids)

\* What a batch pays out in one token.
batch_total(ids, tok) ==
    SumFunctionOnSet(payouts(ids), {id \in ids : streams[id].token = tok})

\* Authorized once by recipient, who must be that of every stream.  A stream
\* with nothing to draw is skipped.
batch_withdraw(recipient, ids) ==
    /\ is_batch(ids)
    /\ \A id \in ids :
          LET s == streams[id] IN
          /\ s.recipient = recipient
          /\ ~vested_overflows(s, now)
          /\ after_withdrawal(s, withdrawable(s, now), now).paused_total <= U64Max
    /\ batch_payout(ids) <= I128Max
    /\ \A tok \in Tokens : balance[tok][Contract] >= batch_total(ids, tok)
    /\ streams' = [id \in DOMAIN streams |->
          LET s == streams[id]
              amount == withdrawable(s, now)
          IN  IF id \in ids /\ amount > 0 THEN after_withdrawal(s, amount, now)
                                          ELSE s]
    /\ balance' = [tok \in Tokens |->
          [balance[tok] EXCEPT ![Contract] = @ - batch_total(ids, tok),
                               ![recipient] = @ + batch_total(ids, tok)]]
    /\ UNCHANGED <<now, next_stream_id, grants>>

-----------------------------------------------------------------------------
(* Delegation.  The code repeats each entry point's body, with differences *)
(* that are kept here: a delegate's pause does not look at paused_at, its  *)
(* top-up saves first and asks for the sender's authorization as well.     *)

\* Authorized by the sender for sender operations, by the recipient for
\* recipient operations.  No operation at all is a call without effect; a mix
\* is refused.  A grant replaces whatever the delegate held on the stream.
grant_delegate(id, delegate, ops, expires_at) ==
    LET key == <<id, delegate>> IN
    /\ ~is_terminal(streams[id])
    /\ ops # {}
    /\ ops \subseteq sender_ops \/ ops \subseteq recipient_ops
    /\ grants' = [k \in DOMAIN grants \cup {key} |->
                     IF k = key THEN [ops |-> ops, expires_at |-> expires_at]
                                ELSE grants[k]]
    /\ UNCHANGED <<now, next_stream_id, streams, balance>>

\* Authorized by the sender or the recipient, not only by the one who issued the grant.
\* Succeeds, without effect, when there is no grant.
revoke_delegate(id, delegate) ==
    /\ grants' = Restrict(grants, DOMAIN grants \ {<<id, delegate>>})
    /\ UNCHANGED <<now, next_stream_id, streams, balance>>

delegate_withdraw(id, delegate, request) ==
    LET s == streams[id]
        amount == payout(s, request, now)
    IN
    /\ check_delegate(id, delegate, "WITHDRAW")
    /\ may_withdraw(s, request, now)
    /\ save_stream(id, after_withdrawal(s, amount, now))
    /\ token_transfer(s.token, Contract, s.recipient, amount)
    /\ UNCHANGED <<now, next_stream_id, grants>>

delegate_cancel(id, delegate) ==
    LET s == streams[id] IN
    /\ check_delegate(id, delegate, "CANCEL")
    /\ may_cancel(s, now)
    /\ save_stream(id, cancelled(s, now))
    /\ token_transfer(s.token, Contract, s.sender, refundable(s, now))
    /\ UNCHANGED <<now, next_stream_id, grants>>

delegate_pause(id, delegate) ==
    /\ check_delegate(id, delegate, "PAUSE")
    /\ may_delegate_pause(streams[id])
    /\ save_stream(id, paused(streams[id], now))
    /\ UNCHANGED <<now, next_stream_id, grants, balance>>

delegate_resume(id, delegate) ==
    /\ check_delegate(id, delegate, "RESUME")
    /\ may_resume(streams[id], now)
    /\ save_stream(id, resumed(streams[id], now))
    /\ UNCHANGED <<now, next_stream_id, grants, balance>>

\* Authorized by the delegate and by the stream's sender, who pays.
delegate_top_up(id, delegate, amount) ==
    LET s == streams[id] IN
    /\ check_delegate(id, delegate, "TOP_UP")
    /\ may_top_up(s, amount, now)
    /\ save_stream(id, topped_up(s, amount))
    /\ token_transfer(s.token, s.sender, Contract, amount)
    /\ UNCHANGED <<now, next_stream_id, grants>>

\* A transfer to the present recipient succeeds without effect, where
\* transfer_recipient refuses it: neither changes a variable.
delegate_transfer_recipient(id, delegate, new_recipient) ==
    /\ check_delegate(id, delegate, "TRANSFER_RECIPIENT")
    /\ may_transfer(streams[id], new_recipient)
    /\ save_stream(id, transferred(streams[id], new_recipient))
    /\ UNCHANGED <<now, next_stream_id, grants, balance>>

-----------------------------------------------------------------------------
\* The ledger closes with a later timestamp.
Tick ==
    /\ now < MaxTime
    /\ now' = now + 1
    /\ UNCHANGED <<next_stream_id, streams, grants, balance>>

Create ==
    \E sender, recipient \in Addresses, token \in Tokens, o \in Offers :
        create_stream(sender, recipient, token, o)

StreamCall(id) ==
    \/ \E amount \in Amounts : top_up(id, amount)
    \/ \E request \in Amounts \cup {None} : withdraw(id, request)
    \/ cancel(id)
    \/ pause(id)
    \/ resume(id)
    \/ \E a \in Addresses : transfer_recipient(id, a)

BatchCall ==
    \E ids \in SUBSET DOMAIN streams, a \in Addresses :
        \/ batch_withdraw(a, ids)
        \/ batch_transfer_recipient(ids, a)

DelegateCall(id, d) ==
    \/ \E ops \in GrantOps, t \in Expiries : grant_delegate(id, d, ops, t)
    \/ revoke_delegate(id, d)
    \/ \E request \in Amounts \cup {None} : delegate_withdraw(id, d, request)
    \/ delegate_cancel(id, d)
    \/ delegate_pause(id, d)
    \/ delegate_resume(id, d)
    \/ \E amount \in Amounts : delegate_top_up(id, d, amount)
    \/ \E a \in Addresses : delegate_transfer_recipient(id, d, a)

Next ==
    \/ Tick
    \/ Create
    \/ \E id \in DOMAIN streams : StreamCall(id)
    \/ BatchCall
    \/ \E id \in DOMAIN streams, d \in Delegates : DelegateCall(id, d)

Spec == Init /\ [][Next]_vars
=============================================================================
