---------------------------- MODULE ContractProofs ----------------------------
(***************************************************************************)
(* What the stream contract owes to those who use it, from the invariant   *)
(* of StreamProofs.tla.                                                    *)
(*                                                                         *)
(* The pool: FlowStep says, of every step, what each account gains: an     *)
(* address what is drawn from the streams it receives less what is put     *)
(* into the streams it sends, the pool the opposite of both.  That the     *)
(* pool holds exactly what the streams owe (I4) follows.                   *)
(*                                                                         *)
(* The promises: step by step, the contract implements the contract        *)
(* without delegation, as far as streams and tokens go, and the claims of  *)
(* Escrow.tla.                                                             *)
(***************************************************************************)
EXTENDS StreamProofs, SumProofs

-----------------------------------------------------------------------------
(* The pool.                                                               *)

\* Every account has a balance of every token.
BalanceOK == balance \in [Tokens -> [Accounts -> Int]]

\* What a step draws from each stream and puts into it.
drawn_now ==
    [id \in DOMAIN streams' |-> withdrawn_in(streams', id) - withdrawn_in(streams, id)]
funded_now ==
    [id \in DOMAIN streams' |-> deposited_in(streams', id) - deposited_in(streams, id)]

\* The streams of a token, those an address receives and those it sends.
held_in(tok) == {id \in DOMAIN streams' : streams'[id].token = tok}
received_in(tok, a) ==
    {id \in DOMAIN streams' : streams'[id].token = tok /\ streams'[id].recipient = a}
sent_in(tok, a) ==
    {id \in DOMAIN streams' : streams'[id].token = tok /\ streams'[id].sender = a}

\* What an account gains of a token by a step.
gain(tok, a) ==
    IF a = Contract
    THEN SumFunctionOnSet(funded_now, held_in(tok)) - SumFunctionOnSet(drawn_now, held_in(tok))
    ELSE SumFunctionOnSet(drawn_now, received_in(tok, a))
            - SumFunctionOnSet(funded_now, sent_in(tok, a))

Flows ==
    /\ BalanceOK'
    /\ \A tok \in Tokens, a \in Accounts : balance'[tok][a] - balance[tok][a] = gain(tok, a)

\* The sums of a step are over finite sets of integers.
LEMMA FlowTypes ==
    ASSUME TypeOK, TypeOK'
    PROVE  /\ \A id \in DOMAIN streams' : drawn_now[id] \in Int /\ funded_now[id] \in Int
           /\ \A S \in SUBSET DOMAIN streams' : IsFiniteSet(S)
           /\ \A tok, a : /\ held_in(tok) \in SUBSET DOMAIN streams'
                          /\ received_in(tok, a) \in SUBSET DOMAIN streams'
                          /\ sent_in(tok, a) \in SUBSET DOMAIN streams'
<1>1. ASSUME NEW id \in DOMAIN streams'
      PROVE  drawn_now[id] \in Int /\ funded_now[id] \in Int
  <2>1. streams'[id] \in StreamRecord /\ (id \in DOMAIN streams => streams[id] \in StreamRecord)
    BY DEF TypeOK
  <2>2. ASSUME NEW s \in StreamRecord PROVE s.withdrawn \in Int /\ s.deposited \in Int
    BY AccrualAssumption DEF StreamRecord
  <2> QED BY <2>1, <2>2 DEF drawn_now, funded_now, withdrawn_in, deposited_in
<1>2. IsFiniteSet(DOMAIN streams')
  <2>1. next_stream_id' \in Int /\ DOMAIN streams' = 0 .. next_stream_id' - 1
    BY StreamAssumption DEF TypeOK
  <2> QED BY <2>1, FS_Interval
<1>3. \A S \in SUBSET DOMAIN streams' : IsFiniteSet(S)
  BY <1>2, FS_Subset
<1> QED
  BY <1>1, <1>3 DEF held_in, received_in, sent_in

\* A step that only rewrites one stream, or opens it, and moves an amount of
\* its token: from the sender to the pool if it is put in, from the pool to
\* the recipient if it is drawn.
LEMMA OneStreamFlows ==
    ASSUME TypeOK, TypeOK', BalanceOK, NEW id \in DOMAIN streams',
           \A j \in DOMAIN streams' \ {id} : j \in DOMAIN streams /\ streams'[j] = streams[j],
           NEW drawn \in Int, NEW funded \in Int,
           drawn = withdrawn_in(streams', id) - withdrawn_in(streams, id),
           funded = deposited_in(streams', id) - deposited_in(streams, id),
           BalanceOK',
           \A tok \in Tokens, a \in Accounts :
               balance'[tok][a] - balance[tok][a] =
                   IF tok # streams'[id].token THEN 0
                   ELSE IF a = Contract THEN funded - drawn
                   ELSE (IF a = streams'[id].recipient THEN drawn ELSE 0)
                            - (IF a = streams'[id].sender THEN funded ELSE 0)
    PROVE  Flows
<1>1. drawn_now[id] = drawn /\ funded_now[id] = funded
  BY DEF drawn_now, funded_now
<1>2. ASSUME NEW j \in DOMAIN streams' \ {id} PROVE drawn_now[j] = 0 /\ funded_now[j] = 0
  <2>1. streams'[j] \in StreamRecord
    BY DEF TypeOK
  <2>2. streams'[j].withdrawn \in Int /\ streams'[j].deposited \in Int
    BY <2>1, AccrualAssumption DEF StreamRecord
  <2> QED BY <2>2 DEF drawn_now, funded_now, withdrawn_in, deposited_in
<1>3. ASSUME NEW S \in SUBSET DOMAIN streams'
      PROVE  /\ SumFunctionOnSet(drawn_now, S) = IF id \in S THEN drawn ELSE 0
             /\ SumFunctionOnSet(funded_now, S) = IF id \in S THEN funded ELSE 0
  <2>1. IsFiniteSet(S)
    BY FlowTypes
  <2>2. \A x \in S \ {id} : drawn_now[x] = 0 /\ funded_now[x] = 0
    BY <1>2
  <2> HIDE DEF drawn_now, funded_now
  <2> QED BY <1>1, <2>1, <2>2, SumOfOne
<1>4. ASSUME NEW tok \in Tokens, NEW a \in Accounts
      PROVE  balance'[tok][a] - balance[tok][a] = gain(tok, a)
  <2>1. /\ SumFunctionOnSet(drawn_now, held_in(tok)) = IF id \in held_in(tok) THEN drawn ELSE 0
        /\ SumFunctionOnSet(funded_now, held_in(tok)) = IF id \in held_in(tok) THEN funded ELSE 0
        /\ SumFunctionOnSet(drawn_now, received_in(tok, a))
              = IF id \in received_in(tok, a) THEN drawn ELSE 0
        /\ SumFunctionOnSet(funded_now, sent_in(tok, a))
              = IF id \in sent_in(tok, a) THEN funded ELSE 0
    BY <1>3, FlowTypes
  <2>2. /\ id \in held_in(tok) <=> streams'[id].token = tok
        /\ id \in received_in(tok, a) <=> streams'[id].token = tok /\ streams'[id].recipient = a
        /\ id \in sent_in(tok, a) <=> streams'[id].token = tok /\ streams'[id].sender = a
    BY DEF held_in, received_in, sent_in
  <2> QED BY <2>1, <2>2 DEF gain
<1> QED
  BY <1>4 DEF Flows

\* A step that draws nothing and puts nothing in.
LEMMA QuietFlows ==
    ASSUME TypeOK, TypeOK', BalanceOK, UNCHANGED balance, DOMAIN streams' = DOMAIN streams,
           \A id \in DOMAIN streams : /\ streams'[id].withdrawn = streams[id].withdrawn
                                      /\ streams'[id].deposited = streams[id].deposited
    PROVE  Flows
<1>1. ASSUME NEW id \in DOMAIN streams' PROVE drawn_now[id] = 0 /\ funded_now[id] = 0
  <2>1. streams[id] \in StreamRecord
    BY DEF TypeOK
  <2>2. streams[id].withdrawn \in Int /\ streams[id].deposited \in Int
    BY <2>1, AccrualAssumption DEF StreamRecord
  <2> QED BY <2>2 DEF drawn_now, funded_now, withdrawn_in, deposited_in
<1>2. ASSUME NEW S \in SUBSET DOMAIN streams'
      PROVE  SumFunctionOnSet(drawn_now, S) = 0 /\ SumFunctionOnSet(funded_now, S) = 0
  <2>1. IsFiniteSet(S) /\ \A x \in S : drawn_now[x] = 0 /\ funded_now[x] = 0
    BY <1>1, FlowTypes
  <2> HIDE DEF drawn_now, funded_now
  <2> QED BY <2>1, SumOfNone
<1>3. ASSUME NEW tok \in Tokens, NEW a \in Accounts
      PROVE  balance'[tok][a] - balance[tok][a] = 0 /\ gain(tok, a) = 0
  <2>1. balance[tok][a] \in Int
    BY DEF BalanceOK
  <2>2. gain(tok, a) = 0
    BY <1>2, FlowTypes DEF gain
  <2> QED BY <2>1, <2>2
<1> QED
  BY <1>3 DEF Flows, BalanceOK

-----------------------------------------------------------------------------
(* The calls.                                                              *)

\* What token_transfer does to the balances.
LEMMA TransferMoves ==
    ASSUME BalanceOK, NEW tok \in Tokens, NEW from \in Accounts, NEW to \in Accounts,
           from # to, NEW amount \in Int, token_transfer(tok, from, to, amount)
    PROVE  /\ BalanceOK'
           /\ \A tk \in Tokens, a \in Accounts :
                  balance'[tk][a] - balance[tk][a] =
                      IF tk # tok THEN 0
                      ELSE IF a = from THEN -amount ELSE IF a = to THEN amount ELSE 0
<1>1. balance' = [balance EXCEPT ![tok][from] = @ - amount, ![tok][to] = @ + amount]
  BY DEF token_transfer
<1>2. ASSUME NEW tk \in Tokens, NEW a \in Accounts
      PROVE  balance[tk][a] \in Int
  BY DEF BalanceOK
<1>3. \A tk \in Tokens : tk # tok => balance'[tk] = balance[tk]
  BY <1>1 DEF BalanceOK
<1>4. \A a \in Accounts :
         balance'[tok][a] = IF a = from THEN balance[tok][a] - amount
                            ELSE IF a = to THEN balance[tok][a] + amount ELSE balance[tok][a]
  BY <1>1 DEF BalanceOK
<1>5. BalanceOK'
  <2>1. balance' = [tk \in Tokens |-> balance'[tk]]
    BY <1>1 DEF BalanceOK
  <2>2. ASSUME NEW tk \in Tokens PROVE balance'[tk] \in [Accounts -> Int]
    <3>1. balance'[tk] = [a \in Accounts |-> balance'[tk][a]]
      BY <1>1 DEF BalanceOK
    <3>2. \A a \in Accounts : balance'[tk][a] \in Int
      BY <1>2, <1>3, <1>4
    <3> QED BY <3>1, <3>2
  <2> QED BY <2>1, <2>2 DEF BalanceOK
<1> QED
  BY <1>2, <1>3, <1>4, <1>5

\* The parties of a stored stream are addresses, and none is the contract.
LEMMA StreamParties ==
    ASSUME TypeOK, NEW id \in DOMAIN streams
    PROVE  /\ streams[id].token \in Tokens
           /\ streams[id].sender \in Addresses /\ streams[id].recipient \in Addresses
           /\ streams[id].sender \in Accounts /\ streams[id].recipient \in Accounts
           /\ streams[id].sender # Contract /\ streams[id].recipient # Contract
           /\ streams[id].withdrawn \in Int /\ streams[id].deposited \in Int
           /\ Contract \in Accounts
BY TypedStream, StreamAssumption, AccrualAssumption DEF StreamRecord, Accounts

\* The sender puts an amount into a stream.
LEMMA PutInFlows ==
    ASSUME TypeOK, TypeOK', BalanceOK, NEW id \in DOMAIN streams, NEW t,
           save_stream(id, t), NEW amount \in Int,
           t.token = streams[id].token, t.sender = streams[id].sender,
           t.withdrawn = streams[id].withdrawn, t.deposited = streams[id].deposited + amount,
           token_transfer(streams[id].token, streams[id].sender, Contract, amount)
    PROVE  Flows
<1>1. /\ DOMAIN streams' = DOMAIN streams /\ streams'[id] = t
      /\ \A j \in DOMAIN streams \ {id} : streams'[j] = streams[j]
  BY DEF save_stream
<1>2. /\ BalanceOK'
      /\ \A tok \in Tokens, a \in Accounts :
             balance'[tok][a] - balance[tok][a] =
                 IF tok # streams[id].token THEN 0
                 ELSE IF a = streams[id].sender THEN -amount
                 ELSE IF a = Contract THEN amount ELSE 0
  BY StreamParties, TransferMoves
<1>3. /\ withdrawn_in(streams', id) - withdrawn_in(streams, id) = 0
      /\ deposited_in(streams', id) - deposited_in(streams, id) = amount
  BY <1>1, StreamParties DEF withdrawn_in, deposited_in
<1> QED
  BY <1>1, <1>2, <1>3, StreamParties, OneStreamFlows

\* The recipient draws an amount from a stream.
LEMMA DrawnFlows ==
    ASSUME TypeOK, TypeOK', BalanceOK, NEW id \in DOMAIN streams, NEW t,
           save_stream(id, t), NEW amount \in Int,
           t.token = streams[id].token, t.recipient = streams[id].recipient,
           t.deposited = streams[id].deposited, t.withdrawn = streams[id].withdrawn + amount,
           token_transfer(streams[id].token, Contract, streams[id].recipient, amount)
    PROVE  Flows
<1>1. /\ DOMAIN streams' = DOMAIN streams /\ streams'[id] = t
      /\ \A j \in DOMAIN streams \ {id} : streams'[j] = streams[j]
  BY DEF save_stream
<1>2. /\ BalanceOK'
      /\ \A tok \in Tokens, a \in Accounts :
             balance'[tok][a] - balance[tok][a] =
                 IF tok # streams[id].token THEN 0
                 ELSE IF a = Contract THEN -amount
                 ELSE IF a = streams[id].recipient THEN amount ELSE 0
  BY StreamParties, TransferMoves
<1>3. /\ withdrawn_in(streams', id) - withdrawn_in(streams, id) = amount
      /\ deposited_in(streams', id) - deposited_in(streams, id) = 0
  BY <1>1, StreamParties DEF withdrawn_in, deposited_in
<1> QED
  BY <1>1, <1>2, <1>3, StreamParties, OneStreamFlows

\* The sender takes an amount back out of a stream.
LEMMA TakenBackFlows ==
    ASSUME TypeOK, TypeOK', BalanceOK, NEW id \in DOMAIN streams, NEW t,
           save_stream(id, t), NEW amount \in Int,
           t.token = streams[id].token, t.sender = streams[id].sender,
           t.withdrawn = streams[id].withdrawn, t.deposited = streams[id].deposited - amount,
           token_transfer(streams[id].token, Contract, streams[id].sender, amount)
    PROVE  Flows
<1>1. /\ DOMAIN streams' = DOMAIN streams /\ streams'[id] = t
      /\ \A j \in DOMAIN streams \ {id} : streams'[j] = streams[j]
  BY DEF save_stream
<1>2. /\ BalanceOK'
      /\ \A tok \in Tokens, a \in Accounts :
             balance'[tok][a] - balance[tok][a] =
                 IF tok # streams[id].token THEN 0
                 ELSE IF a = Contract THEN -amount
                 ELSE IF a = streams[id].sender THEN amount ELSE 0
  BY StreamParties, TransferMoves
<1>3. /\ withdrawn_in(streams', id) - withdrawn_in(streams, id) = 0
      /\ deposited_in(streams', id) - deposited_in(streams, id) = -amount
  BY <1>1, StreamParties DEF withdrawn_in, deposited_in
<1> QED
  BY <1>1, <1>2, <1>3, StreamParties, OneStreamFlows, SMTT(30)

\* A stream is saved with its deposit and what was drawn as they were.
LEMMA KeptFlows ==
    ASSUME TypeOK, TypeOK', BalanceOK, UNCHANGED balance, NEW id \in DOMAIN streams, NEW t,
           save_stream(id, t),
           t.withdrawn = streams[id].withdrawn, t.deposited = streams[id].deposited
    PROVE  Flows
BY QuietFlows DEF save_stream

\* What each operator of Lifecycle does to the figures and the parties.
LEMMA RecordFlows ==
    ASSUME NEW s \in StreamRecord, NEW at \in 0 .. U64Max
    PROVE  /\ \A amount \in Int :
                 LET t == topped_up(s, amount)
                 IN  /\ t.deposited = s.deposited + amount /\ t.withdrawn = s.withdrawn
                     /\ t.token = s.token /\ t.sender = s.sender /\ t.recipient = s.recipient
           /\ \A amount \in Int :
                 LET t == after_withdrawal(s, amount, at)
                 IN  /\ t.deposited = s.deposited /\ t.withdrawn = s.withdrawn + amount
                     /\ t.token = s.token /\ t.sender = s.sender /\ t.recipient = s.recipient
           /\ LET t == cancelled(s, at)
              IN  /\ t.deposited = s.deposited - refundable(s, at) /\ t.withdrawn = s.withdrawn
                  /\ t.token = s.token /\ t.sender = s.sender /\ refundable(s, at) \in Int
           /\ \A t \in {paused(s, at), resumed(s, at)} \cup {transferred(s, a) : a \in Addresses} :
                  t.deposited = s.deposited /\ t.withdrawn = s.withdrawn
<1>1. ASSUME NEW amount \in Int
      PROVE  LET t == topped_up(s, amount)
             IN  /\ t.deposited = s.deposited + amount /\ t.withdrawn = s.withdrawn
                 /\ t.token = s.token /\ t.sender = s.sender /\ t.recipient = s.recipient
  BY DEF topped_up, StreamRecord
<1>2. ASSUME NEW amount \in Int
      PROVE  LET t == after_withdrawal(s, amount, at)
             IN  /\ t.deposited = s.deposited /\ t.withdrawn = s.withdrawn + amount
                 /\ t.token = s.token /\ t.sender = s.sender /\ t.recipient = s.recipient
  BY DEF after_withdrawal, StreamRecord
<1>3. LET t == cancelled(s, at)
      IN  /\ t.deposited = s.deposited - refundable(s, at) /\ t.withdrawn = s.withdrawn
          /\ t.token = s.token /\ t.sender = s.sender /\ refundable(s, at) \in Int
  <2>1. vested(s, at) \in Int /\ s.deposited \in Int
    BY StoredStream, VestedBounds, AccrualAssumption DEF StreamRecord
  <2> QED BY <2>1 DEF cancelled, refundable, StreamRecord
<1>4. /\ paused(s, at).deposited = s.deposited /\ paused(s, at).withdrawn = s.withdrawn
      /\ resumed(s, at).deposited = s.deposited /\ resumed(s, at).withdrawn = s.withdrawn
      /\ \A a \in Addresses : /\ transferred(s, a).deposited = s.deposited
                              /\ transferred(s, a).withdrawn = s.withdrawn
  BY DEF paused, resumed, transferred, StreamRecord
<1> QED
  BY <1>1, <1>2, <1>3, <1>4

\* A new stream is funded with its deposit.
LEMMA CreateFlows ==
    ASSUME TypeOK, TypeOK', BalanceOK, Create
    PROVE  Flows
<1>1. PICK sender \in Addresses, recipient \in Addresses, token \in Tokens, o \in Offers :
          create_stream(sender, recipient, token, o)
  BY DEF Create
<1> DEFINE id == next_stream_id
           t == created(o, sender, recipient, token)
<1>2. o.deposit \in Int
  BY StreamAssumption DEF Offer
<1>3. /\ t.token = token /\ t.sender = sender /\ t.recipient = recipient
      /\ t.withdrawn = 0 /\ t.deposited = o.deposit
  BY DEF created
<1> HIDE DEF t
<1>4. /\ id \in DOMAIN streams' /\ id \notin DOMAIN streams /\ streams'[id] = t
      /\ \A j \in DOMAIN streams' \ {id} : j \in DOMAIN streams /\ streams'[j] = streams[j]
  BY <1>1, StreamAssumption DEF create_stream, TypeOK, t
<1>5. /\ BalanceOK'
      /\ \A tok \in Tokens, a \in Accounts :
             balance'[tok][a] - balance[tok][a] =
                 IF tok # token THEN 0
                 ELSE IF a = sender THEN -o.deposit
                 ELSE IF a = Contract THEN o.deposit ELSE 0
  <2>1. sender \in Accounts /\ Contract \in Accounts /\ sender # Contract
    BY StreamAssumption DEF Accounts
  <2>2. token_transfer(token, sender, Contract, o.deposit)
    BY <1>1 DEF create_stream
  <2> QED BY <1>2, <2>1, <2>2, TransferMoves
<1>6. /\ withdrawn_in(streams', id) - withdrawn_in(streams, id) = 0
      /\ deposited_in(streams', id) - deposited_in(streams, id) = o.deposit
  BY <1>2, <1>3, <1>4 DEF withdrawn_in, deposited_in
<1>7. sender # Contract
  BY StreamAssumption
<1> HIDE DEF id
<1>8. \A tok \in Tokens, a \in Accounts :
         balance'[tok][a] - balance[tok][a] =
             IF tok # streams'[id].token THEN 0
             ELSE IF a = Contract THEN o.deposit - 0
             ELSE (IF a = streams'[id].recipient THEN 0 ELSE 0)
                      - (IF a = streams'[id].sender THEN o.deposit ELSE 0)
  BY <1>2, <1>3, <1>4, <1>5, <1>7
<1> QED
  BY <1>2, <1>4, <1>5, <1>6, <1>8, OneStreamFlows

\* The calls of the parties.
LEMMA PartyFlows ==
    ASSUME TypeOK, TypeOK', BalanceOK, NEW id \in DOMAIN streams, StreamCall(id)
    PROVE  Flows
<1>1. streams[id] \in StreamRecord /\ now \in 0 .. U64Max
  BY TypedStream DEF TypeOK
<1>2. ASSUME NEW amount \in Amounts, top_up(id, amount) PROVE Flows
  BY <1>1, <1>2, StreamAssumption, RecordFlows, PutInFlows DEF top_up
<1>3. ASSUME NEW request \in Amounts \cup {None}, withdraw(id, request) PROVE Flows
  <2>1. payout(streams[id], request, now) \in Int
    BY <1>3, RequestShape DEF withdraw
  <2> QED BY <1>1, <1>3, <2>1, RecordFlows, DrawnFlows DEF withdraw
<1>4. CASE cancel(id)
  BY <1>1, <1>4, RecordFlows, TakenBackFlows DEF cancel
<1>5. CASE pause(id)
  BY <1>1, <1>5, RecordFlows, KeptFlows DEF pause
<1>6. CASE resume(id)
  BY <1>1, <1>6, RecordFlows, KeptFlows DEF resume
<1>7. ASSUME NEW a \in Addresses, transfer_recipient(id, a) PROVE Flows
  BY <1>1, <1>7, RecordFlows, KeptFlows DEF transfer_recipient
<1> QED
  BY <1>2, <1>3, <1>4, <1>5, <1>6, <1>7 DEF StreamCall

\* The same calls made by a delegate, and the grants.
LEMMA DelegateFlows ==
    ASSUME TypeOK, TypeOK', BalanceOK, NEW id \in DOMAIN streams, NEW d \in Delegates,
           DelegateCall(id, d)
    PROVE  Flows
<1>1. streams[id] \in StreamRecord /\ now \in 0 .. U64Max
  BY TypedStream DEF TypeOK
<1>2. ASSUME NEW ops \in GrantOps, NEW t \in Expiries, grant_delegate(id, d, ops, t) PROVE Flows
  BY <1>2, QuietFlows DEF grant_delegate
<1>3. CASE revoke_delegate(id, d)
  BY <1>3, QuietFlows DEF revoke_delegate
<1>4. ASSUME NEW request \in Amounts \cup {None}, delegate_withdraw(id, d, request) PROVE Flows
  <2>1. payout(streams[id], request, now) \in Int
    BY <1>4, RequestShape DEF delegate_withdraw
  <2> QED BY <1>1, <1>4, <2>1, RecordFlows, DrawnFlows DEF delegate_withdraw
<1>5. CASE delegate_cancel(id, d)
  BY <1>1, <1>5, RecordFlows, TakenBackFlows DEF delegate_cancel
<1>6. CASE delegate_pause(id, d)
  BY <1>1, <1>6, RecordFlows, KeptFlows DEF delegate_pause
<1>7. CASE delegate_resume(id, d)
  BY <1>1, <1>7, RecordFlows, KeptFlows DEF delegate_resume
<1>8. ASSUME NEW amount \in Amounts, delegate_top_up(id, d, amount) PROVE Flows
  BY <1>1, <1>8, StreamAssumption, RecordFlows, PutInFlows DEF delegate_top_up
<1>9. ASSUME NEW a \in Addresses, delegate_transfer_recipient(id, d, a) PROVE Flows
  BY <1>1, <1>9, RecordFlows, KeptFlows DEF delegate_transfer_recipient
<1> QED
  BY <1>2, <1>3, <1>4, <1>5, <1>6, <1>7, <1>8, <1>9 DEF DelegateCall

\* A batch pays out of each of its streams what can be drawn from it: per
\* token the recipient gets, and the pool loses, the sum over the batch.
LEMMA BatchWithdrawFlows ==
    ASSUME TypeOK, TypeOK', BalanceOK, NEW a \in Addresses, NEW ids \in SUBSET DOMAIN streams,
           batch_withdraw(a, ids)
    PROVE  Flows
<1>1. DOMAIN streams' = DOMAIN streams
  BY DEF batch_withdraw
<1>2. ASSUME NEW id \in DOMAIN streams
      PROVE  /\ streams'[id].token = streams[id].token
             /\ streams'[id].recipient = streams[id].recipient
             /\ funded_now[id] = 0
             /\ id \in ids => /\ drawn_now[id] = payouts(ids)[id] /\ payouts(ids)[id] \in Nat
                              /\ streams[id].recipient = a
             /\ id \notin ids => drawn_now[id] = 0
  <2> DEFINE s == streams[id]
             amount == withdrawable(s, now)
  <2>1. s \in StreamRecord /\ now \in 0 .. U64Max /\ s.withdrawn \in Int /\ s.deposited \in Int
    BY TypedStream, StreamParties DEF TypeOK
  <2>2. amount \in Nat
    BY TypedStream, VestedBounds DEF withdrawable, saturating_sub, Schedule
  <2>3. streams'[id] = IF id \in ids /\ amount > 0 THEN after_withdrawal(s, amount, now) ELSE s
    BY DEF batch_withdraw
  <2>4. id \in ids => payouts(ids)[id] = amount /\ s.recipient = a
    BY DEF payouts, batch_withdraw
  <2>5. /\ drawn_now[id] = streams'[id].withdrawn - s.withdrawn
        /\ funded_now[id] = streams'[id].deposited - s.deposited
    BY <1>1 DEF drawn_now, funded_now, withdrawn_in, deposited_in
  <2> HIDE DEF s, amount
  <2>6. CASE id \in ids /\ amount > 0
    BY <2>1, <2>2, <2>3, <2>4, <2>5, <2>6, RecordFlows DEF s
  <2>7. CASE ~(id \in ids /\ amount > 0)
    BY <2>1, <2>2, <2>3, <2>4, <2>5, <2>7 DEF s
  <2> QED BY <2>6, <2>7
<1> DEFINE in(tok) == {id \in ids : streams[id].token = tok}
<1>3. ASSUME NEW tok \in Tokens
      PROVE  /\ \A S \in SUBSET DOMAIN streams : SumFunctionOnSet(funded_now, S) = 0
             /\ in(tok) \in SUBSET DOMAIN streams /\ IsFiniteSet(in(tok))
             /\ SumFunctionOnSet(drawn_now, in(tok)) = batch_total(ids, tok)
             /\ batch_total(ids, tok) \in Int
  <2>1. ASSUME NEW S \in SUBSET DOMAIN streams PROVE SumFunctionOnSet(funded_now, S) = 0
    <3>1. IsFiniteSet(S) /\ \A x \in S : funded_now[x] = 0
      BY <1>1, <1>2, FlowTypes
    <3> HIDE DEF funded_now
    <3> QED BY <3>1, SumOfNone
  <2>2. in(tok) \in SUBSET DOMAIN streams /\ IsFiniteSet(in(tok))
    BY <1>1, FlowTypes
  <2>3. \A x \in in(tok) : payouts(ids)[x] \in Int /\ drawn_now[x] = payouts(ids)[x]
    BY <1>2
  <2>4. batch_total(ids, tok) = SumFunctionOnSet(payouts(ids), in(tok))
    BY DEF batch_total
  <2> HIDE DEF in, drawn_now, payouts
  <2> QED BY <2>1, <2>2, <2>3, <2>4, SumAgrees, SumIsInt
<1>4. ASSUME NEW tok \in Tokens, NEW S \in SUBSET DOMAIN streams, in(tok) \subseteq S,
             \A x \in S : streams[x].token = tok
      PROVE  SumFunctionOnSet(drawn_now, S) = batch_total(ids, tok)
  <2>1. IsFiniteSet(S)
    BY <1>1, FlowTypes
  <2>2. \A x \in in(tok) : drawn_now[x] \in Int
    BY <1>1, FlowTypes
  <2>3. \A x \in S \ in(tok) : drawn_now[x] = 0
    BY <1>2, <1>4
  <2>4. SumFunctionOnSet(drawn_now, S) = SumFunctionOnSet(drawn_now, in(tok))
    <3> HIDE DEF in, drawn_now
    <3> QED BY <1>4, <2>1, <2>2, <2>3, SumOverSubset
  <2> QED BY <1>3, <2>4
<1>5. ASSUME NEW tok \in Tokens
      PROVE  /\ gain(tok, Contract) = -batch_total(ids, tok)
             /\ gain(tok, a) = batch_total(ids, tok)
             /\ \A b \in Accounts \ {a, Contract} : gain(tok, b) = 0
  <2>1. /\ held_in(tok) \in SUBSET DOMAIN streams /\ in(tok) \subseteq held_in(tok)
        /\ \A x \in held_in(tok) : streams[x].token = tok
    BY <1>1, <1>2 DEF held_in
  <2>2. /\ received_in(tok, a) \in SUBSET DOMAIN streams /\ in(tok) \subseteq received_in(tok, a)
        /\ \A x \in received_in(tok, a) : streams[x].token = tok
    BY <1>1, <1>2 DEF received_in
  <2>3. ASSUME NEW b \in Accounts \ {a, Contract}
        PROVE  SumFunctionOnSet(drawn_now, received_in(tok, b)) = 0
    <3>1. IsFiniteSet(received_in(tok, b))
      BY FlowTypes
    <3>2. \A x \in received_in(tok, b) : drawn_now[x] = 0
      BY <1>1, <1>2 DEF received_in
    <3> HIDE DEF drawn_now
    <3> QED BY <3>1, <3>2, SumOfNone
  <2>4. \A b : sent_in(tok, b) \in SUBSET DOMAIN streams
    BY <1>1 DEF sent_in
  <2>5. a # Contract
    BY StreamAssumption
  <2>6. /\ SumFunctionOnSet(drawn_now, held_in(tok)) = batch_total(ids, tok)
        /\ SumFunctionOnSet(drawn_now, received_in(tok, a)) = batch_total(ids, tok)
    BY <1>4, <2>1, <2>2
  <2>7. /\ SumFunctionOnSet(funded_now, held_in(tok)) = 0
        /\ \A b : SumFunctionOnSet(funded_now, sent_in(tok, b)) = 0
    BY <1>3, <2>1, <2>4
  <2> DEFINE total == batch_total(ids, tok)
  <2>8. total \in Int
    BY <1>3
  <2>9. gain(tok, Contract) = 0 - total
    BY <2>6, <2>7 DEF gain
  <2>10. gain(tok, a) = total - 0
    BY <2>5, <2>6, <2>7 DEF gain
  <2>11. ASSUME NEW b \in Accounts \ {a, Contract} PROVE gain(tok, b) = 0 - 0
    BY <2>3, <2>7 DEF gain
  <2> HIDE DEF total
  <2>12. 0 - total = -total /\ total - 0 = total
    BY <2>8
  <2> QED BY <2>9, <2>10, <2>11, <2>12 DEF total
<1>6. ASSUME NEW tok \in Tokens
      PROVE  /\ balance'[tok] \in [Accounts -> Int]
             /\ balance'[tok][Contract] - balance[tok][Contract] = -batch_total(ids, tok)
             /\ balance'[tok][a] - balance[tok][a] = batch_total(ids, tok)
             /\ \A b \in Accounts \ {a, Contract} : balance'[tok][b] - balance[tok][b] = 0
  <2>1. a # Contract /\ a \in Accounts /\ Contract \in Accounts
    BY StreamAssumption DEF Accounts
  <2>2. balance[tok] \in [Accounts -> Int]
    BY DEF BalanceOK
  <2>3. balance'[tok] = [balance[tok] EXCEPT ![Contract] = @ - batch_total(ids, tok),
                                             ![a] = @ + batch_total(ids, tok)]
    BY DEF batch_withdraw
  <2> DEFINE total == batch_total(ids, tok)
  <2>4. total \in Int
    BY <1>3
  <2> HIDE DEF total
  <2> QED BY <2>1, <2>2, <2>3, <2>4 DEF total
<1>7. BalanceOK'
  <2>1. balance' = [tok \in Tokens |-> balance'[tok]]
    BY DEF batch_withdraw
  <2> QED BY <1>6, <2>1 DEF BalanceOK
<1>8. ASSUME NEW tok \in Tokens, NEW b \in Accounts
      PROVE  balance'[tok][b] - balance[tok][b] = gain(tok, b)
  BY <1>5, <1>6
<1> QED
  BY <1>7, <1>8 DEF Flows

\* The two calls that touch several streams at once.
LEMMA BatchFlows ==
    ASSUME TypeOK, TypeOK', BalanceOK, BatchCall
    PROVE  Flows
<1>1. PICK ids \in SUBSET DOMAIN streams, a \in Addresses :
          batch_withdraw(a, ids) \/ batch_transfer_recipient(ids, a)
  BY DEF BatchCall
<1>2. CASE batch_withdraw(a, ids)
  BY <1>2, BatchWithdrawFlows
<1>3. CASE batch_transfer_recipient(ids, a)
  <2>1. DOMAIN streams' = DOMAIN streams /\ UNCHANGED balance
    BY <1>3 DEF batch_transfer_recipient
  <2>2. ASSUME NEW id \in DOMAIN streams
        PROVE  /\ streams'[id].withdrawn = streams[id].withdrawn
               /\ streams'[id].deposited = streams[id].deposited
    <3>1. streams'[id] = IF id \in ids THEN transferred(streams[id], a) ELSE streams[id]
      BY <1>3 DEF batch_transfer_recipient
    <3>2. streams[id] \in StreamRecord /\ now \in 0 .. U64Max
      BY TypedStream DEF TypeOK
    <3> QED BY <3>1, <3>2, RecordFlows
  <2> QED BY <2>1, <2>2, QuietFlows
<1> QED
  BY <1>1, <1>2, <1>3

LEMMA FlowStep ==
    ASSUME TypeOK, TypeOK', BalanceOK, [Next]_vars
    PROVE  Flows
<1>1. CASE UNCHANGED vars
  BY <1>1, QuietFlows DEF vars
<1>2. CASE Tick
  BY <1>2, QuietFlows DEF Tick
<1>3. CASE Create
  BY <1>3, CreateFlows
<1>4. CASE BatchCall
  BY <1>4, BatchFlows
<1>5. CASE \E id \in DOMAIN streams : StreamCall(id)
  BY <1>5, PartyFlows
<1>6. CASE \E id \in DOMAIN streams, d \in Delegates : DelegateCall(id, d)
  BY <1>6, DelegateFlows
<1> QED
  BY <1>1, <1>2, <1>3, <1>4, <1>5, <1>6 DEF Next
-----------------------------------------------------------------------------
(* The pool.                                                               *)

\* Every account always has a balance of every token.
THEOREM BalancesAlwaysTyped == Spec => []BalanceOK
<1>1. Init => BalanceOK
  <2> SUFFICES ASSUME Init PROVE BalanceOK
    OBVIOUS
  <2>1. \A a \in Accounts : (IF a = Contract THEN 0 ELSE Supply) \in Int
    BY StreamAssumption
  <2> QED BY <2>1 DEF Init, BalanceOK
<1>2. TypeOK /\ TypeOK' /\ BalanceOK /\ [Next]_vars => BalanceOK'
  BY FlowStep DEF Flows
<1> QED
  BY <1>1, <1>2, TypeCorrect, PTL DEF Spec

\* What the streams of a token owe.
owed(ss, tok) ==
    SumFunctionOnSet([id \in DOMAIN ss |-> liability(ss[id])],
                     {id \in DOMAIN ss : ss[id].token = tok})

\* A step keeps the streams there are and their tokens.
LEMMA TokensKept ==
    ASSUME TypeOK, IInv, [Next]_vars
    PROVE  /\ DOMAIN streams \subseteq DOMAIN streams'
           /\ \A id \in DOMAIN streams : streams'[id].token = streams[id].token
<1>1. ASSUME NEW id \in DOMAIN streams PROVE streams'[id].token = streams[id].token
  <2>1. KeepsTerms(streams[id], streams'[id])
    <3>1. StreamInv(streams[id], now) /\ streams[id] \in StreamRecord /\ now \in 0 .. U64Max
      BY StreamAcross
    <3>2. stream_step(streams[id], streams'[id], now)
      BY StreamAcross DEF stream_step
    <3> QED BY <3>1, <3>2, CallTerms
  <2> QED BY <2>1 DEF KeepsTerms
<1>2. CASE Ticked
  BY <1>1, <1>2 DEF Ticked
<1>3. CASE Opened
  BY <1>1, <1>3, StreamAssumption DEF Opened, TypeOK
<1>4. CASE Called
  BY <1>1, <1>4 DEF Called
<1> QED
  BY <1>2, <1>3, <1>4, NextShape

\* What the streams of a token owe grows by what is put in and shrinks by what
\* is drawn.
LEMMA OwedStep ==
    ASSUME TypeOK, TypeOK', IInv, [Next]_vars, NEW tok \in Tokens
    PROVE  /\ owed(streams, tok) \in Int
           /\ owed(streams', tok) - owed(streams, tok) = gain(tok, Contract)
<1> DEFINE S == {id \in DOMAIN streams : streams[id].token = tok}
           H == held_in(tok)
           old == [id \in DOMAIN streams |-> liability(streams[id])]
           new == [id \in DOMAIN streams' |-> liability(streams'[id])]
           carried == [id \in DOMAIN streams' |->
                          IF id \in DOMAIN streams THEN liability(streams[id]) ELSE 0]
           moved == [id \in DOMAIN streams' |-> funded_now[id] - drawn_now[id]]
<1>1. DOMAIN streams \subseteq DOMAIN streams' /\ S \in SUBSET H /\ H \in SUBSET DOMAIN streams'
  BY TokensKept DEF held_in
<1>2. IsFiniteSet(H) /\ IsFiniteSet(S)
  BY <1>1, FlowTypes, FS_Subset
<1>3. ASSUME NEW id \in DOMAIN streams' PROVE drawn_now[id] \in Int /\ funded_now[id] \in Int
  BY FlowTypes
<1>4. ASSUME NEW id \in DOMAIN streams PROVE liability(streams[id]) \in Int
  BY StreamParties DEF liability
<1>5. ASSUME NEW id \in DOMAIN streams'
      PROVE  new[id] = carried[id] + moved[id] /\ carried[id] \in Int /\ moved[id] \in Int
  <2>1. streams'[id].withdrawn \in Int /\ streams'[id].deposited \in Int
    <3>1. streams'[id] \in StreamRecord
      BY DEF TypeOK
    <3> QED BY <3>1, AccrualAssumption DEF StreamRecord
  <2>2. /\ funded_now[id] = streams'[id].deposited - deposited_in(streams, id)
        /\ drawn_now[id] = streams'[id].withdrawn - withdrawn_in(streams, id)
    BY DEF funded_now, drawn_now, withdrawn_in, deposited_in
  <2>3. CASE id \in DOMAIN streams
    BY <1>4, <2>1, <2>2, <2>3, StreamParties DEF liability, withdrawn_in, deposited_in
  <2>4. CASE id \notin DOMAIN streams
    BY <2>1, <2>2, <2>4 DEF liability, withdrawn_in, deposited_in
  <2> QED BY <2>3, <2>4
<1>6. SumFunctionOnSet(old, S) \in Int
  <2>1. \A x \in S : old[x] \in Int
    BY <1>4
  <2> HIDE DEF old
  <2> QED BY <1>2, <2>1, SumIsInt
<1>7. SumFunctionOnSet(carried, H) = SumFunctionOnSet(old, S)
  <2>1. /\ \A x \in S : carried[x] \in Int /\ carried[x] = old[x]
        /\ \A x \in H \ S : carried[x] = 0
    BY <1>1, <1>4, <1>5, TokensKept DEF held_in
  <2> HIDE DEF carried, old, S, H
  <2>2. SumFunctionOnSet(carried, H) = SumFunctionOnSet(carried, S)
    BY <1>1, <1>2, <2>1, SumOverSubset
  <2>3. SumFunctionOnSet(carried, S) = SumFunctionOnSet(old, S)
    BY <1>2, <2>1, SumAgrees
  <2> QED BY <2>2, <2>3
<1>8. SumFunctionOnSet(funded_now, H)
         = SumFunctionOnSet(moved, H) + SumFunctionOnSet(drawn_now, H)
  <2>1. \A x \in H : moved[x] \in Int /\ drawn_now[x] \in Int
                        /\ funded_now[x] = moved[x] + drawn_now[x]
    BY <1>1, <1>3
  <2> HIDE DEF moved, H, funded_now, drawn_now
  <2> QED BY <1>2, <2>1, SumOfSums
<1>9. SumFunctionOnSet(new, H) = SumFunctionOnSet(carried, H) + SumFunctionOnSet(moved, H)
  <2>1. \A x \in H : carried[x] \in Int /\ moved[x] \in Int /\ new[x] = carried[x] + moved[x]
    BY <1>1, <1>5
  <2> HIDE DEF moved, H, carried, new
  <2> QED BY <1>2, <2>1, SumOfSums
<1>10. SumFunctionOnSet(moved, H) \in Int /\ SumFunctionOnSet(drawn_now, H) \in Int
  <2>1. \A x \in H : moved[x] \in Int /\ drawn_now[x] \in Int
    BY <1>1, <1>3, <1>5
  <2> HIDE DEF moved, H, drawn_now
  <2> QED BY <1>2, <2>1, SumIsInt
<1>11. owed(streams, tok) = SumFunctionOnSet(old, S) /\ owed(streams', tok) = SumFunctionOnSet(new, H)
  BY DEF owed, held_in
<1>12. gain(tok, Contract) = SumFunctionOnSet(funded_now, H) - SumFunctionOnSet(drawn_now, H)
  BY DEF gain
<1> HIDE DEF S, H, old, new, carried, moved
<1> QED
  BY <1>6, <1>7, <1>8, <1>9, <1>10, <1>11, <1>12

\* The pool always holds exactly what the streams owe, in every token: nothing
\* is owed twice and nothing is stranded.
THEOREM PoolAlwaysExact == Spec => []PoolIsExact
<1>1. Init => PoolIsExact
  <2> SUFFICES ASSUME Init, NEW tok \in Tokens
               PROVE  balance[tok][Contract] = owed(streams, tok)
    BY DEF PoolIsExact, owed
  <2>1. DOMAIN streams = {} /\ Contract \in Accounts
    BY DEF Init, Accounts
  <2>2. balance[tok][Contract] = 0
    BY <2>1 DEF Init
  <2>3. {id \in DOMAIN streams : streams[id].token = tok} = {}
    BY <2>1
  <2>4. owed(streams, tok) = 0
    BY <2>3, SumEmpty DEF owed
  <2> QED BY <2>2, <2>4
<1>2. TypeOK /\ TypeOK' /\ IInv /\ BalanceOK /\ PoolIsExact /\ [Next]_vars => PoolIsExact'
  <2> SUFFICES ASSUME TypeOK, TypeOK', IInv, BalanceOK, PoolIsExact, [Next]_vars,
                      NEW tok \in Tokens
               PROVE  balance'[tok][Contract] = owed(streams', tok)
    BY DEF PoolIsExact, owed
  <2>1. Contract \in Accounts
    BY DEF Accounts
  <2>2. balance[tok][Contract] = owed(streams, tok)
    BY DEF PoolIsExact, owed
  <2>3. balance'[tok][Contract] - balance[tok][Contract] = gain(tok, Contract)
    BY <2>1, FlowStep DEF Flows
  <2>4. balance'[tok][Contract] \in Int
    BY <2>1, FlowStep DEF Flows, BalanceOK
  <2>5. owed(streams, tok) \in Int /\ owed(streams', tok) - owed(streams, tok) = gain(tok, Contract)
    BY OwedStep
  <2>6. owed(streams', tok) \in Int
    <3>1. \A id \in DOMAIN streams' : liability(streams'[id]) \in Int
      <4>1. \A id \in DOMAIN streams' : streams'[id] \in StreamRecord
        BY DEF TypeOK
      <4> QED BY <4>1, AccrualAssumption DEF StreamRecord, liability
    <3> DEFINE f == [id \in DOMAIN streams' |-> liability(streams'[id])]
    <3>2. \A id \in held_in(tok) : f[id] \in Int
      BY <3>1, FlowTypes
    <3>3. IsFiniteSet(held_in(tok))
      BY FlowTypes
    <3>4. owed(streams', tok) = SumFunctionOnSet(f, held_in(tok))
      BY DEF owed, held_in
    <3> HIDE DEF f
    <3> QED BY <3>2, <3>3, <3>4, SumIsInt
  <2> QED BY <2>2, <2>3, <2>4, <2>5, <2>6
<1> QED
  BY <1>1, <1>2, TypeCorrect, InvariantHolds, BalancesAlwaysTyped, PTL DEF Spec

\* Whatever an address gains or pays is what the accounting of its streams says.
THEOREM FlowsAlwaysMatch == Spec => FlowsMatchAccounting
<1> DEFINE Matches ==
        \A tok \in Tokens, a \in Addresses : balance'[tok][a] - balance[tok][a] =
            SumFunctionOnSet(drawn_now, received_in(tok, a))
                - SumFunctionOnSet(funded_now, sent_in(tok, a))
<1>1. TypeOK /\ TypeOK' /\ BalanceOK /\ [Next]_vars => [Matches]_vars
  <2> SUFFICES ASSUME TypeOK, TypeOK', BalanceOK, [Next]_vars,
                      NEW tok \in Tokens, NEW a \in Addresses
               PROVE  balance'[tok][a] - balance[tok][a] =
                          SumFunctionOnSet(drawn_now, received_in(tok, a))
                              - SumFunctionOnSet(funded_now, sent_in(tok, a))
    OBVIOUS
  <2>1. a \in Accounts /\ a # Contract
    BY StreamAssumption DEF Accounts
  <2>2. balance'[tok][a] - balance[tok][a] = gain(tok, a)
    BY <2>1, FlowStep DEF Flows
  <2> QED BY <2>1, <2>2 DEF gain
<1> QED
  BY <1>1, TypeCorrect, BalancesAlwaysTyped, PTL
     DEF Spec, FlowsMatchAccounting, drawn_now, funded_now, received_in, sent_in

-----------------------------------------------------------------------------
(* Delegation.                                                             *)

\* The contract without delegation computes what the contract computes.
LEMMA SameAccrual ==
    ASSUME NEW s, NEW at
    PROVE  /\ Direct!stream_time(s, at) = stream_time(s, at)
           /\ Direct!duration(s) = duration(s)
           /\ Direct!vested(s, at) = vested(s, at)
           /\ Direct!vested_overflows(s, at) <=> vested_overflows(s, at)
           /\ Direct!withdrawable(s, at) = withdrawable(s, at)
           /\ Direct!refundable(s, at) = refundable(s, at)
           /\ Direct!is_terminal(s) <=> is_terminal(s)
           /\ Direct!is_settled(s) <=> is_settled(s)
           /\ \A x, y : Direct!saturating_sub(x, y) = saturating_sub(x, y)
<1>1. \A x, y : Direct!saturating_sub(x, y) = saturating_sub(x, y)
  BY DEF saturating_sub, Direct!saturating_sub
<1>2. Direct!stream_time(s, at) = stream_time(s, at) /\ Direct!duration(s) = duration(s)
  BY <1>1 DEF stream_time, Direct!stream_time, duration, Direct!duration
<1>3. Direct!elapsed(s, at) = elapsed(s, at)
  BY <1>1, <1>2 DEF elapsed, Direct!elapsed
<1>4. /\ Direct!cliff_reached(s, at) <=> cliff_reached(s, at)
      /\ Direct!consumed(s, at) <=> consumed(s, at)
  BY <1>2, <1>3 DEF cliff_reached, Direct!cliff_reached, consumed, Direct!consumed
<1>5. Direct!vested(s, at) = vested(s, at)
  BY <1>2, <1>3, <1>4 DEF vested, Direct!vested
<1>6. Direct!vested_overflows(s, at) <=> vested_overflows(s, at)
  BY <1>3, <1>4 DEF vested_overflows, Direct!vested_overflows
<1>7. /\ Direct!withdrawable(s, at) = withdrawable(s, at)
      /\ Direct!refundable(s, at) = refundable(s, at)
  BY <1>1, <1>5 DEF withdrawable, Direct!withdrawable, refundable, Direct!refundable
<1> QED
  BY <1>1, <1>2, <1>5, <1>6, <1>7
     DEF is_terminal, Direct!is_terminal, is_settled, Direct!is_settled

\* So do its guards and the records it saves.
LEMMA SameLifecycle ==
    ASSUME NEW s, NEW at
    PROVE  /\ \A amount : /\ Direct!topped_up(s, amount) = topped_up(s, amount)
                          /\ Direct!may_top_up(s, amount, at) <=> may_top_up(s, amount, at)
                          /\ Direct!after_withdrawal(s, amount, at) = after_withdrawal(s, amount, at)
           /\ \A request : /\ Direct!payout(s, request, at) = payout(s, request, at)
                           /\ Direct!may_withdraw(s, request, at) <=> may_withdraw(s, request, at)
           /\ Direct!may_cancel(s, at) <=> may_cancel(s, at)
           /\ Direct!cancelled(s, at) = cancelled(s, at)
           /\ Direct!may_pause(s) <=> may_pause(s)
           /\ Direct!paused(s, at) = paused(s, at)
           /\ Direct!may_resume(s, at) <=> may_resume(s, at)
           /\ Direct!resumed(s, at) = resumed(s, at)
           /\ \A a : /\ Direct!may_transfer(s, a) <=> may_transfer(s, a)
                     /\ Direct!transferred(s, a) = transferred(s, a)
<1>1. ASSUME NEW amount
      PROVE  /\ Direct!topped_up(s, amount) = topped_up(s, amount)
             /\ Direct!top_up_delta(s, amount) = top_up_delta(s, amount)
             /\ Direct!after_withdrawal(s, amount, at) = after_withdrawal(s, amount, at)
  BY SameAccrual DEF topped_up, Direct!topped_up, top_up_delta, Direct!top_up_delta,
                     after_withdrawal, Direct!after_withdrawal
<1>2. ASSUME NEW amount
      PROVE  Direct!may_top_up(s, amount, at) <=> may_top_up(s, amount, at)
  <2>1. Direct!duration(topped_up(s, amount)) = duration(topped_up(s, amount))
    BY SameAccrual
  <2> QED BY <1>1, <2>1, SameAccrual DEF may_top_up, Direct!may_top_up
<1>3. ASSUME NEW request
      PROVE  /\ Direct!payout(s, request, at) = payout(s, request, at)
             /\ Direct!may_withdraw(s, request, at) <=> may_withdraw(s, request, at)
  <2>1. Direct!payout(s, request, at) = payout(s, request, at)
    BY SameAccrual DEF payout, Direct!payout
  <2> QED BY <1>1, <2>1, SameAccrual DEF may_withdraw, Direct!may_withdraw
<1>4. /\ Direct!may_cancel(s, at) <=> may_cancel(s, at)
      /\ Direct!cancelled(s, at) = cancelled(s, at)
  <2>1. Direct!settle_at(s, at) = settle_at(s, at)
    BY SameAccrual DEF settle_at, Direct!settle_at
  <2> QED BY <2>1, SameAccrual DEF may_cancel, Direct!may_cancel, cancelled, Direct!cancelled
<1>5. /\ Direct!may_pause(s) <=> may_pause(s)
      /\ Direct!paused(s, at) = paused(s, at)
      /\ Direct!may_resume(s, at) <=> may_resume(s, at)
      /\ Direct!resumed(s, at) = resumed(s, at)
  BY SameAccrual DEF may_pause, Direct!may_pause, paused, Direct!paused,
                     may_resume, Direct!may_resume, resumed, Direct!resumed
<1>6. ASSUME NEW a
      PROVE  /\ Direct!may_transfer(s, a) <=> may_transfer(s, a)
             /\ Direct!transferred(s, a) = transferred(s, a)
  BY SameAccrual DEF may_transfer, Direct!may_transfer, transferred, Direct!transferred
<1> QED
  BY <1>1, <1>2, <1>3, <1>4, <1>5, <1>6

\* A call of a party is one of the contract without delegation.
LEMMA PartyIsDirect ==
    ASSUME NEW id \in DOMAIN streams, StreamCall(id)
    PROVE  Direct!StreamCall(id)
<1> USE SameLifecycle DEF save_stream, Direct!save_stream, token_transfer, Direct!token_transfer,
                          NoGrants
<1>1. ASSUME NEW amount \in Amounts, top_up(id, amount) PROVE Direct!top_up(id, amount)
  BY <1>1 DEF top_up, Direct!top_up
<1>2. ASSUME NEW request \in Amounts \cup {None}, withdraw(id, request)
      PROVE  Direct!withdraw(id, request)
  BY <1>2 DEF withdraw, Direct!withdraw
<1>3. cancel(id) => Direct!cancel(id)
  BY SameAccrual DEF cancel, Direct!cancel
<1>4. pause(id) => Direct!pause(id)
  BY DEF pause, Direct!pause
<1>5. resume(id) => Direct!resume(id)
  BY DEF resume, Direct!resume
<1>6. ASSUME NEW a \in Addresses, transfer_recipient(id, a) PROVE Direct!transfer_recipient(id, a)
  BY <1>6 DEF transfer_recipient, Direct!transfer_recipient
<1> QED
  BY <1>1, <1>2, <1>3, <1>4, <1>5, <1>6 DEF StreamCall, Direct!StreamCall

\* So is a call of a delegate, but for those that only change the grants.  The
\* delegate's pause skips the look at paused_at: the invariant makes up for it.
LEMMA DelegateIsDirect ==
    ASSUME TypeOK, IInv, NEW id \in DOMAIN streams, NEW d \in Delegates, DelegateCall(id, d)
    PROVE  Direct!StreamCall(id) \/ UNCHANGED <<now, next_stream_id, streams, balance>>
<1> USE SameLifecycle DEF save_stream, Direct!save_stream, token_transfer, Direct!token_transfer,
                          NoGrants, Direct!StreamCall
<1>1. ASSUME NEW amount \in Amounts, delegate_top_up(id, d, amount) PROVE Direct!StreamCall(id)
  <2>1. Direct!top_up(id, amount)
    BY <1>1 DEF delegate_top_up, Direct!top_up
  <2> QED BY <2>1
<1>2. ASSUME NEW request \in Amounts \cup {None}, delegate_withdraw(id, d, request)
      PROVE  Direct!StreamCall(id)
  <2>1. Direct!withdraw(id, request)
    BY <1>2 DEF delegate_withdraw, Direct!withdraw
  <2> QED BY <2>1
<1>3. CASE delegate_cancel(id, d)
  <2>1. Direct!cancel(id)
    BY <1>3, SameAccrual DEF delegate_cancel, Direct!cancel
  <2> QED BY <2>1
<1>4. CASE delegate_pause(id, d)
  <2>1. streams[id].paused_at = None
    BY <1>4 DEF delegate_pause, may_delegate_pause, IInv, StreamInv
  <2>2. Direct!pause(id)
    BY <1>4, <2>1 DEF delegate_pause, may_delegate_pause, may_pause, Direct!pause
  <2> QED BY <2>2
<1>5. CASE delegate_resume(id, d)
  <2>1. Direct!resume(id)
    BY <1>5 DEF delegate_resume, Direct!resume
  <2> QED BY <2>1
<1>6. ASSUME NEW a \in Addresses, delegate_transfer_recipient(id, d, a)
      PROVE  Direct!StreamCall(id)
  <2>1. Direct!transfer_recipient(id, a)
    BY <1>6 DEF delegate_transfer_recipient, Direct!transfer_recipient
  <2> QED BY <2>1
<1>7. ASSUME NEW ops \in GrantOps, NEW t \in Expiries, grant_delegate(id, d, ops, t)
      PROVE  UNCHANGED <<now, next_stream_id, streams, balance>>
  BY <1>7 DEF grant_delegate
<1>8. revoke_delegate(id, d) => UNCHANGED <<now, next_stream_id, streams, balance>>
  BY DEF revoke_delegate
<1> QED
  BY <1>1, <1>2, <1>3, <1>4, <1>5, <1>6, <1>7, <1>8 DEF DelegateCall

\* A new stream and a batch.
LEMMA CreateIsDirect ==
    ASSUME Create
    PROVE  Direct!Create
<1>1. PICK sender \in Addresses, recipient \in Addresses, token \in Tokens, o \in Offers :
          create_stream(sender, recipient, token, o)
  BY DEF Create
<1>2. Direct!create_stream(sender, recipient, token, o)
  BY <1>1 DEF create_stream, Direct!create_stream, may_create, Direct!may_create,
              created, Direct!created, token_transfer, Direct!token_transfer, NoGrants
<1> QED
  BY <1>2 DEF Direct!Create

\* The size of a batch and what it pays are what they are.
LEMMA SameBatch ==
    ASSUME NEW ids
    PROVE  /\ Direct!is_batch(ids) <=> is_batch(ids)
           /\ Direct!batch_payout(ids) = batch_payout(ids)
           /\ \A tok : Direct!batch_total(ids, tok) = batch_total(ids, tok)
<1>1. Direct!Cardinality(ids) = Cardinality(ids)
  BY DEF Cardinality, Direct!Cardinality
<1>2. Direct!payouts(ids) = payouts(ids)
  BY SameAccrual DEF payouts, Direct!payouts
<1>3. \A f, S : Direct!SumFunctionOnSet(f, S) = SumFunctionOnSet(f, S)
  BY DEF SumFunctionOnSet, Direct!SumFunctionOnSet, FoldFunctionOnSet, Direct!FoldFunctionOnSet,
         MapThenFoldSet, Direct!MapThenFoldSet
<1> QED
  BY <1>1, <1>2, <1>3 DEF is_batch, Direct!is_batch, batch_payout, Direct!batch_payout,
                          batch_total, Direct!batch_total

\* The batches, which name the streams they touch.
LEMMA BatchIsDirect ==
    ASSUME BatchCall
    PROVE  Direct!BatchCall
<1>1. ASSUME NEW ids \in SUBSET DOMAIN streams, NEW a \in Addresses, batch_withdraw(a, ids)
      PROVE  Direct!batch_withdraw(a, ids)
  <2>1. \A id \in DOMAIN streams :
           /\ Direct!withdrawable(streams[id], now) = withdrawable(streams[id], now)
           /\ Direct!vested_overflows(streams[id], now) <=> vested_overflows(streams[id], now)
           /\ \A amount : Direct!after_withdrawal(streams[id], amount, now)
                             = after_withdrawal(streams[id], amount, now)
    BY SameAccrual, SameLifecycle
  <2>2. /\ is_batch(ids) => Direct!is_batch(ids)
        /\ Direct!batch_payout(ids) = batch_payout(ids)
        /\ \A tok : Direct!batch_total(ids, tok) = batch_total(ids, tok)
    BY SameBatch
  <2> QED BY <1>1, <2>1, <2>2 DEF batch_withdraw, Direct!batch_withdraw, NoGrants
<1>2. ASSUME NEW ids \in SUBSET DOMAIN streams, NEW a \in Addresses,
             batch_transfer_recipient(ids, a)
      PROVE  Direct!batch_transfer_recipient(ids, a)
  BY <1>2, SameBatch, SameLifecycle
     DEF batch_transfer_recipient, Direct!batch_transfer_recipient, NoGrants
<1> QED
  BY <1>1, <1>2 DEF BatchCall, Direct!BatchCall

\* Every step a delegate takes is one that the contract without delegation lets
\* a party take: a delegate has no power over streams or tokens of its own.
THEOREM DelegationNeverAdds == Spec => DelegationAddsNothing
<1>1. Init => Direct!Init
  BY DEF Init, Direct!Init, NoGrants, Accounts, Direct!Accounts
<1>2. TypeOK /\ IInv /\ [Next]_vars => [Direct!Next]_(Direct!vars)
  <2> SUFFICES ASSUME TypeOK, IInv, [Next]_vars
               PROVE  Direct!Next \/ UNCHANGED <<now, next_stream_id, streams, balance>>
    BY DEF Direct!vars, NoGrants
  <2>1. CASE UNCHANGED vars
    BY <2>1 DEF vars
  <2>2. CASE Tick
    BY <2>2 DEF Tick, Direct!Tick, Direct!Next, NoGrants
  <2>3. CASE Create
    BY <2>3, CreateIsDirect DEF Direct!Next
  <2>4. CASE BatchCall
    BY <2>4, BatchIsDirect DEF Direct!Next
  <2>5. CASE \E id \in DOMAIN streams : StreamCall(id)
    BY <2>5, PartyIsDirect DEF Direct!Next
  <2>6. CASE \E id \in DOMAIN streams, d \in Delegates : DelegateCall(id, d)
    BY <2>6, DelegateIsDirect DEF Direct!Next
  <2> QED BY <2>1, <2>2, <2>3, <2>4, <2>5, <2>6 DEF Next
<1> QED
  BY <1>1, <1>2, TypeCorrect, InvariantHolds, PTL DEF Spec, DelegationAddsNothing, Direct!Spec
-----------------------------------------------------------------------------
(* The claims.                                                             *)

\* The claim of the stream s at the instant at.
claim_at(s, at) ==
    [total |-> s.deposited, earned |-> vested(s, at),
     paid |-> s.withdrawn, closed |-> is_terminal(s)]

\* What a call may make of a claim.
Funded(c, d) ==
    /\ ~c.closed /\ c.earned < c.total /\ d.total > c.total
    /\ d.earned \in c.earned .. d.total
    /\ d = [c EXCEPT !.total = d.total, !.earned = d.earned]
Collected(c, d) ==
    /\ d.paid \in c.paid + 1 .. c.earned
    /\ d = [c EXCEPT !.paid = d.paid, !.closed = @ \/ d.paid = c.total]
Settled(c, d) ==
    /\ ~c.closed
    /\ d = [c EXCEPT !.total = c.earned, !.closed = TRUE]

\* A stored stream stands for a claim.
LEMMA ClaimTyped ==
    ASSUME NEW s \in StreamRecord, NEW at \in Nat
    PROVE  /\ claim_at(s, at) \in Claims!Claim
           /\ claim_at(s, at).earned <= claim_at(s, at).total
BY StoredStream, VestedBounds DEF claim_at, Claims!Claim, Schedule, is_terminal

\* What a claim says of its stream.
LEMMA ClaimFields ==
    ASSUME NEW s, NEW at
    PROVE  /\ claim_at(s, at).total = s.deposited /\ claim_at(s, at).earned = vested(s, at)
           /\ claim_at(s, at).paid = s.withdrawn
           /\ claim_at(s, at).closed <=> is_terminal(s)
BY DEF claim_at

\* Two claims, field by field.
LEMMA ClaimMoves ==
    ASSUME NEW c \in Claims!Claim, NEW d \in Claims!Claim
    PROVE  /\ /\ ~c.closed /\ ~d.closed /\ c.earned < c.total /\ d.total > c.total
              /\ d.earned \in c.earned .. d.total /\ d.paid = c.paid
              => Funded(c, d)
           /\ /\ d.total = c.total /\ d.earned = c.earned /\ d.paid \in c.paid + 1 .. c.earned
              /\ d.closed <=> (c.closed \/ d.paid = c.total)
              => Collected(c, d)
           /\ /\ ~c.closed /\ d.closed /\ d.total = c.earned
              /\ d.earned = c.earned /\ d.paid = c.paid
              => Settled(c, d)
<1>1. /\ c.closed \in BOOLEAN /\ d.closed \in BOOLEAN
      /\ c = [total |-> c.total, earned |-> c.earned, paid |-> c.paid, closed |-> c.closed]
      /\ d = [total |-> d.total, earned |-> d.earned, paid |-> d.paid, closed |-> d.closed]
  BY DEF Claims!Claim
<1>2. ASSUME ~c.closed, ~d.closed, d.paid = c.paid
      PROVE  d = [c EXCEPT !.total = d.total, !.earned = d.earned]
  BY <1>1, <1>2
<1>3. ASSUME d.total = c.total, d.earned = c.earned, d.closed <=> (c.closed \/ d.paid = c.total)
      PROVE  d = [c EXCEPT !.paid = d.paid, !.closed = @ \/ d.paid = c.total]
  <2>1. d.closed = (c.closed \/ d.paid = c.total)
    BY <1>1, <1>3
  <2> QED BY <1>1, <1>3, <2>1
<1>4. ASSUME d.closed, d.total = c.earned, d.earned = c.earned, d.paid = c.paid
      PROVE  d = [c EXCEPT !.total = c.earned, !.closed = TRUE]
  BY <1>1, <1>4
<1> QED
  BY <1>2, <1>3, <1>4 DEF Funded, Collected, Settled

\* What has not matured is not earned in full.
LEMMA UnearnedBeforeEnd ==
    ASSUME NEW s \in StreamRecord, NEW at \in Nat,
           s.start_time < s.end_time, 0 < s.deposited, stream_time(s, at) < s.end_time
    PROVE  vested(s, at) < s.deposited
<1> DEFINE D == s.deposited
           e == elapsed(s, at)
           d == duration(s)
<1>1. D \in Nat /\ e \in Nat /\ d \in Nat /\ Schedule(s) /\ stream_time(s, at) \in Nat
  BY StoredStream, ClockTypes DEF Schedule
<1>2. e < d /\ D > 0
  BY <1>1 DEF elapsed, duration, saturating_sub, Schedule
<1>3. CASE ~cliff_reached(s, at)
  BY <1>2, <1>3 DEF vested
<1>4. CASE cliff_reached(s, at)
  <2>1. vested(s, at) = (D * e) \div d
    BY <1>1, <1>2, <1>4 DEF vested, consumed
  <2> HIDE DEF D, e, d
  <2>2. D * e < D * d /\ D * e \in Nat
    <3>1. (e + 1) * D <= d * D
      BY <1>1, <1>2, ProductGrows
    <3>2. (e + 1) * D = D * e + D /\ d * D = D * d /\ D * e \in Nat
      BY <1>1
    <3> QED BY <1>1, <1>2, <3>1, <3>2
  <2> DEFINE n == D * e
  <2>3. n \in Nat /\ d > 0
    BY <1>1, <1>2, <2>2
  <2> HIDE DEF n
  <2>4. PICK q \in Nat : q = n \div d /\ d * q <= n
    BY <1>1, <2>3, QuotientExists
  <2>5. SUFFICES ASSUME D <= q PROVE FALSE
    BY <1>1, <2>1, <2>4 DEF n, D
  <2>6. D * d <= q * d /\ q * d = d * q
    BY <1>1, <2>4, <2>5, ProductGrows
  <2> QED BY <1>1, <2>2, <2>4, <2>6 DEF n
<1> QED
  BY <1>3, <1>4

\* What each call makes of the claim.
LEMMA TopUpFunds ==
    ASSUME NEW s \in StreamRecord, NEW at \in Nat, StreamInv(s, at),
           NEW amount \in Nat, may_top_up(s, amount, at), topped_up(s, amount) \in StreamRecord
    PROVE  Funded(claim_at(s, at), claim_at(topped_up(s, amount), at))
<1> DEFINE t == topped_up(s, amount)
<1>1. /\ vested(s, at) <= vested(t, at) /\ t.deposited > s.deposited
      /\ t = [s EXCEPT !.deposited = t.deposited, !.end_time = t.end_time]
      /\ ~is_terminal(s)
  BY TopUpStep
<1>2. t.withdrawn = s.withdrawn /\ t.status = s.status
  BY <1>1 DEF StreamRecord
<1>3. vested(s, at) \in Nat /\ vested(t, at) \in Nat /\ vested(t, at) <= t.deposited
      /\ s.deposited \in Nat /\ t.deposited \in Nat
  BY StoredStream, VestedBounds DEF Schedule
<1>4. vested(s, at) < s.deposited
  <2>1. s.start_time < s.end_time /\ s.withdrawn < s.deposited /\ s.withdrawn \in Nat
    BY <1>1, StoredStream DEF StreamInv, Schedule
  <2> QED BY <1>3, <2>1, UnearnedBeforeEnd DEF may_top_up
<1>5. ~is_terminal(t)
  BY <1>1, <1>2 DEF is_terminal
<1> DEFINE c == claim_at(s, at)
           d == claim_at(t, at)
<1>6. c \in Claims!Claim /\ d \in Claims!Claim
  BY ClaimTyped
<1>7. /\ ~c.closed /\ ~d.closed /\ c.earned < c.total /\ d.total > c.total
      /\ d.earned \in c.earned .. d.total /\ d.paid = c.paid
  <2> HIDE DEF t
  <2> QED BY <1>1, <1>2, <1>3, <1>4, <1>5, ClaimFields
<1> HIDE DEF t, c, d
<1>8. Funded(c, d)
  BY <1>6, <1>7, ClaimMoves
<1> QED
  BY <1>8 DEF c, d, t

\* A withdrawal collects: by withdraw, by its delegate, and for each stream of a
\* batch.
LEMMA DrawCollects ==
    ASSUME NEW s \in StreamRecord, NEW at \in 0 .. U64Max, StreamInv(s, at),
           NEW amount \in Nat, 0 < amount, amount <= withdrawable(s, at),
           after_withdrawal(s, amount, at).paused_total <= U64Max
    PROVE  Collected(claim_at(s, at), claim_at(after_withdrawal(s, amount, at), at))
<1> DEFINE t == after_withdrawal(s, amount, at)
<1>1. /\ t.withdrawn = s.withdrawn + amount /\ t.withdrawn <= vested(s, at)
      /\ vested(s, at) <= s.deposited /\ t \in StreamRecord
  BY WithdrawalEffect
<1>2. /\ t.deposited = s.deposited
      /\ t.status = IF s.withdrawn + amount >= s.deposited /\ s.status # "Cancelled"
                    THEN "Depleted" ELSE s.status
  BY DEF after_withdrawal, StreamRecord
<1>3. vested(t, at) = vested(s, at)
  BY DrawStep
<1>4. s.withdrawn \in Nat /\ s.deposited \in Nat /\ vested(s, at) \in Nat
  BY StoredStream, VestedBounds, AccrualAssumption DEF Schedule
<1> HIDE DEF t
<1>5. t.withdrawn \in s.withdrawn + 1 .. vested(s, at)
  BY <1>1, <1>4
<1>6. s.status = "Depleted" => s.withdrawn = s.deposited
  BY DEF StreamInv
<1>7. is_terminal(t) <=> (is_terminal(s) \/ t.withdrawn = s.deposited)
  BY <1>1, <1>2, <1>4, <1>6 DEF is_terminal
<1> DEFINE c == claim_at(s, at)
           d == claim_at(t, at)
<1>8. c \in Claims!Claim /\ d \in Claims!Claim
  BY <1>1, ClaimTyped, AccrualAssumption
<1>9. /\ d.total = c.total /\ d.earned = c.earned /\ d.paid \in c.paid + 1 .. c.earned
      /\ d.closed <=> (c.closed \/ d.paid = c.total)
  BY <1>2, <1>3, <1>5, <1>7, ClaimFields
<1> HIDE DEF c, d
<1>10. Collected(c, d)
  BY <1>8, <1>9, ClaimMoves
<1> QED
  BY <1>10 DEF c, d, t

\* A cancelled stream closes its claim on what is earned.
LEMMA CancelSettlesClaim ==
    ASSUME NEW s \in StreamRecord, NEW at \in Nat, StreamInv(s, at), may_cancel(s, at),
           cancelled(s, at) \in StreamRecord
    PROVE  Settled(claim_at(s, at), claim_at(cancelled(s, at), at))
<1> DEFINE t == cancelled(s, at)
<1>1. /\ vested(t, at) = vested(s, at) /\ t.deposited = vested(s, at)
      /\ t = [s EXCEPT !.deposited = t.deposited, !.end_time = t.end_time,
                       !.paused_at = None, !.status = "Cancelled"]
  BY CancelStep
<1>2. t.withdrawn = s.withdrawn /\ t.status = "Cancelled"
  BY <1>1 DEF StreamRecord
<1>3. ~is_terminal(s) /\ is_terminal(t)
  BY <1>2 DEF may_cancel, is_terminal
<1> HIDE DEF t
<1> DEFINE c == claim_at(s, at)
           d == claim_at(t, at)
<1>4. c \in Claims!Claim /\ d \in Claims!Claim
  BY ClaimTyped DEF t
<1>5. /\ ~c.closed /\ d.closed /\ d.total = c.earned
      /\ d.earned = c.earned /\ d.paid = c.paid
  BY <1>1, <1>2, <1>3, ClaimFields
<1> HIDE DEF c, d
<1>6. Settled(c, d)
  BY <1>4, <1>5, ClaimMoves
<1> QED
  BY <1>6 DEF c, d, t

\* A call funds, collects or settles the claim of a stream, or leaves it alone.
LEMMA CallOfClaim ==
    ASSUME NEW s \in StreamRecord, NEW at \in 0 .. U64Max, StreamInv(s, at),
           NEW t, stream_step(s, t, at)
    PROVE  LET c == claim_at(s, at)
               d == claim_at(t, at)
           IN  d = c \/ Funded(c, d) \/ Collected(c, d) \/ Settled(c, d)
<1> DEFINE c == claim_at(s, at)
           d == claim_at(t, at)
<1>1. at \in Nat /\ t \in StreamRecord
  BY StepTyped, AccrualAssumption
<1>2. ASSUME NEW amount \in Nat, may_top_up(s, amount, at), t = topped_up(s, amount)
      PROVE  Funded(c, d)
  BY <1>1, <1>2, TopUpFunds
<1>3. ASSUME NEW amount \in Nat, 0 < amount, amount <= withdrawable(s, at),
             t = after_withdrawal(s, amount, at), t.paused_total <= U64Max
      PROVE  Collected(c, d)
  BY <1>1, <1>3, DrawCollects
<1>4. CASE may_cancel(s, at) /\ t = cancelled(s, at)
  BY <1>1, <1>4, CancelSettlesClaim
<1>5. CASE may_delegate_pause(s) /\ t = paused(s, at)
  <2>1. vested(t, at) = vested(s, at)
    BY <1>5, PauseStep
  <2>2. t.deposited = s.deposited /\ t.withdrawn = s.withdrawn /\ t.status = "Paused"
    BY <1>5 DEF paused, StreamRecord
  <2> QED BY <1>5, <2>1, <2>2 DEF claim_at, may_delegate_pause, is_terminal
<1>6. CASE may_resume(s, at) /\ t = resumed(s, at)
  <2>1. vested(t, at) = vested(s, at)
    BY <1>6, ResumeStep
  <2>2. t.deposited = s.deposited /\ t.withdrawn = s.withdrawn /\ t.status = "Active"
    BY <1>6 DEF resumed, StreamRecord
  <2> QED BY <1>6, <2>1, <2>2 DEF claim_at, may_resume, is_terminal
<1>7. ASSUME NEW a \in Addresses, t = transferred(s, a)
      PROVE  d = c
  <2>1. vested(t, at) = vested(s, at)
    BY <1>1, <1>7, TransferStep
  <2>2. t.deposited = s.deposited /\ t.withdrawn = s.withdrawn /\ t.status = s.status
    BY <1>7 DEF transferred, StreamRecord
  <2> QED BY <2>1, <2>2 DEF claim_at, is_terminal
<1> HIDE DEF c, d
<1>8. t = s => d = c
  BY DEF c, d
<1> QED
  BY <1>2, <1>3, <1>4, <1>5, <1>6, <1>7, <1>8 DEF stream_step, c, d

-----------------------------------------------------------------------------
(* The steps of the escrow.                                                *)

\* The claims before and after a step.
LEMMA ClaimsShape ==
    /\ claims_now = [id \in DOMAIN streams |-> claim_at(streams[id], now)]
    /\ claims_now' = [id \in DOMAIN streams' |-> claim_at(streams'[id], now')]
BY DEF claims_now, claim_of, claim_at

\* They are claims.
LEMMA ClaimsTyped ==
    ASSUME TypeOK, TypeOK'
    PROVE  /\ \A id \in DOMAIN streams : claims_now[id] \in Claims!Claim
           /\ claims_now' \in [DOMAIN streams' -> Claims!Claim]
           /\ \A id \in DOMAIN streams' : claims_now'[id].earned <= claims_now'[id].total
<1>1. /\ now \in Nat /\ \A id \in DOMAIN streams : streams[id] \in StreamRecord
      /\ now' \in Nat /\ \A id \in DOMAIN streams' : streams'[id] \in StreamRecord
  <2>1. now \in Nat /\ now' \in Nat
    BY AccrualAssumption DEF TypeOK
  <2> QED BY <2>1 DEF TypeOK
<1> QED
  BY <1>1, ClaimsShape, ClaimTyped

\* A call on one stream changes no other.
LEMMA CallTouchesOne ==
    ASSUME NEW id \in DOMAIN streams,
           StreamCall(id) \/ \E d \in Delegates : DelegateCall(id, d)
    PROVE  \A j \in DOMAIN streams \ {id} : streams'[j] = streams[j]
<1>1. CASE StreamCall(id)
  BY <1>1 DEF StreamCall, top_up, withdraw, cancel, pause, resume, transfer_recipient, save_stream
<1>2. ASSUME NEW d \in Delegates, DelegateCall(id, d)
      PROVE  \A j \in DOMAIN streams \ {id} : streams'[j] = streams[j]
  BY <1>2 DEF DelegateCall, grant_delegate, revoke_delegate, delegate_withdraw, delegate_cancel,
              delegate_pause, delegate_resume, delegate_top_up, delegate_transfer_recipient,
              save_stream
<1> QED
  BY <1>1, <1>2

\* One claim changes as a call may change it, the others stay.
LEMMA OneClaimStep ==
    ASSUME NEW C, NEW D, NEW id \in DOMAIN C,
           C = [i \in DOMAIN C |-> C[i]], \A i \in DOMAIN C : C[i] \in Claims!Claim,
           D \in [DOMAIN C -> Claims!Claim],
           \A i \in DOMAIN C \ {id} : D[i] = C[i]
    PROVE  /\ Funded(C[id], D[id]) =>
                  D = [C EXCEPT ![id].total = D[id].total, ![id].earned = D[id].earned]
           /\ Settled(C[id], D[id]) =>
                  D = [C EXCEPT ![id].total = C[id].earned, ![id].closed = TRUE]
<1>1. D = [C EXCEPT ![id] = D[id]]
  OBVIOUS
<1>2. Funded(C[id], D[id]) =>
         D = [C EXCEPT ![id].total = D[id].total, ![id].earned = D[id].earned]
  <2>1. ASSUME D[id] = [C[id] EXCEPT !.total = D[id].total, !.earned = D[id].earned]
        PROVE  D = [C EXCEPT ![id].total = D[id].total, ![id].earned = D[id].earned]
    BY <1>1, <2>1 DEF Claims!Claim
  <2> QED BY <2>1 DEF Funded
<1>3. Settled(C[id], D[id]) =>
         D = [C EXCEPT ![id].total = C[id].earned, ![id].closed = TRUE]
  <2>1. ASSUME D[id] = [C[id] EXCEPT !.total = C[id].earned, !.closed = TRUE]
        PROVE  D = [C EXCEPT ![id].total = C[id].earned, ![id].closed = TRUE]
    BY <1>1, <2>1 DEF Claims!Claim
  <2> QED BY <2>1 DEF Settled
<1> QED
  BY <1>2, <1>3

\* A call that may change one stream is a step of the escrow, or none.
LEMMA CallImplements ==
    ASSUME TypeOK, TypeOK', IInv, NEW id \in DOMAIN streams, Called,
           \A j \in DOMAIN streams \ {id} : streams'[j] = streams[j]
    PROVE  Claims!EscrowNext \/ UNCHANGED claims_now
<1>0. PICK C, D : C = claims_now /\ D = claims_now'
  OBVIOUS
<1>1. DOMAIN streams' = DOMAIN streams /\ now' = now /\ now \in 0 .. U64Max
  BY DEF Called, TypeOK
<1>2. /\ C = [i \in DOMAIN C |-> C[i]] /\ DOMAIN C = DOMAIN streams
      /\ \A i \in DOMAIN C : C[i] \in Claims!Claim
      /\ D \in [DOMAIN C -> Claims!Claim]
      /\ \A i \in DOMAIN C \ {id} : D[i] = C[i]
  BY <1>0, <1>1, ClaimsShape, ClaimsTyped
<1>3. D[id] = C[id] \/ Funded(C[id], D[id]) \/ Collected(C[id], D[id]) \/ Settled(C[id], D[id])
  <2>1. streams[id] \in StreamRecord /\ StreamInv(streams[id], now)
        /\ stream_step(streams[id], streams'[id], now)
    BY TypedStream DEF IInv, Called
  <2>2. C[id] = claim_at(streams[id], now) /\ D[id] = claim_at(streams'[id], now)
    BY <1>0, <1>1, ClaimsShape
  <2> QED BY <1>1, <2>1, <2>2, CallOfClaim
<1>4. CASE D[id] = C[id]
  <2>1. \A i \in DOMAIN C : D[i] = C[i]
    BY <1>2, <1>4
  <2>2. D = C
    BY <1>2, <2>1
  <2> QED BY <1>0, <2>2
<1>5. CASE Funded(C[id], D[id])
  <2>1. D = [C EXCEPT ![id].total = D[id].total, ![id].earned = D[id].earned]
    BY <1>2, <1>5, OneClaimStep
  <2>2. Claims!Fund(id)
    BY <1>0, <1>2, <1>5, <2>1 DEF Claims!Fund, Funded
  <2>3. id \in DOMAIN claims_now
    BY <1>0, <1>2
  <2> QED BY <2>2, <2>3 DEF Claims!EscrowNext
<1>6. CASE Collected(C[id], D[id])
  <2>1. \A i \in DOMAIN C :
           IF i \in {id}
           THEN /\ D[i].paid \in C[i].paid + 1 .. C[i].earned
                /\ D[i] = [C[i] EXCEPT !.paid = D[i].paid,
                                       !.closed = @ \/ D[i].paid = C[i].total]
           ELSE D[i] = C[i]
    BY <1>2, <1>6 DEF Collected
  <2>2. Claims!Collect({id})
    BY <1>0, <1>2, <2>1 DEF Claims!Collect
  <2>3. {id} \in SUBSET DOMAIN claims_now
    BY <1>0, <1>2
  <2> QED BY <2>2, <2>3 DEF Claims!EscrowNext
<1>7. CASE Settled(C[id], D[id])
  <2>1. D = [C EXCEPT ![id].total = C[id].earned, ![id].closed = TRUE]
    BY <1>2, <1>7, OneClaimStep
  <2>2. Claims!Close(id)
    BY <1>0, <1>7, <2>1 DEF Claims!Close, Settled
  <2>3. id \in DOMAIN claims_now
    BY <1>0, <1>2
  <2> QED BY <2>2, <2>3 DEF Claims!EscrowNext
<1> QED
  BY <1>3, <1>4, <1>5, <1>6, <1>7
\* A batch collects from those of its streams that have something to draw, or
\* changes recipients, which the claims do not show.
LEMMA BatchImplements ==
    ASSUME TypeOK, TypeOK', IInv, BatchCall
    PROVE  Claims!EscrowNext \/ UNCHANGED claims_now
<1>0. PICK C, D : C = claims_now /\ D = claims_now'
  OBVIOUS
<1>1. PICK ids \in SUBSET DOMAIN streams, a \in Addresses :
          batch_withdraw(a, ids) \/ batch_transfer_recipient(ids, a)
  BY DEF BatchCall
<1>2. DOMAIN streams' = DOMAIN streams /\ now' = now /\ now \in 0 .. U64Max /\ now \in Nat
  BY <1>1, AccrualAssumption DEF batch_withdraw, batch_transfer_recipient, TypeOK
<1>3. /\ C = [i \in DOMAIN C |-> C[i]] /\ DOMAIN C = DOMAIN streams
      /\ \A i \in DOMAIN C : C[i] \in Claims!Claim
      /\ D \in [DOMAIN C -> Claims!Claim]
      /\ \A i \in DOMAIN C : /\ C[i] = claim_at(streams[i], now)
                             /\ D[i] = claim_at(streams'[i], now)
  BY <1>0, <1>2, ClaimsShape, ClaimsTyped
<1>4. CASE batch_transfer_recipient(ids, a)
  <2>1. ASSUME NEW i \in DOMAIN C PROVE D[i] = C[i]
    <3> DEFINE s == streams[i]
    <3>1. s \in StreamRecord /\ StreamInv(s, now)
      BY <1>3, TypedStream DEF IInv
    <3>2. CASE streams'[i] = s
      BY <1>3, <3>2
    <3>3. CASE streams'[i] = transferred(s, a)
      <4>1. vested(transferred(s, a), now) = vested(s, now)
        BY <1>2, <3>1, TransferStep
      <4>2. /\ transferred(s, a).deposited = s.deposited
            /\ transferred(s, a).withdrawn = s.withdrawn
            /\ transferred(s, a).status = s.status
        BY <3>1 DEF transferred, StreamRecord
      <4>3. claim_at(transferred(s, a), now) = claim_at(s, now)
        BY <4>1, <4>2 DEF claim_at, is_terminal
      <4> QED BY <1>3, <3>3, <4>3
    <3>4. streams'[i] = s \/ streams'[i] = transferred(s, a)
      BY <1>3, <1>4 DEF batch_transfer_recipient
    <3> QED BY <3>2, <3>3, <3>4
  <2>2. D = C
    BY <1>3, <2>1
  <2> QED BY <1>0, <2>2
<1>5. CASE batch_withdraw(a, ids)
  <2> DEFINE paid == {i \in ids : withdrawable(streams[i], now) > 0}
  <2>1. ASSUME NEW i \in DOMAIN C
        PROVE  IF i \in paid THEN Collected(C[i], D[i]) ELSE D[i] = C[i]
    <3> DEFINE s == streams[i]
               amount == withdrawable(s, now)
    <3>1. s \in StreamRecord /\ StreamInv(s, now) /\ amount \in Nat
      BY <1>3, TypedStream, VestedBounds DEF IInv, withdrawable, saturating_sub, Schedule
    <3>2. streams'[i] = IF i \in paid THEN after_withdrawal(s, amount, now) ELSE s
      BY <1>3, <1>5 DEF batch_withdraw
    <3>3. CASE i \notin paid
      BY <1>3, <3>2, <3>3
    <3>4. CASE i \in paid
      <4>1. 0 < amount /\ amount <= amount
        BY <3>1, <3>4
      <4>2. after_withdrawal(s, amount, now).paused_total <= U64Max
        BY <3>4, <1>5 DEF batch_withdraw
      <4>3. Collected(claim_at(s, now), claim_at(after_withdrawal(s, amount, now), now))
        BY <1>2, <3>1, <4>1, <4>2, DrawCollects
      <4> QED BY <1>3, <3>2, <3>4, <4>3
    <3> QED BY <3>3, <3>4
  <2>2. paid \in SUBSET DOMAIN claims_now
    BY <1>0, <1>3
  <2> HIDE DEF paid
  <2>3. Claims!Collect(paid)
    BY <1>0, <1>3, <2>1 DEF Claims!Collect, Collected
  <2> QED BY <2>2, <2>3 DEF Claims!EscrowNext
<1> QED
  BY <1>1, <1>4, <1>5

\* A new stream opens a claim.
LEMMA CreateImplements ==
    ASSUME TypeOK, TypeOK', Create
    PROVE  Claims!EscrowNext
<1>1. PICK sender \in Addresses, recipient \in Addresses, token \in Tokens, o \in Offers :
          create_stream(sender, recipient, token, o)
  BY DEF Create
<1>2. PICK id : id = next_stream_id
  OBVIOUS
<1> DEFINE t == created(o, sender, recipient, token)
<1>3. /\ id \in Ids /\ id \notin DOMAIN streams
      /\ DOMAIN streams' = DOMAIN streams \cup {id} /\ streams'[id] = t
      /\ \A i \in DOMAIN streams : streams'[i] = streams[i]
  BY <1>1, <1>2, StreamAssumption DEF create_stream, TypeOK, Ids
<1>4. now' = now /\ now \in Nat /\ may_create(o)
  BY <1>1, AccrualAssumption DEF create_stream, TypeOK
<1>5. t \in StreamRecord
  BY <1>4, CreatedTyped
<1>6. /\ claim_at(t, now).total > 0 /\ claim_at(t, now).earned <= claim_at(t, now).total
      /\ claim_at(t, now).paid = 0 /\ ~claim_at(t, now).closed
  <2>1. t.deposited > 0 /\ t.withdrawn = 0 /\ ~is_terminal(t)
    BY <1>4 DEF created, may_create, is_terminal
  <2> HIDE DEF t
  <2> QED BY <1>4, <1>5, <2>1, ClaimFields, ClaimTyped
<1> HIDE DEF t
<1>7. PICK C, D : C = claims_now /\ D = claims_now'
  OBVIOUS
<1>8. /\ DOMAIN C = DOMAIN streams /\ D \in [DOMAIN C \cup {id} -> Claims!Claim]
      /\ D[id] = claim_at(t, now)
      /\ \A i \in DOMAIN C : D[i] = C[i]
  BY <1>3, <1>4, <1>7, ClaimsShape, ClaimsTyped
<1>9. Claims!Open(id)
  BY <1>3, <1>6, <1>7, <1>8 DEF Claims!Open
<1> QED
  BY <1>3, <1>9 DEF Claims!EscrowNext

\* The passing of time earns.
LEMMA TickImplements ==
    ASSUME TypeOK, TypeOK', IInv, Tick
    PROVE  Claims!EscrowNext
<1>1. PICK C, D : C = claims_now /\ D = claims_now'
  OBVIOUS
<1>2. streams' = streams /\ now' = now + 1 /\ now \in Nat
  BY AccrualAssumption DEF Tick, TypeOK
<1>3. /\ DOMAIN C = DOMAIN streams /\ D \in [DOMAIN C -> Claims!Claim]
      /\ \A i \in DOMAIN C : /\ C[i] \in Claims!Claim
                             /\ C[i] = claim_at(streams[i], now)
                             /\ D[i] = claim_at(streams[i], now + 1)
  BY <1>1, <1>2, ClaimsShape, ClaimsTyped
<1>4. ASSUME NEW i \in DOMAIN C
      PROVE  /\ D[i].earned \in C[i].earned .. C[i].total
             /\ D[i] = [C[i] EXCEPT !.earned = D[i].earned]
  <2> DEFINE s == streams[i]
  <2>1. /\ s \in StreamRecord /\ StreamInv(s, now) /\ Schedule(s)
        /\ vested(s, now) <= vested(s, now + 1)
    BY <1>2, <1>3, TypedStream, TickStep DEF IInv
  <2>2. /\ vested(s, now) \in Nat /\ vested(s, now + 1) \in Nat
        /\ vested(s, now + 1) <= s.deposited /\ s.deposited \in Nat
    BY <1>2, <2>1, VestedBounds DEF Schedule
  <2> HIDE DEF s
  <2> QED BY <1>3, <2>1, <2>2 DEF claim_at, s
<1>5. Claims!Earn
  BY <1>1, <1>3, <1>4 DEF Claims!Earn
<1> QED
  BY <1>5 DEF Claims!EscrowNext

\* Every step of the contract is a step of the escrow or leaves the claims.
LEMMA StepImplementsEscrow ==
    ASSUME TypeOK, TypeOK', IInv, [Next]_vars
    PROVE  [Claims!EscrowNext]_claims_now
<1>1. CASE UNCHANGED vars
  BY <1>1, ClaimsShape DEF vars
<1>2. CASE Tick
  BY <1>2, TickImplements
<1>3. CASE Create
  BY <1>3, CreateImplements
<1>4. CASE BatchCall
  BY <1>4, BatchImplements
<1>5. ASSUME NEW id \in DOMAIN streams, StreamCall(id)
      PROVE  Claims!EscrowNext \/ UNCHANGED claims_now
  BY <1>5, PartyShape, CallTouchesOne, CallImplements
<1>6. ASSUME NEW id \in DOMAIN streams, NEW d \in Delegates, DelegateCall(id, d)
      PROVE  Claims!EscrowNext \/ UNCHANGED claims_now
  BY <1>6, DelegateShape, CallTouchesOne, CallImplements
<1> QED
  BY <1>1, <1>2, <1>3, <1>4, <1>5, <1>6 DEF Next

\* The contract keeps the promise of Escrow.tla: whatever it does to its
\* schedules is, seen from outside, earning, funding, collecting or closing.
THEOREM StreamImplementsEscrow == Spec => ImplementsEscrow
<1>1. Init => Claims!EscrowInit
  <2> SUFFICES ASSUME Init PROVE claims_now = [id \in {} |-> {}]
    BY DEF Claims!EscrowInit
  <2>1. DOMAIN streams = {}
    BY DEF Init
  <2> QED BY <2>1, ClaimsShape
<1>2. TypeOK /\ TypeOK' /\ IInv /\ [Next]_vars => [Claims!EscrowNext]_claims_now
  BY StepImplementsEscrow
<1> QED
  BY <1>1, <1>2, TypeCorrect, InvariantHolds, PTL DEF Spec, ImplementsEscrow, Claims!EscrowSpec
===============================================================================
