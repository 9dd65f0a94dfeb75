----------------------------- MODULE StreamProps -----------------------------
(***************************************************************************)
(* What the stream contract promises.  I1 to I6 are the invariants stated  *)
(* at the head of contracts/stream/src/accrual.rs; the others are what its *)
(* entry points and the README promise the two parties and the pool.       *)
(***************************************************************************)
EXTENDS Stream

\* Every stored value has the width the contract gives it; ids are issued
\* from zero without gaps, and only issued ids have a stream or a grant.
TypeOK ==
    /\ now \in 0 .. U64Max
    /\ next_stream_id \in 0 .. MaxStreams
    /\ streams \in [0 .. next_stream_id - 1 -> StreamRecord]
    /\ DOMAIN grants \subseteq (DOMAIN streams) \X Delegates
    /\ \A k \in DOMAIN grants : grants[k] \in DelegateGrant

-----------------------------------------------------------------------------
(* Invariants.                                                             *)

\* I1.  The recipient never holds more than has vested, nor is more vested
\* than is in the stream.  A top-up that lowered the rate, or a cancel that
\* settled on the wrong instant, would break it.
Bounds ==
    \A id \in DOMAIN streams :
        LET s == streams[id]
        IN  s.withdrawn <= vested(s, now) /\ vested(s, now) <= s.deposited

\* I5.  A stream is paused exactly while an instant of pause is recorded, and
\* the pauses recorded, the open one aside, fit in the time before it: the
\* saturating subtractions of the stream clock never saturate.
PauseCoherence ==
    \A id \in DOMAIN streams :
        LET s == streams[id]
        IN  /\ s.paused_at # None <=> s.status = "Paused"
            /\ s.paused_at # None => (s.paused_total <= s.paused_at /\ s.paused_at <= now)
            /\ s.paused_total <= now

\* The status tells how the stream stands: short of cancellation it is
\* Depleted exactly when the recipient has drawn all of it.
StatusTracksClaim ==
    \A id \in DOMAIN streams :
        LET s == streams[id]
        IN  s.status # "Cancelled" =>
                (s.status = "Depleted" <=> s.withdrawn = s.deposited)

\* I6.  At maturity, and from the moment a stream is terminal, all that is
\* left in it is the recipient's: no residue of rounding stays behind.
NoDustAtSettlement ==
    \A id \in DOMAIN streams :
        LET s == streams[id]
        IN  stream_time(s, now) >= s.end_time \/ is_terminal(s) =>
                vested(s, now) = s.deposited /\ refundable(s, now) = 0

\* A stored stream never reaches the overflow error of vested, now or later:
\* the guards of create_stream and top_up cover every future multiplication.
NeverOverflows ==
    \A id \in DOMAIN streams : \A t \in now .. MaxTime :
        ~vested_overflows(streams[id], t)

\* The pool holds, of each token, exactly what its streams owe: nothing is
\* owed twice and nothing is stranded.
PoolIsExact ==
    \A tok \in Tokens :
        balance[tok][Contract] =
            SumFunctionOnSet([id \in DOMAIN streams |-> liability(streams[id])],
                             {id \in DOMAIN streams : streams[id].token = tok})

\* What the invariants above rest on, true of each stored stream s at the
\* instant at and preserved by every call: a schedule in order, an open stream
\* that still owes and whose products all fit, the pauses permitted and within
\* the past, a terminal stream settled to the last token.
StreamInv(s, at) ==
    /\ s.start_time <= s.end_time /\ s.start_time <= s.cliff_time
    /\ ~is_terminal(s) => /\ s.start_time < s.end_time /\ s.cliff_time <= s.end_time
                          /\ s.withdrawn < s.deposited
                          /\ s.deposited * duration(s) <= I128Max
    /\ is_terminal(s) => s.deposited = 0 \/ (cliff_reached(s, at) /\ consumed(s, at))
    /\ s.status = "Depleted" => s.withdrawn = s.deposited
    /\ s.withdrawn <= vested(s, at)
    /\ s.paused_at # None <=> s.status = "Paused"
    /\ s.status = "Paused" => s.pausable
    /\ s.paused_at # None => (s.paused_total <= s.paused_at /\ s.paused_at <= at)
    /\ s.paused_total <= at

\* The inductive invariant of the contract: StreamInv of every stream.
IInv == \A id \in DOMAIN streams : StreamInv(streams[id], now)

-----------------------------------------------------------------------------
(* Action properties.                                                      *)

\* I2 and I3.  What a recipient has earned never shrinks, neither by the
\* passing of time nor, the clock standing still, by any call.
EntitlementNeverShrinks ==
    [][ \A id \in DOMAIN streams :
            vested(streams'[id], now') >= vested(streams[id], now) ]_vars

\* The stream clock follows the ledger while the stream is not paused and
\* stands still while it is.  Only a cancel, which settles the schedule, may
\* let the clock of a paused stream jump.
ClockRunsOnlyUnpaused ==
    [][ \A id \in DOMAIN streams :
            LET s == streams[id]
                t == streams'[id]
                ran == stream_time(t, now') - stream_time(s, now)
            IN  IF s.status = "Paused" /\ t.status = "Cancelled" THEN ran >= 0
                ELSE ran = IF s.status = "Paused" THEN 0 ELSE now' - now ]_vars

\* A top-up gives the recipient at once at most what one second of the old
\* schedule was worth (and the token rounding withheld): it neither
\* accelerates nor dilutes, and the schedule grows.
TopUpKeepsRate ==
    [][ \A id \in DOMAIN streams :
            LET s == streams[id]
                t == streams'[id]
            IN  t.deposited > s.deposited =>
                    /\ t.end_time > s.end_time
                    /\ (vested(t, now') - vested(s, now) - 1) * duration(s)
                           < s.deposited ]_vars

\* The terms of a stream hold for its life, whichever entry point is called:
\* parties other than a transferable recipient, token, start, cliff and flags
\* never change; the deposit and the end go back only by a permitted cancel;
\* a stream that is not pausable never pauses; a terminal one stays as it is.
TermsHold ==
    [][ \A id \in DOMAIN streams :
            LET s == streams[id]
                t == streams'[id]
            IN  /\ t.sender = s.sender /\ t.token = s.token
                /\ t.start_time = s.start_time /\ t.cliff_time = s.cliff_time
                /\ t.recipient = s.recipient \/ s.transferable
                /\ s.cancellable \/ (t.deposited >= s.deposited /\ t.end_time >= s.end_time)
                /\ s.pausable \/ t.status # "Paused"
                /\ is_terminal(s) => /\ t.status = s.status
                                     /\ t.deposited = s.deposited
                                     /\ t.end_time = s.end_time
                                     /\ t.paused_at = s.paused_at
      ]_vars

\* The deposit of a stream, zero before it is created.
deposited_in(f, id) == IF id \in DOMAIN f THEN f[id].deposited ELSE 0
withdrawn_in(f, id) == IF id \in DOMAIN f THEN f[id].withdrawn ELSE 0

\* Every token that moves is one the accounting records: in each step an
\* address gains what was withdrawn from the streams it is the recipient of,
\* and pays, or gets back, what the deposits of its own streams changed by.
\* Nobody else, a delegate or the new payee of a transfer, gains anything.
FlowsMatchAccounting ==
    [][ \A tok \in Tokens, a \in Addresses :
            LET drawn == [id \in DOMAIN streams' |->
                             withdrawn_in(streams', id) - withdrawn_in(streams, id)]
                funded == [id \in DOMAIN streams' |->
                              deposited_in(streams', id) - deposited_in(streams, id)]
            IN  balance'[tok][a] - balance[tok][a] =
                      SumFunctionOnSet(drawn, {id \in DOMAIN streams' :
                          streams'[id].token = tok /\ streams'[id].recipient = a})
                    - SumFunctionOnSet(funded, {id \in DOMAIN streams' :
                          streams'[id].token = tok /\ streams'[id].sender = a})
      ]_vars

-----------------------------------------------------------------------------
(* Refinement.                                                             *)

\* The claim a stream stands for: what it was funded with, what of that its
\* recipient has earned by now and been paid.
claim_of(s) ==
    [total |-> s.deposited, earned |-> vested(s, now),
     paid |-> s.withdrawn, closed |-> is_terminal(s)]

claims_now == [id \in DOMAIN streams |-> claim_of(streams[id])]

Claims == INSTANCE Escrow WITH ClaimIds <- Ids, claims <- claims_now

\* The contract keeps the promise of Escrow.tla: whatever it does to its
\* schedules is, seen from outside, earning, funding, collecting or closing.
ImplementsEscrow == Claims!EscrowSpec

NoGrants == [k \in {} |-> {}]

Direct == INSTANCE Stream WITH Delegates <- {}, grants <- NoGrants

\* Delegation gives nobody a new power over streams or tokens: every step a
\* delegate takes is one that the contract without delegation lets a party
\* take.  The bodies of the delegate_* entry points are copies of the parties'
\* entry points, and this is what keeps the copies equal.
DelegationAddsNothing == Direct!Spec

-----------------------------------------------------------------------------
(* Liveness.                                                               *)

\* A recipient who keeps asking is paid a matured stream in full, whatever
\* the sender and the delegates do in the meantime: no pause, transfer,
\* top-up or cancel holds the funds back.
MaturedIsPaidOut ==
    \A id \in Ids :
        (id \in DOMAIN streams /\ stream_time(streams[id], now) >= streams[id].end_time)
            ~> (id \in DOMAIN streams /\ streams[id].withdrawn = streams[id].deposited)
=============================================================================
