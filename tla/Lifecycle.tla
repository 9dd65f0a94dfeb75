------------------------------ MODULE Lifecycle ------------------------------
(***************************************************************************)
(* What each entry point of contracts/stream/src/lib.rs demands of one     *)
(* stream record and what it turns that record into.  For an entry point X *)
(* the module has a guard may_X (every early return of X that depends on   *)
(* the record) and an operator giving the record X saves.  Stream.tla adds *)
(* who may call, the storage and the token transfers.                      *)
(*                                                                         *)
(* An operator marked "Mutant" is a plausible bug in the one that follows  *)
(* it; nothing uses it but the mutants of PROJECT.json.                    *)
(***************************************************************************)
EXTENDS Accrual

is_terminal(s) == s.status \in {"Cancelled", "Depleted"}

\* The claim is exhausted.  `Cancelled` is sticky, so the status alone would
\* miss a cancelled stream whose tail has been drawn.
is_settled(s) == s.status = "Depleted" \/ s.withdrawn >= s.deposited

-----------------------------------------------------------------------------
(* create_stream.  An offer is what the sender asks for: deposit, start_time, *)
(* end_time, cliff_time and the three permanent flags.                        *)

may_create(o) ==
    LET total_duration == o.end_time - o.start_time
    IN  /\ o.deposit > 0
        /\ o.end_time > o.start_time
        /\ o.cliff_time \in o.start_time .. o.end_time
        /\ o.deposit >= total_duration              \* DepositRateTooLow
        /\ o.deposit * total_duration <= I128Max    \* Overflow

created(o, sender, recipient, token) ==
    [ sender       |-> sender,
      recipient    |-> recipient,
      token        |-> token,
      deposited    |-> o.deposit,
      withdrawn    |-> 0,
      start_time   |-> o.start_time,
      end_time     |-> o.end_time,
      cliff_time   |-> o.cliff_time,
      cancellable  |-> o.cancellable,
      pausable     |-> o.pausable,
      transferable |-> o.transferable,
      paused_at    |-> None,
      paused_total |-> 0,
      status       |-> "Active" ]

-----------------------------------------------------------------------------
(* top_up: the schedule grows by the time the amount buys at the current   *)
(* rate, rounded down.                                                     *)

\* Mutant: rounds up, the defect accrual.rs tells of.
top_up_delta_ceiling(s, amount) ==
    (amount * duration(s) + s.deposited - 1) \div s.deposited

top_up_delta(s, amount) == (amount * duration(s)) \div s.deposited

topped_up(s, amount) ==
    [s EXCEPT !.deposited = @ + amount,
              !.end_time = @ + top_up_delta(s, amount)]

\* Mutant: none of the width checks.
may_top_up_unchecked(s, amount, now) ==
    /\ ~is_terminal(s)
    /\ amount > 0
    /\ stream_time(s, now) < s.end_time
    /\ top_up_delta(s, amount) > 0

\* Mutant: tops up a stream that has matured.
may_top_up_matured(s, amount, now) ==
    LET t == topped_up(s, amount)
    IN  /\ ~is_terminal(s)
        /\ amount > 0
        /\ amount * duration(s) <= I128Max
        /\ top_up_delta(s, amount) \in 1 .. U64Max
        /\ t.deposited <= I128Max
        /\ t.end_time <= U64Max
        /\ t.deposited * duration(t) <= I128Max
        /\ t.deposited >= duration(t)

may_top_up(s, amount, now) ==
    LET t == topped_up(s, amount)
    IN  /\ ~is_terminal(s)
        /\ amount > 0
        /\ stream_time(s, now) < s.end_time          \* StreamMatured
        /\ amount * duration(s) <= I128Max
        /\ top_up_delta(s, amount) \in 1 .. U64Max   \* TopUpTooSmall, Overflow
        /\ t.deposited <= I128Max
        /\ t.end_time <= U64Max
        /\ t.deposited * duration(t) <= I128Max
        /\ t.deposited >= duration(t)

-----------------------------------------------------------------------------
(* withdraw.  request is the optional amount; None draws all there is.     *)

payout(s, request, now) ==
    IF request = None THEN withdrawable(s, now) ELSE request

\* Mutant: a pause still open survives depletion.
after_withdrawal_in_pause(s, amount, now) ==
    LET drawn == [s EXCEPT !.withdrawn = @ + amount]
    IN  IF drawn.withdrawn >= s.deposited /\ s.status # "Cancelled"
        THEN [drawn EXCEPT !.status = "Depleted"]
        ELSE drawn

\* apply_withdrawal, the tail every withdrawal shares.  Drawing the last token
\* depletes a stream that was not cancelled and closes a pause still open.
after_withdrawal(s, amount, now) ==
    LET drawn == [s EXCEPT !.withdrawn = @ + amount]
        pause == IF s.paused_at = None THEN 0
                                       ELSE saturating_sub(now, s.paused_at)
    IN  IF drawn.withdrawn >= s.deposited /\ s.status # "Cancelled"
        THEN [drawn EXCEPT !.status = "Depleted",
                           !.paused_total = @ + pause,
                           !.paused_at = None]
        ELSE drawn

\* Mutant: a pause freezes earned funds too.
may_withdraw_unpaused(s, request, now) ==
    /\ s.status # "Paused"
    /\ withdrawable(s, now) > 0
    /\ payout(s, request, now) \in 1 .. withdrawable(s, now)

may_withdraw(s, request, now) ==
    /\ ~vested_overflows(s, now)
    /\ withdrawable(s, now) > 0
    /\ payout(s, request, now) \in 1 .. withdrawable(s, now)
    /\ after_withdrawal(s, payout(s, request, now), now).paused_total <= U64Max

-----------------------------------------------------------------------------
(* cancel: the schedule collapses onto the present point of the stream     *)
(* clock and the deposit onto what has vested.                             *)

may_cancel(s, now) ==
    /\ s.cancellable
    /\ ~is_terminal(s)
    /\ ~vested_overflows(s, now)

\* Mutant: the ledger's clock in place of the stream's.
settle_at_ledger_time(s, now) == IF now >= s.start_time THEN now ELSE s.start_time

settle_at(s, now) ==
    IF stream_time(s, now) >= s.start_time THEN stream_time(s, now)
                                           ELSE s.start_time

\* Mutant: settles on what was drawn, seizing what was only earned.
cancelled_on_drawn(s, now) ==
    [s EXCEPT !.deposited = s.withdrawn,
              !.end_time  = settle_at(s, now),
              !.paused_at = None,
              !.status    = "Cancelled"]

cancelled(s, now) ==
    [s EXCEPT !.deposited = vested(s, now),
              !.end_time  = settle_at(s, now),
              !.paused_at = None,
              !.status    = "Cancelled"]

-----------------------------------------------------------------------------
(* pause and resume.                                                       *)

may_pause(s) ==
    /\ s.pausable
    /\ ~is_terminal(s)
    /\ s.status # "Paused"
    /\ s.paused_at = None

\* Mutant: forgets that a stream may be over.
may_delegate_pause_any(s) == s.pausable /\ s.status # "Paused"

\* delegate_pause has no look at paused_at.
may_delegate_pause(s) ==
    /\ s.pausable
    /\ ~is_terminal(s)
    /\ s.status # "Paused"

paused(s, now) == [s EXCEPT !.paused_at = now, !.status = "Paused"]

may_resume(s, now) ==
    /\ ~is_terminal(s)
    /\ s.paused_at # None
    /\ s.status = "Paused"
    /\ s.paused_total + saturating_sub(now, s.paused_at) <= U64Max

\* Mutant: the pause that ends is not added up.
resumed_uncounted(s, now) == [s EXCEPT !.paused_at = None, !.status = "Active"]

resumed(s, now) ==
    [s EXCEPT !.paused_total = @ + saturating_sub(now, s.paused_at),
              !.paused_at = None,
              !.status = "Active"]

-----------------------------------------------------------------------------
(* transfer_recipient.                                                     *)

may_transfer(s, new_recipient) ==
    /\ s.transferable
    /\ ~is_settled(s)
    /\ new_recipient # s.sender         \* SelfStream
    /\ new_recipient # s.recipient      \* RepeatedTransfer

transferred(s, new_recipient) == [s EXCEPT !.recipient = new_recipient]
=============================================================================
