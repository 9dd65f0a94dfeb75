----------------------------- MODULE StreamEvents -----------------------------
(***************************************************************************)
(* The events of the stream contract, contracts/stream/src/events.rs, and  *)
(* an indexer that knows the streams and the grants from them alone, as    *)
(* docs/indexing_guide.md would have it.                                   *)
(*                                                                         *)
(* Publishing is the last thing a call does: an event carries what the     *)
(* call has stored.  Figures of the one call (the amount drawn, refunded   *)
(* or added, the length of a pause) add nothing to what the indexer knows  *)
(* of the stream, and ttl_extended says nothing of it: they are left out.  *)
(***************************************************************************)
EXTENDS MCStream

VARIABLES
    projection,       \* the indexer's streams
    projected_grants  \* and its grants

eventVars == <<vars, projection, projected_grants>>

\* Mutant: top-ups lengthen no schedule for those who read events.
carries_no_top_up_end ==
    [ stream_created |-> {"sender", "recipient", "token", "deposited", "start_time",
                          "end_time", "cliff_time", "cancellable", "pausable", "transferable"},
      withdrawn |-> {"withdrawn", "deposited", "status"},
      cancelled |-> {"deposited", "withdrawn", "end_time"},
      paused |-> {"paused_at", "paused_total"},
      resumed |-> {"paused_total"},
      topped_up |-> {"deposited"},
      recipient_transferred |-> {"recipient"} ]

\* The fields of the stored record each event carries.  What cancelled calls
\* vested is the deposit as the cancellation left it.
carries ==
    [ stream_created |-> {"sender", "recipient", "token", "deposited", "start_time",
                          "end_time", "cliff_time", "cancellable", "pausable", "transferable"},
      withdrawn |-> {"withdrawn", "deposited", "status"},
      cancelled |-> {"deposited", "withdrawn", "end_time"},
      paused |-> {"paused_at", "paused_total"},
      resumed |-> {"paused_total"},
      topped_up |-> {"deposited", "end_time"},
      recipient_transferred |-> {"recipient"} ]

\* The event called name of stream id, as the publishers fill it in.
payload(name, id) == [field \in carries[name] |-> streams'[id][field]]

-----------------------------------------------------------------------------
(* The indexer.                                                            *)

\* What the kind of an event says beyond its payload e.
implied(name, e) ==
    CASE name = "stream_created" ->
            [withdrawn |-> 0, paused_at |-> None, paused_total |-> 0, status |-> "Active"]
      [] name = "cancelled" -> [status |-> "Cancelled", paused_at |-> None]
      [] name = "paused" -> [status |-> "Paused"]
      [] name = "resumed" -> [status |-> "Active", paused_at |-> None]
      [] name = "withdrawn" /\ e.status = "Depleted" -> [paused_at |-> None]
      [] OTHER -> [field \in {} |-> None]

\* What was known, with the fields of news in the place of the old ones.
told(news, old) ==
    [field \in DOMAIN news \cup DOMAIN old |->
        IF field \in DOMAIN news THEN news[field] ELSE old[field]]

known(id) == IF id \in DOMAIN projection THEN projection[id] ELSE [field \in {} |-> None]

\* The event called name is published for every stream in ids.
published(name, ids) ==
    /\ projection' = [id \in DOMAIN projection \cup ids |->
          IF id \in ids
          THEN LET e == payload(name, id) IN told(implied(name, e), told(e, known(id)))
          ELSE projection[id]]
    /\ UNCHANGED projected_grants

grants_published(known_grants) ==
    /\ projected_grants' = known_grants
    /\ UNCHANGED projection

-----------------------------------------------------------------------------
(* The calls, each with the events it publishes.                           *)

AccountingCall(id) ==
    \/ /\ \E amount \in Amounts :
             \/ top_up(id, amount)
             \/ \E d \in Delegates : delegate_top_up(id, d, amount)
       /\ published("topped_up", {id})
    \/ /\ \E request \in Amounts \cup {None} :
             \/ withdraw(id, request)
             \/ \E d \in Delegates : delegate_withdraw(id, d, request)
       /\ published("withdrawn", {id})
    \/ /\ cancel(id) \/ \E d \in Delegates : delegate_cancel(id, d)
       /\ published("cancelled", {id})

PauseCall(id) ==
    \/ /\ pause(id) \/ \E d \in Delegates : delegate_pause(id, d)
       /\ published("paused", {id})
    \/ /\ resume(id) \/ \E d \in Delegates : delegate_resume(id, d)
       /\ published("resumed", {id})

\* A transfer to the present recipient publishes nothing, and is no step.
TransferCall(id) ==
    /\ \E a \in Addresses :
          \/ transfer_recipient(id, a)
          \/ \E d \in Delegates : delegate_transfer_recipient(id, d, a)
    /\ published("recipient_transferred", {id})

GrantCall(id, d) ==
    \/ \E ops \in GrantOps, t \in Expiries :
          /\ grant_delegate(id, d, ops, t)
          /\ grants_published(told([k \in {<<id, d>>} |-> [ops |-> ops, expires_at |-> t]],
                                projected_grants))
    \/ /\ revoke_delegate(id, d)
       /\ grants_published(Restrict(projected_grants, DOMAIN projected_grants \ {<<id, d>>}))

\* A batch publishes one event for every stream it draws from or moves.
BatchEvents ==
    \E ids \in SUBSET DOMAIN streams, a \in Addresses :
        \/ /\ batch_withdraw(a, ids)
           /\ published("withdrawn", {id \in ids : withdrawable(streams[id], now) > 0})
        \/ /\ batch_transfer_recipient(ids, a)
           /\ published("recipient_transferred", ids)

EventInit ==
    /\ Init
    /\ projection = [id \in {} |-> {}]
    /\ projected_grants = [k \in {} |-> {}]

EventNext ==
    \/ Tick /\ UNCHANGED <<projection, projected_grants>>
    \/ Create /\ published("stream_created", {next_stream_id})
    \/ BatchEvents
    \/ \E id \in DOMAIN streams :
          \/ AccountingCall(id)
          \/ PauseCall(id)
          \/ TransferCall(id)
          \/ \E d \in Delegates : GrantCall(id, d)

EventSpec == EventInit /\ [][EventNext]_eventVars

-----------------------------------------------------------------------------
\* events.rs: the events are "the only way an indexer learns that a stream
\* exists or that its state moved", and they are enough: whoever only reads
\* them knows every stream and every grant, through batches, pauses, top-ups
\* and cancellations.  One figure escapes: the length of the pause in which a
\* stream was drained.
ProjectionAgrees ==
    /\ DOMAIN projection = DOMAIN streams
    /\ projected_grants = grants
    /\ \A id \in DOMAIN streams :
          /\ streams[id].status # "Depleted" => projection[id] = streams[id]
          /\ [projection[id] EXCEPT !.paused_total = 0] = [streams[id] EXCEPT !.paused_total = 0]
===============================================================================
