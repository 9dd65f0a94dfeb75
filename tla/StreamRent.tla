------------------------------ MODULE StreamRent ------------------------------
(***************************************************************************)
(* The time to live of the stream contract's storage entries,              *)
(* contracts/stream/src/storage.rs: what every entry point renews, the     *)
(* keeper's entry points, archival and restoring.  Composes Stream.tla     *)
(* with the host's rent (Rent.tla).  The entries of grants, which have the *)
(* network's maximum after every use, are left out.                        *)
(***************************************************************************)
EXTENDS MCStream, Rent

CONSTANTS
    SECONDS_PER_LEDGER,  \* how long a ledger lasts
    TTL_BUFFER_SECONDS,
    max_entry_ttl    \* the most the network lets an entry have, in ledgers

ASSUME StreamRentAssumption ==
    /\ SECONDS_PER_LEDGER \in Nat \ {0}
    /\ TTL_BUFFER_SECONDS \in Nat
    /\ max_entry_ttl \in min_persistent_ttl .. U64Max \div SECONDS_PER_LEDGER

VARIABLES
    live_until,  \* entry -> the last ledger on which it is live
    funded_at    \* history: stream -> when its schedule was last looked at;
                 \* None after a restoration, which looks at nothing

rentVars == <<vars, live_until, funded_at>>

Instance == <<"Instance">>               \* the entry of DataKey::NextStreamId
StreamKey(id) == <<"Stream", id>>

\* The sequence number of the ledger.  SECONDS_PER_LEDGER is the least the code
\* reckons with; the longer a ledger lasts, the longer an entry lives.
ledger == now \div SECONDS_PER_LEDGER

readable(k) == k \in DOMAIN live_until /\ is_live(live_until[k], ledger)

lesser(a, b) == IF a <= b THEN a ELSE b
greater(a, b) == IF a >= b THEN a ELSE b

saturated(seconds) == IF seconds > U64Max THEN U64Max ELSE seconds

-----------------------------------------------------------------------------
(* Targets.                                                                *)

seconds_to_ledgers(seconds) ==
    saturated(seconds + SECONDS_PER_LEDGER - 1) \div SECONDS_PER_LEDGER

\* A tenth is added for slow ledgers.
MIN_STREAM_TTL_LEDGERS == ((TTL_BUFFER_SECONDS * 11 + 9) \div 10) \div SECONDS_PER_LEDGER

\* When the schedule ends on the ledger's clock, if a pause still open closed
\* now.
effective_end(s) ==
    saturated(saturated(s.end_time + s.paused_total)
                + IF s.paused_at = None THEN 0 ELSE saturating_sub(now, s.paused_at))

ttl_target_ledgers(s) ==
    LET remaining == saturating_sub(effective_end(s), now)
        target == seconds_to_ledgers(saturated(remaining + TTL_BUFFER_SECONDS))
    IN  lesser(greater(target, MIN_STREAM_TTL_LEDGERS), max_entry_ttl)

-----------------------------------------------------------------------------
(* Renewals.  What a call renews is given by what it looks at.             *)

written(until, k) == IF k \in DOMAIN until THEN until[k] ELSE created_until(ledger)

\* The life of entry k after one renewal to target.
extended(until, k, target) == extended_until(written(until, k), ledger, target, target)

\* Mutant: save_stream leaves the renewal to load_stream.
stream_renewed_at_load(until, id) ==
    extended(until, StreamKey(id),
             ttl_target_ledgers(IF id \in DOMAIN streams THEN streams[id] ELSE streams'[id]))

\* load_stream extends by the record it reads, save_stream by the one it
\* writes.
stream_renewed(until, id) ==
    LET loaded == IF id \in DOMAIN streams
                  THEN extended(until, StreamKey(id), ttl_target_ledgers(streams[id]))
                  ELSE written(until, StreamKey(id))
        target == ttl_target_ledgers(streams'[id])
    IN  extended_until(loaded, ledger, target, target)

\* The streams in ids are renewed, the instance is when so told (by
\* extend_instance, always to the maximum), and nothing else.
renewed(ids, instance) ==
    LET stored == {Instance} \cup {StreamKey(id) : id \in DOMAIN streams'} IN
    /\ live_until' = [k \in stored |->
          IF k # Instance
          THEN IF k[2] \in ids THEN stream_renewed(live_until, k[2]) ELSE live_until[k]
          ELSE IF instance THEN extended(live_until, k, max_entry_ttl) ELSE live_until[k]]
    /\ funded_at' = [id \in DOMAIN streams' |-> IF id \in ids THEN now ELSE funded_at[id]]

-----------------------------------------------------------------------------
(* The entry points of Stream.tla.  A call fails when an entry it touches  *)
(* is archived.                                                            *)

RentCreate ==
    /\ readable(Instance)
    /\ Create
    /\ renewed(DOMAIN streams' \ DOMAIN streams, TRUE)

RentStreamCall(id) ==
    /\ readable(Instance) /\ readable(StreamKey(id))
    /\ StreamCall(id)
    /\ renewed({id}, TRUE)

\* The instance is renewed only when something is paid.
RentBatchWithdraw(recipient, ids) ==
    /\ readable(Instance) /\ \A id \in ids : readable(StreamKey(id))
    /\ batch_withdraw(recipient, ids)
    /\ renewed(ids, batch_payout(ids) > 0)

RentBatchTransfer(ids, new_recipient) ==
    /\ readable(Instance) /\ \A id \in ids : readable(StreamKey(id))
    /\ batch_transfer_recipient(ids, new_recipient)
    /\ renewed(ids, TRUE)

RentDelegateCall(id, d) ==
    /\ readable(Instance) /\ readable(StreamKey(id))
    /\ DelegateCall(id, d)
    /\ renewed({id}, TRUE)

\* A grant of no operation at all: the stream is loaded and nothing else.
EmptyGrant(id) ==
    /\ readable(Instance) /\ readable(StreamKey(id))
    /\ ~is_terminal(streams[id])
    /\ UNCHANGED vars
    /\ renewed({id}, FALSE)

-----------------------------------------------------------------------------
(* The keeper, and the network.                                            *)

extend_stream_ttl(id) ==
    /\ readable(Instance) /\ readable(StreamKey(id))
    /\ UNCHANGED vars
    /\ renewed({id}, TRUE)

\* Streams that are archived, or have all the life they are due, are skipped.
batch_extend_ttl(ids) ==
    /\ readable(Instance)
    /\ is_batch(ids)
    /\ UNCHANGED vars
    /\ renewed({id \in ids : readable(StreamKey(id))}, TRUE)

\* What stream_recovery tells of an id.
recovery_for(id) ==
    IF readable(StreamKey(id)) THEN "None"
    ELSE IF id < next_stream_id THEN "RestoreFootprint"
    ELSE "NeverExisted"

restored(k) ==
    /\ live_until' = [live_until EXCEPT ![k] = created_until(ledger)]
    /\ funded_at' = [id \in DOMAIN funded_at |-> IF k = StreamKey(id) THEN None ELSE funded_at[id]]
    /\ UNCHANGED vars

\* Anybody may restore an archived entry, for a fee, with
\* the life of a new one.
RestoreStream(id) ==
    /\ readable(Instance)
    /\ recovery_for(id) = "RestoreFootprint"
    /\ restored(StreamKey(id))

RestoreInstance ==
    /\ ~readable(Instance)
    /\ restored(Instance)

-----------------------------------------------------------------------------
RentInit ==
    /\ Init
    /\ live_until = [k \in {Instance} |-> created_until(ledger)]
    /\ funded_at = [id \in {} |-> None]

RentNext ==
    \/ Tick /\ UNCHANGED <<live_until, funded_at>>
    \/ RentCreate
    \/ \E id \in DOMAIN streams :
          \/ RentStreamCall(id)
          \/ EmptyGrant(id)
          \/ extend_stream_ttl(id)
          \/ RestoreStream(id)
          \/ \E d \in Delegates : RentDelegateCall(id, d)
    \/ \E ids \in SUBSET DOMAIN streams :
          \/ batch_extend_ttl(ids)
          \/ \E a \in Addresses : RentBatchWithdraw(a, ids) \/ RentBatchTransfer(ids, a)
    \/ RestoreInstance

RentSpec == RentInit /\ [][RentNext]_rentVars

\* What the recipient of a stream does to be paid: restore what is archived,
\* then ask for all there is.
Claim(id) ==
    /\ id \in DOMAIN streams
    /\ \/ RestoreInstance
       \/ RestoreStream(id)
       \/ /\ readable(Instance) /\ readable(StreamKey(id))
          /\ withdraw(id, None)
          /\ renewed({id}, TRUE)

\* Time passes, and the recipients keep at it.  Nothing is assumed of the
\* senders, the delegates and the keeper.
RentFairness ==
    /\ WF_rentVars(Tick /\ UNCHANGED <<live_until, funded_at>>)
    /\ \A id \in Ids : WF_rentVars(Claim(id))

FairRentSpec == RentSpec /\ RentFairness

-----------------------------------------------------------------------------
\* storage.rs promises that a stream, once touched, stays readable to the end
\* of its schedule and the keeper's buffer after it, or for as long as the
\* network allows.  Pauses move that end, a top-up moves it, and every entry
\* point computes its own renewal.  A stream that is paused has no end yet; a
\* restored one waits for the next call.
ReadableToItsEnd ==
    \A id \in DOMAIN streams :
        streams[id].status # "Paused" /\ funded_at[id] # None =>
            live_until[StreamKey(id)] >=
                lesser((effective_end(streams[id]) + TTL_BUFFER_SECONDS) \div SECONDS_PER_LEDGER,
                       funded_at[id] \div SECONDS_PER_LEDGER + max_entry_ttl)
===============================================================================
