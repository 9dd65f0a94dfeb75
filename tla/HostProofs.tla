------------------------------ MODULE HostProofs ------------------------------
(***************************************************************************)
(* What the ledger does for the stream contract, proved for every set of   *)
(* parties and offers, any widths and any length of a ledger: the events   *)
(* of StreamEvents.tla and the rent of StreamRent.tla.  Both implement the *)
(* contract of Stream.tla, so that what StreamProofs says of every record  *)
(* can be used of theirs.                                                  *)
(*                                                                         *)
(* Events.  An event tells some fields of the new record, its kind tells   *)
(* others, and the indexer keeps the rest: NewsTell reduces agreement to   *)
(* the fields a call leaves alone, and one lemma per call answers for      *)
(* them.                                                                   *)
(*                                                                         *)
(* Rent.  A renewal covers what the stream is due at that instant          *)
(* (TargetCovers), rounding down the ledgers of two lengths of time only   *)
(* ever costs one (LedgersCover), and what it is due moves only by a call, *)
(* which renews it, or while it is paused.                                 *)
(***************************************************************************)
EXTENDS StreamProofs, StreamEvents, StreamRent

Fields ==
    {"sender", "recipient", "token", "deposited", "withdrawn", "start_time", "end_time",
     "cliff_time", "cancellable", "pausable", "transferable", "paused_at", "paused_total",
     "status"}

\* What an indexer that knew p of a stream knows of it after the event called
\* name, published when the record stored is t.
news(name, t, p) ==
    LET e == [field \in carries[name] |-> t[field]]
    IN  told(implied(name, e), told(e, p))

\* The indexer's record p of a stream is the one stored, s, but for the length
\* of the pause in which the stream was drained.
Agrees(p, s) ==
    /\ s.status # "Depleted" => p = s
    /\ [p EXCEPT !.paused_total = 0] = [s EXCEPT !.paused_total = 0]

LEMMA RecordFields ==
    ASSUME NEW s \in StreamRecord
    PROVE  DOMAIN s = Fields /\ s = [field \in Fields |-> s[field]]
BY DEF StreamRecord, Fields

\* What news says, field by field: the kind of the event, then its payload,
\* then what was known.
LEMMA NewsField ==
    ASSUME NEW imp, NEW E, NEW e, NEW p, NEW t, DOMAIN t = Fields,
           t = [field \in Fields |-> t[field]], e = [field \in E |-> t[field]],
           DOMAIN imp \cup E \cup DOMAIN p = Fields,
           \A field \in DOMAIN imp : imp[field] = t[field],
           \A field \in DOMAIN p : field \notin DOMAIN imp \cup E => p[field] = t[field]
    PROVE  told(imp, told(e, p)) = t
<1> DEFINE q == told(imp, told(e, p))
<1>1. DOMAIN q = Fields /\ q = [field \in Fields |-> q[field]]
  BY DEF told
<1>2. \A field \in Fields : q[field] = t[field]
  BY DEF told
<1> HIDE DEF q
<1>3. q = t
  BY <1>1, <1>2
<1> QED
  BY <1>3 DEF q

\* An event tells a change when the fields it leaves out are those that stay.
LEMMA NewsTell ==
    ASSUME NEW s \in StreamRecord, NEW t \in StreamRecord, NEW name, NEW E, NEW imp,
           carries[name] = E, implied(name, [field \in E |-> t[field]]) = imp,
           E \subseteq Fields, DOMAIN imp \subseteq Fields,
           \A field \in DOMAIN imp : imp[field] = t[field],
           \A field \in Fields \ (DOMAIN imp \cup E) : s[field] = t[field]
    PROVE  news(name, t, s) = t
<1>1. DOMAIN s = Fields /\ DOMAIN t = Fields /\ t = [field \in Fields |-> t[field]]
  BY RecordFields
<1>2. told(imp, told([field \in E |-> t[field]], s)) = t
  BY <1>1, NewsField
<1> QED
  BY <1>2 DEF news

LEMMA NewsOfTopUp ==
    ASSUME NEW s \in StreamRecord, NEW amount, NEW t \in StreamRecord, t = topped_up(s, amount)
    PROVE  news("topped_up", t, s) = t
<1> DEFINE E == {"deposited", "end_time"}
           imp == [field \in {} |-> None]
<1>1. carries["topped_up"] = E /\ E \subseteq Fields
  BY DEF carries, Fields
<1>2. implied("topped_up", [field \in E |-> t[field]]) = imp
  BY DEF implied
<1>3. \A field \in Fields \ E : s[field] = t[field]
  BY RecordFields DEF topped_up
<1>4. /\ DOMAIN imp \subseteq Fields
      /\ \A field \in DOMAIN imp : imp[field] = t[field]
      /\ \A field \in Fields \ (DOMAIN imp \cup E) : s[field] = t[field]
  BY <1>3
<1> HIDE DEF imp
<1> QED
  BY <1>1, <1>2, <1>4, NewsTell

LEMMA NewsOfTransfer ==
    ASSUME NEW s \in StreamRecord, NEW a, NEW t \in StreamRecord, t = transferred(s, a)
    PROVE  news("recipient_transferred", t, s) = t
<1> DEFINE E == {"recipient"}
           imp == [field \in {} |-> None]
<1>1. carries["recipient_transferred"] = E /\ E \subseteq Fields
  BY DEF carries, Fields
<1>2. implied("recipient_transferred", [field \in E |-> t[field]]) = imp
  BY DEF implied
<1>3. \A field \in Fields \ E : s[field] = t[field]
  BY RecordFields DEF transferred
<1>4. /\ DOMAIN imp \subseteq Fields
      /\ \A field \in DOMAIN imp : imp[field] = t[field]
      /\ \A field \in Fields \ (DOMAIN imp \cup E) : s[field] = t[field]
  BY <1>3
<1> HIDE DEF imp
<1> QED
  BY <1>1, <1>2, <1>4, NewsTell

LEMMA NewsOfCancellation ==
    ASSUME NEW s \in StreamRecord, NEW at, NEW t \in StreamRecord, t = cancelled(s, at)
    PROVE  news("cancelled", t, s) = t
<1> DEFINE E == {"deposited", "withdrawn", "end_time"}
           imp == [status |-> "Cancelled", paused_at |-> None]
<1>1. carries["cancelled"] = E /\ E \subseteq Fields /\ DOMAIN imp \subseteq Fields
  BY DEF carries, Fields
<1>2. implied("cancelled", [field \in E |-> t[field]]) = imp
  BY DEF implied
<1>3. /\ \A field \in Fields \ {"deposited", "end_time", "status", "paused_at"} :
              s[field] = t[field]
      /\ t.status = "Cancelled" /\ t.paused_at = None
  BY RecordFields DEF cancelled, Fields
<1>4. /\ \A field \in DOMAIN imp : imp[field] = t[field]
      /\ \A field \in Fields \ (DOMAIN imp \cup E) : s[field] = t[field]
  BY <1>3
<1> HIDE DEF imp
<1> QED
  BY <1>1, <1>2, <1>4, NewsTell

LEMMA NewsOfPause ==
    ASSUME NEW s \in StreamRecord, NEW at, NEW t \in StreamRecord, t = paused(s, at)
    PROVE  news("paused", t, s) = t
<1> DEFINE E == {"paused_at", "paused_total"}
           imp == [status |-> "Paused"]
<1>1. carries["paused"] = E /\ E \subseteq Fields /\ DOMAIN imp \subseteq Fields
  BY DEF carries, Fields
<1>2. implied("paused", [field \in E |-> t[field]]) = imp
  BY DEF implied
<1>3. /\ \A field \in Fields \ {"status", "paused_at"} : s[field] = t[field]
      /\ t.status = "Paused"
  BY RecordFields DEF paused, Fields
<1>4. /\ \A field \in DOMAIN imp : imp[field] = t[field]
      /\ \A field \in Fields \ (DOMAIN imp \cup E) : s[field] = t[field]
  BY <1>3
<1> HIDE DEF imp
<1> QED
  BY <1>1, <1>2, <1>4, NewsTell

LEMMA NewsOfResumption ==
    ASSUME NEW s \in StreamRecord, NEW at, NEW t \in StreamRecord, t = resumed(s, at)
    PROVE  news("resumed", t, s) = t
<1> DEFINE E == {"paused_total"}
           imp == [status |-> "Active", paused_at |-> None]
<1>1. carries["resumed"] = E /\ E \subseteq Fields /\ DOMAIN imp \subseteq Fields
  BY DEF carries, Fields
<1>2. implied("resumed", [field \in E |-> t[field]]) = imp
  BY DEF implied
<1>3. /\ \A field \in Fields \ {"status", "paused_at", "paused_total"} : s[field] = t[field]
      /\ t.status = "Active" /\ t.paused_at = None
  BY RecordFields DEF resumed, Fields
<1>4. /\ \A field \in DOMAIN imp : imp[field] = t[field]
      /\ \A field \in Fields \ (DOMAIN imp \cup E) : s[field] = t[field]
  BY <1>3
<1> HIDE DEF imp
<1> QED
  BY <1>1, <1>2, <1>4, NewsTell

\* Of a stream drained in a pause the event does not say how long the pause
\* was: what is known is the record with the length of the pauses before.
LEMMA NewsOfWithdrawal ==
    ASSUME NEW s \in StreamRecord, NEW amount, NEW at, NEW t \in StreamRecord,
           t = after_withdrawal(s, amount, at), s.status # "Depleted"
    PROVE  Agrees(news("withdrawn", t, s), t)
<1> DEFINE E == {"withdrawn", "deposited", "status"}
<1>0. carries["withdrawn"] = E /\ E \subseteq Fields
  BY DEF carries, Fields
<1>1. CASE t.status # "Depleted"
  <2> DEFINE imp == [field \in {} |-> None]
  <2>1. implied("withdrawn", [field \in E |-> t[field]]) = imp
    BY <1>1 DEF implied
  <2>2. \A field \in Fields \ E : s[field] = t[field]
    BY <1>1, RecordFields DEF after_withdrawal, Fields
  <2>3. /\ DOMAIN imp \subseteq Fields
        /\ \A field \in DOMAIN imp : imp[field] = t[field]
        /\ \A field \in Fields \ (DOMAIN imp \cup E) : s[field] = t[field]
    BY <2>2
  <2> HIDE DEF imp
  <2>4. news("withdrawn", t, s) = t
    BY <1>0, <2>1, <2>3, NewsTell
  <2> QED
    BY <2>4 DEF Agrees
<1>2. CASE t.status = "Depleted"
  <2> DEFINE u == [t EXCEPT !.paused_total = s.paused_total]
             imp == [paused_at |-> None]
  <2>1. u \in StreamRecord
    BY DEF StreamRecord
  <2>2. /\ \A field \in E \cup {"paused_at"} : u[field] = t[field]
        /\ \A field \in Fields \ (E \cup {"paused_at"}) : s[field] = u[field]
    BY <1>2, RecordFields DEF after_withdrawal, Fields
  <2>3. t.paused_at = None
    BY <1>2, RecordFields DEF after_withdrawal, Fields
  <2>4. [field \in E |-> u[field]] = [field \in E |-> t[field]]
    BY <2>2
  <2>5. implied("withdrawn", [field \in E |-> u[field]]) = imp
    BY <1>2, <2>4 DEF implied
  <2>6. DOMAIN imp \subseteq Fields /\ \A field \in DOMAIN imp : imp[field] = u[field]
    <3>1. u["paused_at"] = None
      BY <2>2, <2>3
    <3> HIDE DEF u
    <3> QED
      BY <3>1 DEF Fields
  <2> HIDE DEF u, imp
  <2>7. news("withdrawn", u, s) = u
    <3>1. \A field \in Fields \ (DOMAIN imp \cup E) : s[field] = u[field]
      BY <2>2 DEF imp
    <3> QED
      BY <1>0, <2>1, <2>5, <2>6, <3>1, NewsTell
  <2>8. news("withdrawn", t, s) = u
    BY <1>0, <2>4, <2>7 DEF news
  <2>9. [u EXCEPT !.paused_total = 0] = [t EXCEPT !.paused_total = 0]
    BY RecordFields DEF u, Fields
  <2> QED
    BY <1>2, <2>8, <2>9 DEF Agrees
<1> QED
  BY <1>1, <1>2

\* Of a stream just created everything is told.
LEMMA NewsOfCreation ==
    ASSUME NEW o, NEW sender, NEW recipient, NEW token, NEW t \in StreamRecord,
           t = created(o, sender, recipient, token)
    PROVE  news("stream_created", t, [field \in {} |-> None]) = t
<1> DEFINE E == {"sender", "recipient", "token", "deposited", "start_time", "end_time",
                 "cliff_time", "cancellable", "pausable", "transferable"}
           imp == [withdrawn |-> 0, paused_at |-> None, paused_total |-> 0, status |-> "Active"]
           p == [field \in {} |-> None]
<1>1. carries["stream_created"] = E /\ DOMAIN p = {} /\ DOMAIN imp \cup E \cup {} = Fields
  BY DEF carries, Fields
<1>2. implied("stream_created", [field \in E |-> t[field]]) = imp
  BY DEF implied
<1>3. \A field \in DOMAIN imp : imp[field] = t[field]
  BY DEF created
<1>4. DOMAIN t = Fields /\ t = [field \in Fields |-> t[field]]
  BY RecordFields
<1> HIDE DEF E, imp, p
<1>5. told(imp, told([field \in E |-> t[field]], p)) = t
  <2>1. DOMAIN imp \cup E \cup DOMAIN p = Fields
    BY <1>1
  <2>2. \A field \in DOMAIN p : field \notin DOMAIN imp \cup E => p[field] = t[field]
    BY <1>1
  <2> QED
    BY <1>3, <1>4, <2>1, <2>2, NewsField
<1> QED
  BY <1>1, <1>2, <1>5 DEF news, p

-----------------------------------------------------------------------------
(* The calls.                                                              *)

\* The events leave the contract as it is without them.
LEMMA EventStep ==
    ASSUME [EventNext]_eventVars
    PROVE  [Next]_vars
<1>1. CASE UNCHANGED eventVars
  BY <1>1 DEF eventVars
<1>2. ASSUME NEW id \in DOMAIN streams, AccountingCall(id) PROVE Next
  BY <1>2 DEF AccountingCall, Next, StreamCall, DelegateCall
<1>3. ASSUME NEW id \in DOMAIN streams, PauseCall(id) PROVE Next
  BY <1>3 DEF PauseCall, Next, StreamCall, DelegateCall
<1>4. ASSUME NEW id \in DOMAIN streams, TransferCall(id) PROVE Next
  BY <1>4 DEF TransferCall, Next, StreamCall, DelegateCall
<1>5. ASSUME NEW id \in DOMAIN streams, NEW d \in Delegates, GrantCall(id, d) PROVE Next
  BY <1>5 DEF GrantCall, Next, DelegateCall
<1>6. CASE BatchEvents
  BY <1>6 DEF BatchEvents, Next, BatchCall
<1> QED
  BY <1>1, <1>2, <1>3, <1>4, <1>5, <1>6 DEF EventNext, Next

\* The contract with its events implements the contract: whatever holds of the
\* one holds of the other.
THEOREM EventsImplementStream == EventSpec => Spec
<1>1. EventInit => Init
  BY DEF EventInit
<1> QED
  BY <1>1, EventStep, PTL DEF EventSpec, Spec

\* What is drawn from a stream is not drawn from a depleted one.
LEMMA DepletedIsDry ==
    ASSUME TypeOK, IInv, NEW id \in DOMAIN streams, withdrawable(streams[id], now) > 0
    PROVE  streams[id].status # "Depleted"
<1> SUFFICES ASSUME streams[id].status = "Depleted" PROVE FALSE
  OBVIOUS
<1>1. streams[id].withdrawn = streams[id].deposited
  BY DEF IInv, StreamInv
<1>2. vested(streams[id], now) <= streams[id].deposited /\ vested(streams[id], now) \in Nat
  BY TypedStream, VestedBounds DEF Schedule
<1>3. streams[id].deposited \in Nat
  BY TypedStream DEF Schedule
<1> QED
  BY <1>1, <1>2, <1>3 DEF withdrawable, saturating_sub

\* The streams an event was published for are known by it, the others as before.
LEMMA Published ==
    ASSUME ProjectionAgrees, NEW name, NEW ids, published(name, ids), grants' = grants,
           DOMAIN streams' = DOMAIN streams \cup ids,
           \A id \in ids : Agrees(news(name, streams'[id], known(id)), streams'[id]),
           \A id \in DOMAIN streams \ ids : streams'[id] = streams[id]
    PROVE  ProjectionAgrees'
<1>1. \A id \in ids : projection'[id] = news(name, streams'[id], known(id))
  BY DEF published, payload, news
<1>2. \A id \in DOMAIN projection \ ids : projection'[id] = projection[id]
  BY DEF published
<1>3. DOMAIN projection' = DOMAIN streams \cup ids /\ projected_grants' = grants'
  BY DEF published, ProjectionAgrees
<1>4. \A id \in DOMAIN streams : Agrees(projection[id], streams[id])
  BY DEF ProjectionAgrees, Agrees
<1>5. \A id \in DOMAIN streams' : Agrees(projection'[id], streams'[id])
  BY <1>1, <1>2, <1>4 DEF ProjectionAgrees
<1> QED
  BY <1>3, <1>5 DEF ProjectionAgrees, Agrees

\* A call on one stream, not a depleted one, that publishes one event.
LEMMA OneStreamTold ==
    ASSUME TypeOK, ProjectionAgrees, NEW id \in DOMAIN streams, streams[id].status # "Depleted",
           NEW t, save_stream(id, t), grants' = grants, NEW name, published(name, {id}),
           Agrees(news(name, t, streams[id]), t)
    PROVE  ProjectionAgrees'
<1>1. known(id) = streams[id]
  BY DEF known, ProjectionAgrees
<1>2. DOMAIN streams' = DOMAIN streams \cup {id} /\ streams'[id] = t
      /\ \A i \in DOMAIN streams \ {id} : streams'[i] = streams[i]
  BY DEF save_stream, TypeOK
<1> QED
  BY <1>1, <1>2, Published

\* What is saved has the type of a stream.
LEMMA SavedRecord ==
    ASSUME TypeOK, TypeOK', NEW id \in DOMAIN streams, NEW t, save_stream(id, t)
    PROVE  streams[id] \in StreamRecord /\ t \in StreamRecord
<1>1. streams'[id] = t /\ id \in DOMAIN streams'
  BY DEF save_stream, TypeOK
<1> QED
  BY <1>1 DEF TypeOK

LEMMA TopUpTold ==
    ASSUME TypeOK, TypeOK', ProjectionAgrees, NEW id \in DOMAIN streams, NEW amount,
           may_top_up(streams[id], amount, now), save_stream(id, topped_up(streams[id], amount)),
           grants' = grants, published("topped_up", {id})
    PROVE  ProjectionAgrees'
<1>1. Agrees(news("topped_up", topped_up(streams[id], amount), streams[id]),
             topped_up(streams[id], amount))
  BY SavedRecord, NewsOfTopUp DEF Agrees
<1>2. streams[id].status # "Depleted"
  BY DEF may_top_up, is_terminal
<1> QED
  BY <1>1, <1>2, OneStreamTold

LEMMA WithdrawalTold ==
    ASSUME TypeOK, TypeOK', IInv, ProjectionAgrees, NEW id \in DOMAIN streams, NEW amount,
           withdrawable(streams[id], now) > 0,
           save_stream(id, after_withdrawal(streams[id], amount, now)),
           grants' = grants, published("withdrawn", {id})
    PROVE  ProjectionAgrees'
<1>1. streams[id].status # "Depleted"
  BY DepletedIsDry
<1>2. Agrees(news("withdrawn", after_withdrawal(streams[id], amount, now), streams[id]),
             after_withdrawal(streams[id], amount, now))
  BY <1>1, SavedRecord, NewsOfWithdrawal
<1> QED
  BY <1>1, <1>2, OneStreamTold

LEMMA CancellationTold ==
    ASSUME TypeOK, TypeOK', ProjectionAgrees, NEW id \in DOMAIN streams,
           may_cancel(streams[id], now), save_stream(id, cancelled(streams[id], now)),
           grants' = grants, published("cancelled", {id})
    PROVE  ProjectionAgrees'
<1>1. Agrees(news("cancelled", cancelled(streams[id], now), streams[id]),
             cancelled(streams[id], now))
  BY SavedRecord, NewsOfCancellation DEF Agrees
<1>2. streams[id].status # "Depleted"
  BY DEF may_cancel, is_terminal
<1> QED
  BY <1>1, <1>2, OneStreamTold

LEMMA PauseTold ==
    ASSUME TypeOK, TypeOK', ProjectionAgrees, NEW id \in DOMAIN streams,
           ~is_terminal(streams[id]), save_stream(id, paused(streams[id], now)),
           grants' = grants, published("paused", {id})
    PROVE  ProjectionAgrees'
<1>1. Agrees(news("paused", paused(streams[id], now), streams[id]), paused(streams[id], now))
  BY SavedRecord, NewsOfPause DEF Agrees
<1> QED
  BY <1>1, OneStreamTold DEF is_terminal

LEMMA ResumptionTold ==
    ASSUME TypeOK, TypeOK', ProjectionAgrees, NEW id \in DOMAIN streams,
           ~is_terminal(streams[id]), save_stream(id, resumed(streams[id], now)),
           grants' = grants, published("resumed", {id})
    PROVE  ProjectionAgrees'
<1>1. Agrees(news("resumed", resumed(streams[id], now), streams[id]), resumed(streams[id], now))
  BY SavedRecord, NewsOfResumption DEF Agrees
<1> QED
  BY <1>1, OneStreamTold DEF is_terminal

LEMMA TransferTold ==
    ASSUME TypeOK, TypeOK', ProjectionAgrees, NEW id \in DOMAIN streams, NEW a,
           may_transfer(streams[id], a), save_stream(id, transferred(streams[id], a)),
           grants' = grants, published("recipient_transferred", {id})
    PROVE  ProjectionAgrees'
<1>1. Agrees(news("recipient_transferred", transferred(streams[id], a), streams[id]),
             transferred(streams[id], a))
  BY SavedRecord, NewsOfTransfer DEF Agrees
<1>2. streams[id].status # "Depleted"
  BY DEF may_transfer, is_settled
<1> QED
  BY <1>1, <1>2, OneStreamTold

LEMMA CreationTold ==
    ASSUME TypeOK, TypeOK', ProjectionAgrees, Create, published("stream_created", {next_stream_id})
    PROVE  ProjectionAgrees'
<1> DEFINE n == next_stream_id
<1>1. PICK sender \in Addresses, recipient \in Addresses, token \in Tokens, o \in Offers :
          create_stream(sender, recipient, token, o)
  BY DEF Create
<1>2. n \in Nat /\ DOMAIN streams = 0 .. n - 1
  BY DEF TypeOK
<1>3. /\ streams' = [id \in 0 .. n |-> IF id = n THEN created(o, sender, recipient, token)
                                                 ELSE streams[id]]
      /\ grants' = grants
  BY <1>1 DEF create_stream
<1>4. /\ DOMAIN streams' = DOMAIN streams \cup {n} /\ n \notin DOMAIN streams
      /\ streams'[n] = created(o, sender, recipient, token)
      /\ \A id \in DOMAIN streams \ {n} : streams'[id] = streams[id]
  BY <1>2, <1>3
<1>5. streams'[n] \in StreamRecord
  BY <1>4 DEF TypeOK
<1>6. known(n) = [field \in {} |-> None]
  BY <1>4 DEF known, ProjectionAgrees
<1>7. Agrees(news("stream_created", streams'[n], known(n)), streams'[n])
  BY <1>4, <1>5, <1>6, NewsOfCreation DEF Agrees
<1> QED
  BY <1>3, <1>4, <1>7, Published

\* A batch tells of each stream it draws from or moves.
LEMMA BatchTold ==
    ASSUME TypeOK, TypeOK', IInv, ProjectionAgrees, BatchEvents
    PROVE  ProjectionAgrees'
<1>1. \A id \in DOMAIN streams : streams[id] \in StreamRecord
      /\ (id \in DOMAIN streams' => streams'[id] \in StreamRecord)
      /\ (streams[id].status # "Depleted" => known(id) = streams[id])
  BY DEF TypeOK, known, ProjectionAgrees
<1>2. ASSUME NEW ids \in SUBSET DOMAIN streams, NEW a \in Addresses, batch_withdraw(a, ids),
             published("withdrawn", {id \in ids : withdrawable(streams[id], now) > 0})
      PROVE  ProjectionAgrees'
  <2> DEFINE drawn == {id \in ids : withdrawable(streams[id], now) > 0}
  <2>1. /\ DOMAIN streams' = DOMAIN streams \cup drawn /\ grants' = grants
        /\ \A id \in drawn :
              streams'[id] = after_withdrawal(streams[id], withdrawable(streams[id], now), now)
        /\ \A id \in DOMAIN streams \ drawn : streams'[id] = streams[id]
    BY <1>2 DEF batch_withdraw
  <2>2. ASSUME NEW id \in drawn
        PROVE  Agrees(news("withdrawn", streams'[id], known(id)), streams'[id])
    <3>1. streams[id].status # "Depleted"
      BY DepletedIsDry
    <3> QED
      BY <1>1, <2>1, <3>1, NewsOfWithdrawal
  <2> QED
    BY <1>2, <2>1, <2>2, Published
<1>3. ASSUME NEW ids \in SUBSET DOMAIN streams, NEW a \in Addresses,
             batch_transfer_recipient(ids, a), published("recipient_transferred", ids)
      PROVE  ProjectionAgrees'
  <2>1. /\ DOMAIN streams' = DOMAIN streams \cup ids /\ grants' = grants
        /\ \A id \in ids : /\ streams'[id] = transferred(streams[id], a)
                           /\ may_transfer(streams[id], a)
        /\ \A id \in DOMAIN streams \ ids : streams'[id] = streams[id]
    BY <1>3 DEF batch_transfer_recipient
  <2>2. ASSUME NEW id \in ids
        PROVE  Agrees(news("recipient_transferred", streams'[id], known(id)), streams'[id])
    <3>1. streams[id].status # "Depleted"
      BY <2>1 DEF may_transfer, is_settled
    <3> QED
      BY <1>1, <2>1, <3>1, NewsOfTransfer DEF Agrees
  <2> QED
    BY <1>3, <2>1, <2>2, Published
<1> QED
  BY <1>2, <1>3 DEF BatchEvents

\* Grants are told as they are issued and revoked.
LEMMA GrantTold ==
    ASSUME ProjectionAgrees, NEW id, NEW d, GrantCall(id, d)
    PROVE  ProjectionAgrees'
<1>1. UNCHANGED <<streams, projection>>
  BY DEF GrantCall, grant_delegate, revoke_delegate, grants_published
<1>2. projected_grants' = grants'
  <2>1. ASSUME NEW ops, NEW t, grant_delegate(id, d, ops, t),
               grants_published(told([k \in {<<id, d>>} |-> [ops |-> ops, expires_at |-> t]],
                                     projected_grants))
        PROVE  projected_grants' = grants'
    BY <2>1 DEF grant_delegate, grants_published, told, ProjectionAgrees
  <2>2. ASSUME revoke_delegate(id, d),
               grants_published(Restrict(projected_grants, DOMAIN projected_grants \ {<<id, d>>}))
        PROVE  projected_grants' = grants'
    BY <2>2 DEF revoke_delegate, grants_published, ProjectionAgrees
  <2> QED
    BY <2>1, <2>2 DEF GrantCall
<1> QED
  BY <1>1, <1>2 DEF ProjectionAgrees

\* Every step is told.
LEMMA StepTold ==
    ASSUME TypeOK, TypeOK', IInv, ProjectionAgrees, [EventNext]_eventVars
    PROVE  ProjectionAgrees'
<1>1. CASE UNCHANGED eventVars \/ (Tick /\ UNCHANGED <<projection, projected_grants>>)
  BY <1>1 DEF eventVars, vars, Tick, ProjectionAgrees
<1>2. ASSUME NEW id \in DOMAIN streams, AccountingCall(id) PROVE ProjectionAgrees'
  <2>1. ASSUME NEW amount, published("topped_up", {id}),
               top_up(id, amount) \/ \E d \in Delegates : delegate_top_up(id, d, amount)
        PROVE  ProjectionAgrees'
    BY <2>1, TopUpTold DEF top_up, delegate_top_up
  <2>2. ASSUME NEW request, published("withdrawn", {id}),
               withdraw(id, request) \/ \E d \in Delegates : delegate_withdraw(id, d, request)
        PROVE  ProjectionAgrees'
    BY <2>2, WithdrawalTold DEF withdraw, delegate_withdraw, may_withdraw
  <2>3. CASE /\ cancel(id) \/ \E d \in Delegates : delegate_cancel(id, d)
             /\ published("cancelled", {id})
    BY <2>3, CancellationTold DEF cancel, delegate_cancel
  <2> QED
    BY <1>2, <2>1, <2>2, <2>3 DEF AccountingCall
<1>3. ASSUME NEW id \in DOMAIN streams, PauseCall(id) PROVE ProjectionAgrees'
  <2>1. CASE /\ pause(id) \/ \E d \in Delegates : delegate_pause(id, d)
             /\ published("paused", {id})
    BY <2>1, PauseTold DEF pause, delegate_pause, may_pause, may_delegate_pause
  <2>2. CASE /\ resume(id) \/ \E d \in Delegates : delegate_resume(id, d)
             /\ published("resumed", {id})
    BY <2>2, ResumptionTold DEF resume, delegate_resume, may_resume
  <2> QED
    BY <1>3, <2>1, <2>2 DEF PauseCall
<1>4. ASSUME NEW id \in DOMAIN streams, TransferCall(id) PROVE ProjectionAgrees'
  BY <1>4, TransferTold DEF TransferCall, transfer_recipient, delegate_transfer_recipient
<1> QED
  BY <1>1, <1>2, <1>3, <1>4, CreationTold, BatchTold, GrantTold DEF EventNext

\* Who reads nothing but the events knows every stream and every grant.
THEOREM ProjectionAlwaysAgrees == EventSpec => []ProjectionAgrees
<1>1. EventInit => ProjectionAgrees
  BY DEF EventInit, Init, ProjectionAgrees
<1>2. TypeOK /\ TypeOK' /\ IInv /\ ProjectionAgrees /\ [EventNext]_eventVars => ProjectionAgrees'
  BY StepTold
<1> QED
  BY <1>1, <1>2, EventsImplementStream, TypeCorrect, InvariantHolds, PTL DEF EventSpec

-----------------------------------------------------------------------------
(* Rent.  A call leaves every stream it touches with the life its schedule *)
(* asks for; a stream it does not touch keeps its schedule and its life.   *)

\* As many ledgers as seconds_to_ledgers says cover the seconds asked for, from
\* whatever second of the present ledger on.
LEMMA LedgersCover ==
    ASSUME NEW at \in Nat, NEW seconds \in Nat, NEW n \in Nat \ {0}, NEW until \in Nat,
           until <= at + seconds
    PROVE  until \div n <= at \div n + (seconds + n - 1) \div n
<1> DEFINE q == at \div n
           c == (seconds + n - 1) \div n
           u == until \div n
<1>1. q \in Nat /\ n * q <= at /\ at < n * q + n
  OBVIOUS
<1>2. c \in Nat /\ seconds <= n * c
  OBVIOUS
<1>3. u \in Nat /\ n * u <= until
  OBVIOUS
<1> HIDE DEF q, c, u
<1>4. n * u < n * (q + c + 1)
  <2>1. n * (q + c + 1) = n * q + n * c + n
    BY <1>1, <1>2
  <2>2. n * u \in Int /\ n * q \in Int /\ n * c \in Int
    BY <1>1, <1>2, <1>3
  <2> QED
    BY <2>1, <2>2, <1>1, <1>2, <1>3
<1>5. u < q + c + 1
  <2> SUFFICES ASSUME u >= q + c + 1 PROVE FALSE
    BY <1>1, <1>2, <1>3
  <2>1. PICK d \in Nat : u = q + c + 1 + d
    BY <1>1, <1>2, <1>3
  <2>2. n * u = n * (q + c + 1) + n * d /\ n * d \in Nat /\ n * (q + c + 1) \in Nat
    BY <2>1, <1>1, <1>2
  <2> QED
    BY <2>2, <1>4
<1> QED
  BY <1>1, <1>2, <1>3, <1>5 DEF q, c, u

\* How long a stream looked at at the instant at is due to be readable.
due_until(s, at) ==
    lesser((effective_end(s) + TTL_BUFFER_SECONDS) \div SECONDS_PER_LEDGER,
           at \div SECONDS_PER_LEDGER + max_entry_ttl)

LEMMA RentConstants ==
    /\ U64Max \in Nat /\ SECONDS_PER_LEDGER \in Nat \ {0} /\ TTL_BUFFER_SECONDS \in Nat
    /\ max_entry_ttl \in Nat /\ max_entry_ttl <= U64Max \div SECONDS_PER_LEDGER
    /\ min_persistent_ttl \in Nat \ {0}
BY AccrualAssumption, RentAssumption, StreamRentAssumption

LEMMA EndIsNatural ==
    ASSUME NEW s \in StreamRecord, now \in Nat
    PROVE  effective_end(s) \in Nat
<1>1. /\ s.end_time \in Nat /\ s.paused_total \in Nat /\ U64Max \in Nat
      /\ s.paused_at # None => s.paused_at \in Nat
  BY RentConstants DEF StreamRecord
<1> QED
  BY <1>1 DEF effective_end, saturated, saturating_sub

\* The target is long enough, saturated or not: a saturated one exceeds the
\* network's maximum.
LEMMA TargetCovers ==
    ASSUME NEW s \in StreamRecord, now \in Nat
    PROVE  /\ ttl_target_ledgers(s) \in Nat
           /\ ledger \in Nat /\ due_until(s, now) \in Nat
           /\ ledger + ttl_target_ledgers(s) >= due_until(s, now)
<1> DEFINE n == SECONDS_PER_LEDGER
           E == effective_end(s)
           rem == saturating_sub(E, now)
           seconds == rem + TTL_BUFFER_SECONDS
           c == seconds_to_ledgers(saturated(seconds))
           until == E + TTL_BUFFER_SECONDS
<1>1. E \in Nat /\ rem \in Nat /\ seconds \in Nat /\ until \in Nat /\ until <= now + seconds
  BY EndIsNatural, RentConstants DEF saturating_sub
<1>2. MIN_STREAM_TTL_LEDGERS \in Nat
  BY RentConstants DEF MIN_STREAM_TTL_LEDGERS
<1>3. ledger \in Nat /\ until \div n \in Nat /\ ledger = now \div n
  BY <1>1, RentConstants DEF ledger
<1>4. c \in Nat /\ (c < max_entry_ttl => c = (seconds + n - 1) \div n)
  <2>1. CASE seconds + n - 1 <= U64Max
    <3>1. saturated(seconds) = seconds /\ saturated(seconds + n - 1) = seconds + n - 1
      BY <2>1, <1>1, RentConstants DEF saturated
    <3> QED
      BY <3>1, <1>1, RentConstants DEF seconds_to_ledgers
  <2>2. CASE ~(seconds + n - 1 <= U64Max)
    <3>1. saturated(saturated(seconds) + n - 1) = U64Max
      BY <2>2, <1>1, RentConstants DEF saturated
    <3> QED
      BY <3>1, <1>1, RentConstants DEF seconds_to_ledgers
  <2> QED BY <2>1, <2>2
<1>5. until \div n <= ledger + (seconds + n - 1) \div n
  BY <1>1, <1>3, RentConstants, LedgersCover
<1>6. ttl_target_ledgers(s) =
          LET floored == IF c >= MIN_STREAM_TTL_LEDGERS THEN c ELSE MIN_STREAM_TTL_LEDGERS
          IN  IF floored <= max_entry_ttl THEN floored ELSE max_entry_ttl
  BY <1>2, <1>4, RentConstants DEF ttl_target_ledgers, lesser, greater
<1>7. due_until(s, now) = IF until \div n <= ledger + max_entry_ttl THEN until \div n
                          ELSE ledger + max_entry_ttl
  BY <1>3, RentConstants DEF due_until, lesser
<1> HIDE DEF c, until, seconds, n
<1> QED
  BY <1>2, <1>3, <1>4, <1>5, <1>6, <1>7, RentConstants

\* Every entry has a life, and every stream was looked at or restored; what a
\* stream was looked at for holds.
RentInv ==
    /\ DOMAIN live_until = {Instance} \cup {StreamKey(id) : id \in DOMAIN streams}
    /\ \A k \in DOMAIN live_until : live_until[k] \in Nat
    /\ DOMAIN funded_at = DOMAIN streams
    /\ \A id \in DOMAIN streams : funded_at[id] \in Nat \cup {None}
    /\ ReadableToItsEnd

LEMMA Keys ==
    /\ \A id : StreamKey(id) # Instance /\ StreamKey(id)[2] = id
    /\ \A i, j : StreamKey(i) = StreamKey(j) => i = j
BY DEF StreamKey, Instance

\* A renewal never shortens a life, and gives the target.
LEMMA Extending ==
    ASSUME NEW until \in Nat, NEW at \in Nat, NEW target \in Nat
    PROVE  /\ extended_until(until, at, target, target) \in Nat
           /\ extended_until(until, at, target, target) >= at + target
BY DEF extended_until

\* A stream that is renewed is due no more than it has.
LEMMA Renewing ==
    ASSUME TypeOK, TypeOK', RentInv, now' = now, NEW id \in DOMAIN streams'
    PROVE  /\ stream_renewed(live_until, id) \in Nat
           /\ stream_renewed(live_until, id) >= due_until(streams'[id], now)
<1>1. now \in Nat /\ ledger \in Nat /\ streams'[id] \in StreamRecord
  <2>1. now \in Nat
    BY AccrualAssumption DEF TypeOK
  <2>2. ledger \in Nat
    BY <2>1, RentConstants DEF ledger
  <2> QED
    BY <2>1, <2>2 DEF TypeOK
<1> DEFINE loaded == IF id \in DOMAIN streams
                     THEN extended(live_until, StreamKey(id), ttl_target_ledgers(streams[id]))
                     ELSE written(live_until, StreamKey(id))
           target == ttl_target_ledgers(streams'[id])
<1>2. target \in Nat /\ ledger + target >= due_until(streams'[id], now)
      /\ due_until(streams'[id], now) \in Nat
  BY <1>1, TargetCovers
<1>3. written(live_until, StreamKey(id)) \in Nat
  BY <1>1, RentConstants DEF written, created_until, RentInv
<1>4. loaded \in Nat
  <2>1. CASE id \in DOMAIN streams
    <3>1. ttl_target_ledgers(streams[id]) \in Nat
      BY <2>1, <1>1, TargetCovers DEF TypeOK
    <3> QED
      BY <2>1, <3>1, <1>1, <1>3, Extending DEF extended
  <2> QED
    BY <2>1, <1>3
<1>5. stream_renewed(live_until, id) = extended_until(loaded, ledger, target, target)
  BY DEF stream_renewed
<1> HIDE DEF loaded, target
<1> QED
  BY <1>1, <1>2, <1>4, <1>5, Extending

\* A call that renews the streams it touches, and leaves the others as they are.
LEMMA RenewalKeeps ==
    ASSUME TypeOK, TypeOK', RentInv, now' = now, NEW ids, NEW instance, renewed(ids, instance),
           DOMAIN streams \subseteq DOMAIN streams',
           \A id \in DOMAIN streams' : id \notin ids => id \in DOMAIN streams
                                                        /\ streams'[id] = streams[id]
    PROVE  RentInv'
<1>1. now \in Nat /\ ledger \in Nat
  <2>1. now \in Nat
    BY AccrualAssumption DEF TypeOK
  <2> QED
    BY <2>1, RentConstants DEF ledger
<1>2. /\ DOMAIN live_until' = {Instance} \cup {StreamKey(id) : id \in DOMAIN streams'}
      /\ DOMAIN funded_at' = DOMAIN streams'
  BY DEF renewed
<1>3. ASSUME NEW id \in DOMAIN streams'
      PROVE  /\ live_until'[StreamKey(id)] = IF id \in ids THEN stream_renewed(live_until, id)
                                             ELSE live_until[StreamKey(id)]
             /\ funded_at'[id] = IF id \in ids THEN now ELSE funded_at[id]
  BY Keys DEF renewed
<1>4. live_until'[Instance] \in Nat
  <2>1. live_until[Instance] \in Nat
    BY DEF RentInv
  <2>2. extended(live_until, Instance, max_entry_ttl) \in Nat
    BY <1>1, <2>1, RentConstants, Extending DEF extended, written, RentInv
  <2>3. live_until'[Instance] = IF instance THEN extended(live_until, Instance, max_entry_ttl)
                                ELSE live_until[Instance]
    BY DEF renewed
  <2> QED
    BY <2>1, <2>2, <2>3
<1>5. ASSUME NEW id \in DOMAIN streams'
      PROVE  /\ live_until'[StreamKey(id)] \in Nat /\ funded_at'[id] \in Nat \cup {None}
             /\ streams'[id].status # "Paused" /\ funded_at'[id] # None =>
                    live_until'[StreamKey(id)] >= due_until(streams'[id], funded_at'[id])
  <2>1. CASE id \in ids
    BY <2>1, <1>1, <1>3, Renewing
  <2>2. CASE id \notin ids
    <3>1. id \in DOMAIN streams /\ streams'[id] = streams[id] /\ StreamKey(id) \in DOMAIN live_until
      BY <2>2 DEF RentInv
    <3> QED
      BY <2>2, <3>1, <1>3 DEF RentInv, ReadableToItsEnd, due_until
  <2> QED BY <2>1, <2>2
<1>6. \A k \in DOMAIN live_until' : live_until'[k] \in Nat
  BY <1>2, <1>4, <1>5
<1>7. ASSUME NEW id \in DOMAIN streams' PROVE effective_end(streams[id])' = effective_end(streams'[id])
  BY DEF effective_end
<1>8. ReadableToItsEnd'
  BY <1>5, <1>7 DEF ReadableToItsEnd, due_until
<1> QED
  BY <1>2, <1>5, <1>6, <1>8 DEF RentInv

\* Time that passes moves the end of paused streams only.
LEMMA TickKeeps ==
    ASSUME TypeOK, IInv, RentInv, Tick, UNCHANGED <<live_until, funded_at>>
    PROVE  RentInv'
<1>1. ASSUME NEW id \in DOMAIN streams, streams[id].status # "Paused"
      PROVE  effective_end(streams[id])' = effective_end(streams'[id])
  BY <1>1 DEF IInv, StreamInv, effective_end, Tick
<1>2. streams' = streams
  BY DEF Tick
<1>3. ReadableToItsEnd'
  BY <1>1, <1>2 DEF RentInv, ReadableToItsEnd
<1> QED
  BY <1>2, <1>3 DEF RentInv

\* What is restored is due nothing until it is looked at.
LEMMA RestorationKeeps ==
    ASSUME TypeOK, RentInv, NEW k, restored(k)
    PROVE  RentInv'
<1>1. now \in Nat /\ ledger \in Nat /\ created_until(ledger) \in Nat
  <2>1. now \in Nat
    BY AccrualAssumption DEF TypeOK
  <2>2. ledger \in Nat
    BY <2>1, RentConstants DEF ledger
  <2> QED
    BY <2>1, <2>2, RentConstants DEF created_until
<1>2. streams' = streams /\ now' = now
  BY DEF restored, vars
<1>3. /\ DOMAIN live_until' = DOMAIN live_until /\ DOMAIN funded_at' = DOMAIN funded_at
      /\ \A j \in DOMAIN live_until : live_until'[j] \in Nat
      /\ \A id \in DOMAIN streams : funded_at'[id] \in Nat \cup {None}
  BY <1>1 DEF restored, RentInv
<1>4. ASSUME NEW id \in DOMAIN streams, funded_at'[id] # None
      PROVE  /\ funded_at'[id] = funded_at[id]
             /\ live_until'[StreamKey(id)] = live_until[StreamKey(id)]
  BY <1>4 DEF restored, RentInv
<1>5. \A id \in DOMAIN streams : effective_end(streams[id])' = effective_end(streams[id])
  BY <1>2 DEF effective_end
<1>6. ReadableToItsEnd'
  BY <1>2, <1>4, <1>5 DEF RentInv, ReadableToItsEnd
<1> QED
  BY <1>2, <1>3, <1>6 DEF RentInv

-----------------------------------------------------------------------------
(* Which streams a call touches.                                           *)

Untouched(ids) ==
    /\ now' = now /\ DOMAIN streams' = DOMAIN streams
    /\ \A id \in DOMAIN streams : id \notin ids => streams'[id] = streams[id]

LEMMA StreamCallTouches ==
    ASSUME TypeOK, NEW id \in DOMAIN streams, StreamCall(id)
    PROVE  Untouched({id})
<1>1. now' = now /\ \E t : streams' = [streams EXCEPT ![id] = t]
  BY DEF StreamCall, top_up, withdraw, cancel, pause, resume, transfer_recipient, save_stream
<1> QED
  BY <1>1 DEF Untouched

LEMMA DelegateCallTouches ==
    ASSUME TypeOK, NEW id \in DOMAIN streams, NEW d \in Delegates, DelegateCall(id, d)
    PROVE  Untouched({id})
<1>1. now' = now /\ (streams' = streams \/ \E t : streams' = [streams EXCEPT ![id] = t])
  BY DEF DelegateCall, grant_delegate, revoke_delegate, delegate_withdraw, delegate_cancel,
         delegate_pause, delegate_resume, delegate_top_up, delegate_transfer_recipient, save_stream
<1> QED
  BY <1>1 DEF Untouched

LEMMA BatchCallTouches ==
    ASSUME TypeOK, NEW ids, NEW a, batch_withdraw(a, ids) \/ batch_transfer_recipient(ids, a)
    PROVE  Untouched(ids)
BY DEF batch_withdraw, batch_transfer_recipient, Untouched

\* Every step of the contract with its rent is one of the contract, or none.
LEMMA RentIsStream ==
    ASSUME [RentNext]_rentVars
    PROVE  [Next]_vars
<1>1. CASE UNCHANGED rentVars
  BY <1>1 DEF rentVars
<1>2. ASSUME NEW id \in DOMAIN streams, RentStreamCall(id) PROVE Next
  BY <1>2 DEF RentStreamCall, Next
<1>3. ASSUME NEW id \in DOMAIN streams, NEW d \in Delegates, RentDelegateCall(id, d) PROVE Next
  BY <1>3 DEF RentDelegateCall, Next
<1>4. ASSUME NEW ids \in SUBSET DOMAIN streams, NEW a \in Addresses,
             RentBatchWithdraw(a, ids) \/ RentBatchTransfer(ids, a)
      PROVE  Next
  BY <1>4 DEF RentBatchWithdraw, RentBatchTransfer, Next, BatchCall
<1>5. ASSUME NEW id, EmptyGrant(id) \/ extend_stream_ttl(id) \/ RestoreStream(id)
      PROVE  UNCHANGED vars
  BY <1>5 DEF EmptyGrant, extend_stream_ttl, RestoreStream, restored
<1>6. ASSUME NEW ids, batch_extend_ttl(ids) PROVE UNCHANGED vars
  BY <1>6 DEF batch_extend_ttl
<1>7. CASE RestoreInstance
  BY <1>7 DEF RestoreInstance, restored
<1> QED
  BY <1>1, <1>2, <1>3, <1>4, <1>5, <1>6, <1>7 DEF RentNext, RentCreate, Next

\* The contract on a ledger that archives implements the contract on one that
\* does not: archival delays calls and changes none.
THEOREM RentImplementsStream == RentSpec => Spec
<1>1. RentInit => Init
  BY DEF RentInit
<1> QED
  BY <1>1, RentIsStream, PTL DEF RentSpec, Spec

\* Every step keeps RentInv.
LEMMA RentStep ==
    ASSUME TypeOK, TypeOK', IInv, RentInv, [RentNext]_rentVars
    PROVE  RentInv'
<1>1. CASE UNCHANGED rentVars
  <2>1. now' = now /\ streams' = streams /\ live_until' = live_until /\ funded_at' = funded_at
    BY <1>1 DEF rentVars, vars
  <2>2. \A id \in DOMAIN streams : effective_end(streams[id])' = effective_end(streams[id])
    BY <2>1 DEF effective_end
  <2>3. ReadableToItsEnd'
    BY <2>1, <2>2 DEF RentInv, ReadableToItsEnd
  <2> QED
    BY <2>1, <2>3 DEF RentInv
<1>2. ASSUME NEW ids, Untouched(ids), NEW instance, renewed(ids, instance) PROVE RentInv'
  BY <1>2, RenewalKeeps DEF Untouched
<1>3. ASSUME UNCHANGED vars PROVE \A ids : Untouched(ids)
  BY <1>3 DEF vars, Untouched
<1>4. CASE RentCreate
  <2>1. now' = now /\ DOMAIN streams \subseteq DOMAIN streams'
        /\ \A id \in DOMAIN streams : streams'[id] = streams[id]
    <3>1. next_stream_id \in Nat /\ DOMAIN streams = 0 .. next_stream_id - 1
      BY DEF TypeOK
    <3> QED
      BY <1>4, <3>1 DEF RentCreate, Create, create_stream
  <2> QED
    BY <1>4, <2>1, RenewalKeeps DEF RentCreate
<1>5. ASSUME NEW id \in DOMAIN streams, RentStreamCall(id) PROVE RentInv'
  BY <1>5, <1>2, StreamCallTouches DEF RentStreamCall
<1>6. ASSUME NEW id \in DOMAIN streams, NEW d \in Delegates, RentDelegateCall(id, d) PROVE RentInv'
  BY <1>6, <1>2, DelegateCallTouches DEF RentDelegateCall
<1>7. ASSUME NEW ids, NEW a, RentBatchWithdraw(a, ids) \/ RentBatchTransfer(ids, a) PROVE RentInv'
  BY <1>7, <1>2, BatchCallTouches DEF RentBatchWithdraw, RentBatchTransfer
<1>8. ASSUME NEW id, EmptyGrant(id) \/ extend_stream_ttl(id) PROVE RentInv'
  BY <1>8, <1>2, <1>3 DEF EmptyGrant, extend_stream_ttl
<1>9. ASSUME NEW ids, batch_extend_ttl(ids) PROVE RentInv'
  BY <1>9, <1>2, <1>3 DEF batch_extend_ttl
<1>10. CASE RestoreInstance \/ \E id : RestoreStream(id)
  BY <1>10, RestorationKeeps DEF RestoreInstance, RestoreStream
<1> QED
  BY <1>1, <1>4, <1>5, <1>6, <1>7, <1>8, <1>9, <1>10, TickKeeps DEF RentNext

\* Once touched, a stream stays readable to the end of its schedule and the
\* keeper's buffer after it, or for as long as the network allows, whatever
\* the calls made meanwhile and however ledgers and seconds divide.
THEOREM AlwaysReadableToItsEnd == RentSpec => []ReadableToItsEnd
<1>1. RentInit => RentInv
  <2> SUFFICES ASSUME RentInit PROVE RentInv
    OBVIOUS
  <2>1. DOMAIN streams = {} /\ now = 0 /\ DOMAIN funded_at = {}
        /\ live_until = [k \in {Instance} |-> created_until(ledger)]
    BY DEF RentInit, Init
  <2>2. created_until(ledger) \in Nat
    BY <2>1, RentConstants DEF created_until, ledger
  <2> QED
    BY <2>1, <2>2 DEF RentInv, ReadableToItsEnd
<1>2. TypeOK /\ TypeOK' /\ IInv /\ RentInv /\ [RentNext]_rentVars => RentInv'
  BY RentStep
<1>3. RentInv => ReadableToItsEnd
  BY DEF RentInv
<1> QED
  BY <1>1, <1>2, <1>3, RentImplementsStream, TypeCorrect, InvariantHolds, PTL DEF RentSpec
===============================================================================
