------------------------------ MODULE Deployment ------------------------------
(***************************************************************************)
(* The stream contract with the factory in front of it and the claim token *)
(* beside it.  The stream contract knows neither: anybody may create a     *)
(* stream directly, and change its recipient without the token.            *)
(*                                                                         *)
(* The admin may point the factory at another stream contract, one that    *)
(* does call stream_terminated; the stream contract of this repository     *)
(* never does.                                                             *)
(***************************************************************************)
EXTENDS FactoryProps

CONSTANTS
    Contract,       \* the stream contract of this repository
    Elsewhere,      \* the other stream contract
    Tokens, Supply, Offers, Amounts, Delegates, GrantOps, Expiries,
    MaxBatchSize, U64Max, I128Max,
                    \* see Stream.tla
    MaxStreams, MaxTime,
    MaxElsewhere,   \* bound: creations and stray callbacks of Elsewhere
    MaxTokens,      \* bound: claim tokens minted
    MaxActivity     \* bound: all of these together, see activity

ASSUME DeploymentAssumption ==
    /\ StreamContracts = {Contract, Elsewhere} /\ Contract # Elsewhere
    /\ FirstStreamContract = Contract
    /\ Offers \subseteq FactoryOffers

VARIABLES
    next_stream_id, streams, grants, balance,  \* of the stream contract
    owner, nft_balance, supply,                \* of the claim token
    admitted,    \* history: streams of this contract the factory admitted
    elsewhere,   \* history: streams admitted on Elsewhere and not yet over
    stray        \* history: callbacks of Elsewhere for streams not admitted

Ids == 0 .. MaxStreams - 1

S == INSTANCE Stream WITH now <- ledger

N == INSTANCE StreamNft

vars == <<ledger, next_stream_id, streams, grants, balance>>
nftVars == <<owner, nft_balance, supply>>
history == <<admitted, elsewhere, stray>>
deploymentVars == <<vars, factoryVars, nftVars, history>>

DeploymentInit ==
    /\ S!Init /\ FactoryInit /\ N!NftInit
    /\ admitted = {} /\ elsewhere = 0 /\ stray = 0

\* What is not as at first: the parts are bounded together, so that each meets
\* the others without every combination of all.
activity ==
    Cardinality(settings_changed) + Cardinality(DOMAIN buckets)
        + supply + elsewhere + stray
        + (IF pending_admin = None THEN 0 ELSE 1)

busy_within_bound == activity' <= MaxActivity

-----------------------------------------------------------------------------
\* A call of the stream contract itself, or the clock.
StreamStep ==
    /\ S!Next
    /\ UNCHANGED <<factoryVars, nftVars, history>>

AdminStep ==
    /\ AdminCall
    /\ UNCHANGED <<vars, nftVars, history>>
    /\ busy_within_bound

RecordCreation(sender) ==
    /\ record_creation(sender)
    /\ UNCHANGED <<vars, nftVars, history>>
    /\ busy_within_bound

\* The factory's create_stream calls the stream contract's with the same
\* arguments; either both take effect or neither.
FactoryCreate(sender, recipient, token, o) ==
    /\ factory.stream_contract = Contract
    /\ create_stream(sender, recipient, o)
    /\ S!create_stream(sender, recipient, token, o)
    /\ admitted' = admitted \cup {next_stream_id}
    /\ UNCHANGED <<nftVars, elsewhere, stray>>
    /\ busy_within_bound

FactoryCreateElsewhere(sender, recipient, o) ==
    /\ factory.stream_contract = Elsewhere
    /\ elsewhere + stray < MaxElsewhere
    /\ create_stream(sender, recipient, o)
    /\ elsewhere' = elsewhere + 1
    /\ UNCHANGED <<vars, nftVars, admitted, stray>>
    /\ busy_within_bound

\* A stream elsewhere is over: the callback releases its slot, unless the
\* factory has been pointed away.
EndElsewhere ==
    /\ elsewhere > 0
    /\ \/ stream_terminated(Elsewhere)
       \/ factory.stream_contract # Elsewhere /\ UNCHANGED factoryVars
    /\ elsewhere' = elsewhere - 1
    /\ UNCHANGED <<vars, nftVars, admitted, stray>>

\* The callback does not tell which stream it is for: a contract that makes
\* it for every stream releases slots of others.
StrayCallback ==
    /\ elsewhere + stray < MaxElsewhere
    /\ stream_terminated(Elsewhere)
    /\ stray' = stray + 1
    /\ UNCHANGED <<vars, nftVars, admitted, elsewhere>>
    /\ busy_within_bound

Mint(caller, id) ==
    /\ supply < MaxTokens
    /\ N!mint(caller, id)
    /\ UNCHANGED <<vars, factoryVars, history>>
    /\ busy_within_bound

\* Mutant: a stream that refuses is taken for one that accepts.
TransferTokenAlone(id, to) ==
    /\ N!transfer(id, to)
    /\ UNCHANGED <<vars, factoryVars, history>>

\* Authorized by the token's owner and, in transfer_recipient, by the stream's
\* sender; the stream's recipient is not asked.
TransferToken(id, to) ==
    /\ id \in DOMAIN streams
    /\ S!transfer_recipient(id, to)
    /\ N!transfer(id, to)
    /\ UNCHANGED <<factoryVars, history>>

DeploymentNext ==
    \/ StreamStep
    \/ AdminStep
    \/ \E a \in Addresses : RecordCreation(a)
    \/ \E a, b \in Addresses, o \in Offers :
          \/ FactoryCreateElsewhere(a, b, o)
          \/ \E tok \in Tokens : FactoryCreate(a, b, tok, o)
    \/ EndElsewhere
    \/ StrayCallback
    \/ \E a \in Addresses, id \in Ids : Mint(a, id) \/ TransferToken(id, a)

DeploymentSpec == DeploymentInit /\ [][DeploymentNext]_deploymentVars

-----------------------------------------------------------------------------
\* Every part keeps its widths, and the token's counters count its tokens,
\* whoever sells to whom, oneself included.
DeploymentTypeOK ==
    /\ FactoryTypeOK
    /\ owner \in [DOMAIN owner -> Addresses] /\ DOMAIN owner \subseteq Ids
    /\ DOMAIN nft_balance \subseteq Addresses
    /\ \A a \in DOMAIN nft_balance : nft_balance[a] \in Nat \ {0}
    /\ supply = Cardinality(DOMAIN owner)
    /\ \A a \in Addresses :
          N!balance_of(nft_balance, a) = Cardinality({id \in DOMAIN owner : owner[id] = a})

live == {id \in admitted : ~S!is_terminal(streams[id])}

\* No stream the factory admitted is ever without its slot: neither a change
\* of the stream contract, nor a callback of the contract pointed away from,
\* frees a slot whose stream still runs.  A contract that calls back for
\* streams the factory never saw frees one each time.
SlotsCoverLiveStreams ==
    Cardinality(live) + elsewhere <= factory.active_streams + stray

\* When the factory admits a stream there are, with it, at most
\* max_active_streams of its streams running.
AdmissionKeepsCapacity ==
    [][ admitted' # admitted \/ elsewhere' > elsewhere =>
            Cardinality(live') + elsewhere' <= factory.max_active_streams + stray
      ]_deploymentVars

\* The stream contract makes no callback: what was admitted to it holds its
\* slot for good, running or over, paid out or cancelled.  Whichever contracts
\* the factory is pointed at meanwhile, it admits max_active_streams streams to
\* this one in its whole life, and no more.
AdmissionsAreForLife ==
    [][ admitted' # admitted \/ elsewhere' > elsewhere =>
            Cardinality(admitted') + elsewhere' <= factory.max_active_streams + stray
      ]_deploymentVars

\* A token changes hands only together with the claim: after the step its new
\* owner is the stream's recipient, also where the old owner was not.
ClaimFollowsToken ==
    [][ \A id \in DOMAIN owner :
            owner'[id] # owner[id] =>
                /\ id \in DOMAIN streams /\ owner'[id] = streams'[id].recipient
                /\ streams'[id].recipient # streams[id].recipient ]_deploymentVars
===============================================================================
