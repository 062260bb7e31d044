-------------------------- MODULE EscrowFundingHook --------------------------
(***************************************************************************)
(* The cross-chain funding hook (contracts/src/EscrowFundingHook.sol)      *)
(* composed with the escrow it funds.  A buyer burns USDC on another chain *)
(* with the escrow terms as hook data; once the burn is attested anyone    *)
(* may relay the message, which mints the USDC to the hook and funds the   *)
(* escrow in one transaction.  The owner's valves take the mint and the    *)
(* funding apart when the joint transaction can only revert.               *)
(***************************************************************************)
EXTENDS VerdiktEscrow

CONSTANTS
  HookAddress,
  HookOwner,       \* the constructor's _owner
  Messages,        \* the CCTP messages Iris has attested, minting to the hook
  RescueTo,        \* the addresses the owner rescues USDC to
  AdminFallbackTtl \* ADMIN_FALLBACK_TTL

VARIABLES
  hookOwner,
  message          \* what became of each message: "attested", then "funded" or "minted"

hookVars == <<hookOwner, message>>
allVars == <<vars, hookVars>>

(* The message says what it mints (the burn less the transfer's fee) and   *)
(* carries the escrow terms; `short' ones carry too few bytes.             *)
ASSUME MessagesAssumption ==
  /\ {HookAddress, HookOwner} \cup RescueTo \subseteq Address
  /\ HookAddress \notin Senders \cup {EscrowAddress}
  /\ AdminFallbackTtl \in Nat
  /\ \A m \in Messages :
       /\ m.minted \in Nat /\ m.fee \in Nat /\ m.ttl \in Nat /\ m.short \in BOOLEAN
       /\ m.workId \in WorkIds /\ {m.payer, m.worker} \subseteq Address /\ m.routes \in Routes

HookInit ==
  /\ Init
  /\ hookOwner = HookOwner
  /\ message = [m \in Messages |-> "attested"]

(* Mutant: it funds with the whole balance of the hook.                    *)
MintAndFundBalance(m) ==
  LET amount == usdc[HookAddress] + m.minted
  IN /\ ~m.short
     /\ message[m] = "attested"
     /\ hook = HookAddress
     /\ Fundable(m.workId, m.payer, m.worker, amount, m.fee, m.ttl)
     /\ Record(m.workId, m.payer, m.worker, amount, m.fee, m.ttl, m.routes)
     /\ usdc' = [usdc EXCEPT ![EscrowAddress] = @ + amount, ![HookAddress] = 0]
     /\ message' = [message EXCEPT ![m] = "funded"]
     /\ UNCHANGED <<roles, redeemed, payout, world, hookOwner>>

(* mintAndFund: receiveMessage mints to the hook, and the measured balance *)
(* delta, not the message, is what it approves and funds with.  A revert   *)
(* of fundCrossChain takes the mint back with it.                          *)
MintAndFund(m) ==
  /\ ~m.short
  /\ message[m] = "attested"
  /\ m.minted > 0
  /\ hook = HookAddress
  /\ Fundable(m.workId, m.payer, m.worker, m.minted, m.fee, m.ttl)
  /\ Record(m.workId, m.payer, m.worker, m.minted, m.fee, m.ttl, m.routes)
  /\ usdc' = [usdc EXCEPT ![EscrowAddress] = @ + m.minted]
  /\ message' = [message EXCEPT ![m] = "funded"]
  /\ UNCHANGED <<roles, redeemed, payout, world, hookOwner>>

AdminMint(sender, m) ==
  /\ sender = hookOwner
  /\ message[m] = "attested"
  /\ usdc' = [usdc EXCEPT ![HookAddress] = @ + m.minted]
  /\ message' = [message EXCEPT ![m] = "minted"]
  /\ UNCHANGED <<escrows, totalEscrowed, roles, redeemed, payout, world, hookOwner>>

AdminFundFromBalance(sender, w, payer, worker, amount) ==
  /\ sender = hookOwner
  /\ amount > 0 /\ amount <= usdc[HookAddress]
  /\ FundCrossChain(HookAddress, w, payer, worker, amount, 0, AdminFallbackTtl, LocalRoutes)
  /\ UNCHANGED hookVars

Rescue(sender, to) ==
  /\ sender = hookOwner /\ to # ZeroAddress
  /\ usdc[HookAddress] > 0
  /\ usdc' = Transfer(usdc, HookAddress, to, usdc[HookAddress])
  /\ UNCHANGED <<escrows, totalEscrowed, roles, redeemed, payout, world, hookVars>>

TransferOwnership(sender, new) ==
  /\ sender = hookOwner /\ new # ZeroAddress
  /\ hookOwner' = new
  /\ UNCHANGED <<vars, message>>

(* USDC sent straight to the hook.                                         *)
StrayToHook(from, amount) ==
  /\ amount <= usdc[from]
  /\ usdc' = Transfer(usdc, from, HookAddress, amount)
  /\ UNCHANGED <<escrows, totalEscrowed, roles, redeemed, payout, world, hookVars>>

Valves(sender) ==
  \/ \E m \in Messages : AdminMint(sender, m)
  \/ \E w \in WorkIds, payer \in Parties, worker \in Parties, amount \in Amounts :
       AdminFundFromBalance(sender, w, payer, worker, amount)
  \/ \E to \in RescueTo : Rescue(sender, to)
  \/ \E new \in Appointees : TransferOwnership(sender, new)

HookNext ==
  \/ \E m \in Messages : MintAndFund(m)
  \/ \E sender \in Senders : Valves(sender)
  \/ \E from \in Senders, amount \in StrayAmounts : StrayToHook(from, amount)
  \/ Next /\ UNCHANGED hookVars

HookSpec == HookInit /\ [][HookNext]_allVars
------------------------------------------------------------------------------
(* A message relayed by anybody funds the escrow its payer committed to,   *)
(* with exactly what was minted, whatever else sat in the hook: the escrow *)
(* is there with those terms as soon as the CCTP nonce is consumed, so no  *)
(* mint is ever left behind by a funding that failed.                      *)
RelayedAsCommitted ==
  \A m \in Messages : message[m] = "funded" =>
    LET e == escrows[m.workId]
    IN /\ e.status # "EMPTY"
       /\ <<e.payer, e.worker, e.amount, e.fee, e.routes>>
            = <<m.payer, m.worker, m.minted, m.fee, m.routes>>
       /\ e.deadline <= now + m.ttl

(* USDC leaves the hook into an escrow recorded for it in the same step, or*)
(* all of it to an address, while no deal changes.                         *)
FundsFromBalance(w, given) ==
  /\ usdc' = Transfer(usdc, HookAddress, EscrowAddress, given)
  /\ escrows[w].status = "EMPTY" /\ escrows'[w].status = "FUNDED" /\ escrows'[w].amount = given

EmptiesInto(to) ==
  /\ usdc' = Transfer(usdc, HookAddress, to, usdc[HookAddress])
  /\ UNCHANGED <<escrows, totalEscrowed>>

(* The hook gives up USDC only while its owner can make calls, and then    *)
(* either to the escrow, for an escrow recorded for that amount in the same*)
(* step, or all of it to one address the owner rescues to, while no deal   *)
(* changes.  A relayed message never takes along what sat in the hook.     *)
(* Which account called is not part of a state; that it was the owner shows*)
(* in that nothing leaves a hook whose owner is not among the callers.     *)
HookBalanceGuarded ==
  [][usdc'[HookAddress] < usdc[HookAddress] =>
       /\ hookOwner \in Senders /\ UNCHANGED hookVars
       /\ \/ \E w \in WorkIds : FundsFromBalance(w, usdc[HookAddress] - usdc'[HookAddress])
          \/ \E to \in RescueTo \ {ZeroAddress} : EmptiesInto(to)]_allVars
=============================================================================
