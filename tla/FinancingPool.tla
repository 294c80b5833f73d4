---------------------------- MODULE FinancingPool ----------------------------
(***************************************************************************)
(* The financing pool contract (contracts/financing-pool/src/lib.rs):      *)
(* liquidity providers deposit, a liquidity manager advances discounted    *)
(* capital against invoices, and claims are withdrawn.  Claims are         *)
(* bookkeeping entries; no token moves.                                    *)
(*                                                                         *)
(* An operation runs atomically; the reentrancy guard is set and released  *)
(* inside deposit and withdraw around the place of a future token call, so *)
(* what the model keeps of it is the value each call leaves behind.        *)
(***************************************************************************)
EXTENDS AccessControl, Storage, CheckedMath, FiniteSetsExt

CONSTANTS
    InvoiceIds,        \* the invoice ids passed to fund_invoice
    PoolAmounts,       \* the amounts passed to deposit and withdraw
    FaceValues,        \* the face values passed to fund_invoice
    DiscountBps,       \* the discounts passed to initialize
    PriceTimestamps,   \* the ledgers passed to set_price_feed
    OracleConfigs,     \* the configurations passed to set_oracle_discount_config
    BPS_DENOMINATOR,   \* 10_000
    MAX_PRICE_AGE_LEDGERS,
    MaxDeposited       \* bound: how much the model deposits altogether

ASSUME PoolInputsAssumption ==
    /\ PoolAmounts \subseteq Int
    /\ FaceValues \subseteq Int
    /\ DiscountBps \subseteq Nat
    /\ PriceTimestamps \subseteq Nat
    /\ OracleConfigs \subseteq [min_discount_bps : Nat, max_discount_bps : Nat, enabled : BOOLEAN]
ASSUME PoolConstantsAssumption ==
    /\ BPS_DENOMINATOR \in Nat \ {0}
    /\ MAX_PRICE_AGE_LEDGERS \in Nat
    /\ MaxDeposited \in Nat

VARIABLES
    discountBps,    \* DataKey::DiscountBps
    available,      \* DataKey::Available
    balance,        \* DataKey::Balance(addr), 0 while absent
    fundings,       \* DataKey::Funding(id)
    priceFeed,      \* DataKey::PriceFeed, <<>> while absent, else <<timestamp>>
    oracleConfig,   \* the stored OracleDiscountConfig, <<>> while absent
    tokenAddress,   \* StorageKey::token_address(XLM): the tokens configured
    guard,          \* StorageKey::reentrancy_guard
    totals          \* history: everything ever deposited, withdrawn, advanced

ledgerVars == <<available, balance, fundings, totals>>
poolConfigVars == <<discountBps, priceFeed, oracleConfig, tokenAddress, guard>>
poolVars == <<ledgerVars, poolConfigVars>>
fpVars == <<acVars, poolVars>>

Funding == [face_value : Int, advance : Int, recipient : Address]
TokenContract == {"XLM", "USDC", "AQUA"}

-----------------------------------------------------------------------------
(* Internals. *)

\* Mutant of AdvanceFor: the division rounds up.
AdvanceRoundedUp(faceValue) ==
    (faceValue * (BPS_DENOMINATOR - discountBps) + BPS_DENOMINATOR - 1) \div BPS_DENOMINATOR

\* Floor division: the rounding loss stays with the pool.  Callers guard with
\* AdvanceFits, the checked multiplication of the code.
AdvanceFor(faceValue) == (faceValue * (BPS_DENOMINATOR - discountBps)) \div BPS_DENOMINATOR

AdvanceFits(faceValue) == CheckedMul(faceValue, BPS_DENOMINATOR - discountBps)

\* A missing feed is stale; a timestamp in the future has age 0.
RequireFreshPriceFeed ==
    /\ priceFeed # <<>>
    /\ ledger - priceFeed[1] <= MAX_PRICE_AGE_LEDGERS

-----------------------------------------------------------------------------
(* Operations. *)

FPInitialize(signers, threshold, timelock, bps) ==
    /\ bps < BPS_DENOMINATOR
    /\ ACInitialize(signers, threshold, timelock)
    /\ discountBps' = bps
    /\ available' = 0
    /\ guard' = "Unlocked"
    /\ UNCHANGED <<balance, fundings, totals, priceFeed, oracleConfig, tokenAddress>>

\* Mutant of Deposit: the reentrancy guard is not released.
DepositLeavesLocked(from, amount) ==
    /\ totals.deposited + amount <= MaxDeposited
    /\ IsInitialized
    /\ RequireNotPaused
    /\ amount > 0
    /\ guard = "Unlocked"
    /\ balance' = [balance EXCEPT ![from] = @ + amount]
    /\ available' = available + amount
    /\ guard' = "Locked"
    /\ totals' = [totals EXCEPT !.deposited = @ + amount]
    /\ UNCHANGED <<fundings, discountBps, priceFeed, oracleConfig, tokenAddress, acVars>>

Deposit(from, amount) ==
    /\ totals.deposited + amount <= MaxDeposited
    /\ IsInitialized
    /\ RequireNotPaused
    /\ amount > 0
    /\ guard = "Unlocked"
    /\ CheckedAdd(balance[from], amount)
    /\ CheckedAdd(available, amount)
    /\ balance' = [balance EXCEPT ![from] = @ + amount]
    /\ available' = available + amount
    /\ guard' = "Unlocked"
    /\ totals' = [totals EXCEPT !.deposited = @ + amount]
    /\ UNCHANGED <<fundings, discountBps, priceFeed, oracleConfig, tokenAddress, acVars>>

\* Mutant of Withdraw: only the caller's own claim is looked at.
WithdrawBeyondLiquidity(to, amount) ==
    /\ IsInitialized
    /\ RequireNotPaused
    /\ amount > 0
    /\ guard = "Unlocked"
    /\ balance[to] >= amount
    /\ balance' = [balance EXCEPT ![to] = @ - amount]
    /\ available' = available - amount
    /\ guard' = "Unlocked"
    /\ totals' = [totals EXCEPT !.withdrawn = @ + amount]
    /\ UNCHANGED <<fundings, discountBps, priceFeed, oracleConfig, tokenAddress, acVars>>

Withdraw(to, amount) ==
    /\ IsInitialized
    /\ RequireNotPaused
    /\ amount > 0
    /\ guard = "Unlocked"
    /\ balance[to] >= amount
    /\ available >= amount
    /\ CheckedSub(balance[to], amount)
    /\ CheckedSub(available, amount)
    /\ balance' = [balance EXCEPT ![to] = @ - amount]
    /\ available' = available - amount
    /\ guard' = "Unlocked"
    /\ totals' = [totals EXCEPT !.withdrawn = @ + amount]
    /\ UNCHANGED <<fundings, discountBps, priceFeed, oracleConfig, tokenAddress, acVars>>

\* Mutant of FundInvoice: an invoice can be funded again.
FundInvoiceAgain(caller, id, faceValue, recipient) ==
    /\ IsInitialized
    /\ RequireRole("LiquidityManager", caller)
    /\ RequireNotPaused
    /\ faceValue > 0
    /\ RequireFreshPriceFeed
    /\ AdvanceFits(faceValue)
    /\ LET advance == AdvanceFor(faceValue)
       IN  /\ available >= advance
           /\ available' = available - advance
           /\ balance' = [balance EXCEPT ![recipient] = @ + advance]
           /\ fundings' = Put(fundings, id, [face_value |-> faceValue, advance |-> advance,
                                             recipient |-> recipient])
           /\ totals' = [totals EXCEPT !.advanced = @ + advance]
    /\ UNCHANGED <<poolConfigVars, acVars>>

\* Mutant of FundInvoice: the advance is credited but not taken from the pool.
FundInvoiceFromNowhere(caller, id, faceValue, recipient) ==
    /\ IsInitialized
    /\ RequireRole("LiquidityManager", caller)
    /\ RequireNotPaused
    /\ faceValue > 0
    /\ ~Has(fundings, id)
    /\ RequireFreshPriceFeed
    /\ AdvanceFits(faceValue)
    /\ LET advance == AdvanceFor(faceValue)
       IN  /\ available >= advance
           /\ balance' = [balance EXCEPT ![recipient] = @ + advance]
           /\ fundings' = Put(fundings, id, [face_value |-> faceValue, advance |-> advance,
                                             recipient |-> recipient])
           /\ totals' = [totals EXCEPT !.advanced = @ + advance]
    /\ UNCHANGED <<available, poolConfigVars, acVars>>

FundInvoice(caller, id, faceValue, recipient) ==
    /\ IsInitialized
    /\ RequireRole("LiquidityManager", caller)
    /\ RequireNotPaused
    /\ faceValue > 0
    /\ ~Has(fundings, id)
    /\ RequireFreshPriceFeed
    /\ AdvanceFits(faceValue)
    /\ LET advance == AdvanceFor(faceValue)
       IN  /\ available >= advance
           /\ CheckedSub(available, advance)
           /\ CheckedAdd(balance[recipient], advance)
           /\ available' = available - advance
           /\ balance' = [balance EXCEPT ![recipient] = @ + advance]
           /\ fundings' = Put(fundings, id, [face_value |-> faceValue, advance |-> advance,
                                             recipient |-> recipient])
           /\ totals' = [totals EXCEPT !.advanced = @ + advance]
    /\ UNCHANGED <<poolConfigVars, acVars>>

\* Only the deposit and withdraw events depend on the address itself.
SetTokenAddress(caller, token) ==
    /\ IsInitialized
    /\ RequireAdmin(caller)
    /\ tokenAddress' = tokenAddress \cup {token}
    /\ UNCHANGED <<ledgerVars, discountBps, priceFeed, oracleConfig, guard, acVars>>

\* Stored, and read by no operation: advance_for uses DiscountBps.
SetOracleDiscountConfig(caller, config) ==
    /\ IsInitialized
    /\ RequireAdmin(caller)
    /\ config.min_discount_bps < config.max_discount_bps
    /\ config.max_discount_bps < BPS_DENOMINATOR
    /\ oracleConfig' = <<config>>
    /\ UNCHANGED <<ledgerVars, discountBps, priceFeed, tokenAddress, guard, acVars>>

\* The price itself is read by no operation.
SetPriceFeed(caller, timestamp) ==
    /\ IsInitialized
    /\ RequireAdmin(caller)
    /\ priceFeed' = <<timestamp>>
    /\ UNCHANGED <<ledgerVars, discountBps, oracleConfig, tokenAddress, guard, acVars>>

-----------------------------------------------------------------------------

FPInit ==
    /\ ACInit
    /\ discountBps = 0
    /\ available = 0
    /\ balance = [a \in Address |-> 0]
    /\ fundings = EmptyStore
    /\ priceFeed = <<>>
    /\ oracleConfig = <<>>
    /\ tokenAddress = {}
    /\ guard = "Unlocked"
    /\ totals = [deposited |-> 0, withdrawn |-> 0, advanced |-> 0]

FPOps ==
    \E caller \in Address :
        \/ \E amount \in PoolAmounts : Deposit(caller, amount) \/ Withdraw(caller, amount)
        \/ \E id \in InvoiceIds, faceValue \in FaceValues, recipient \in Address :
             FundInvoice(caller, id, faceValue, recipient)
        \/ \E token \in TokenContract : SetTokenAddress(caller, token)
        \/ \E config \in OracleConfigs : SetOracleDiscountConfig(caller, config)
        \/ \E timestamp \in PriceTimestamps : SetPriceFeed(caller, timestamp)

FPNext ==
    \/ \E signers \in SignerVecs, timelock \in Timelocks, bps \in DiscountBps :
         \E threshold \in Thresholds(signers) : FPInitialize(signers, threshold, timelock, bps)
    \/ FPOps
    \/ ACOps /\ UNCHANGED poolVars

FPSpec == FPInit /\ [][FPNext]_fpVars

-----------------------------------------------------------------------------
(* Properties. *)

\* Type invariant; no claim is ever negative, the discount is below 100% and
\* no call leaves the reentrancy guard locked, which would shut deposit and
\* withdraw for good.
FPTypeOK ==
    /\ discountBps \in Nat /\ discountBps < BPS_DENOMINATOR
    /\ available \in Int
    /\ balance \in [Address -> Nat]
    /\ DOMAIN fundings \subseteq InvoiceIds
    /\ \A id \in DOMAIN fundings : fundings[id] \in Funding
    /\ priceFeed \in Seq(Nat)
    /\ oracleConfig \in Seq(OracleConfigs)
    /\ tokenAddress \subseteq TokenContract
    /\ guard = "Unlocked"
    /\ totals \in [deposited : Nat, withdrawn : Nat, advanced : Nat]

\* Liquidity conservation (protocol-spec invariant 9): over every sequence of
\* deposit, withdraw and fund_invoice the un-deployed liquidity is what came in
\* less what was advanced and what was withdrawn, and it is never negative.
LiquidityConservation ==
    /\ available = totals.deposited - totals.advanced - totals.withdrawn
    /\ available >= 0

\* The claims the balances b record on the pool, together.
Claims(b) == MapThenSumSet(LAMBDA a : b[a], Address)

\* The claims on the pool exceed its un-deployed liquidity by exactly twice
\* what was advanced: fund_invoice takes the advance out of the liquidity and
\* the recipient's withdraw takes it out once more.
ClaimsExceedLiquidityByAdvances == Claims(balance) = available + 2 * totals.advanced

\* Every advance on record is the exact floor of the discounted face value,
\* stated without the division: no whole unit more could be advanced, and not
\* one unit too much was (advance_for, protocol-spec invariant 11).
AdvanceIsExactFloor ==
    \A id \in DOMAIN fundings :
        LET f == fundings[id] IN
        /\ 0 <= f.advance /\ f.advance <= f.face_value
        /\ f.advance * BPS_DENOMINATOR <= f.face_value * (BPS_DENOMINATOR - discountBps)
        /\ f.face_value * (BPS_DENOMINATOR - discountBps) < (f.advance + 1) * BPS_DENOMINATOR

\* What a step leaves alone: the fundings on record and, once there is one, the
\* discount.
KeepsFundings ==
    /\ \A id \in DOMAIN fundings : id \in DOMAIN fundings' /\ fundings'[id] = fundings[id]
    /\ fundings # EmptyStore => discountBps' = discountBps

\* A funding record is never overwritten, and the discount it was computed with
\* never changes under it (fund_invoice, protocol-spec invariant 10).
FundingIsImmutable == [][KeepsFundings]_fpVars

\* What protocol-spec 6.2 draws: fund_invoice, guarded by advance <= available
\* liquidity, followed by the farmer's withdraw(amount = advance).
AdvanceIsWithdrawable ==
    [][\A id \in DOMAIN fundings' \ DOMAIN fundings :
         available' >= fundings'[id].advance]_fpVars
=============================================================================
