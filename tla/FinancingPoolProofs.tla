------------------------- MODULE FinancingPoolProofs -------------------------
(***************************************************************************)
(* Proofs about FinancingPool, for every set of accounts, invoices,        *)
(* amounts and discounts.                                                  *)
(***************************************************************************)
EXTENDS FinancingPool, AccessControlProofs

\* Integer division is the floor: between n times the quotient and n times the
\* next integer.
LEMMA FloorBounds ==
    ASSUME NEW x \in Nat, NEW n \in Nat \ {0}
    PROVE  /\ x \div n \in Nat
           /\ (x \div n) * n <= x
           /\ x < ((x \div n) + 1) * n
OBVIOUS

\* Products of naturals are naturals, and grow with their factors.
LEMMA ProductBounds ==
    ASSUME NEW a \in Nat, NEW b \in Nat, NEW c \in Nat, b <= c
    PROVE  a * b \in Nat /\ a * c \in Nat /\ a * b <= a * c
OBVIOUS

\* Factors of a product can be cancelled.
LEMMA CancelFactor ==
    ASSUME NEW a \in Nat, NEW b \in Nat, NEW n \in Nat \ {0}, a * n <= b * n
    PROVE  a <= b
OBVIOUS

\* advance_for computes the exact floor of the discounted face value.
LEMMA AdvanceForIsFloor ==
    ASSUME NEW faceValue \in Nat, discountBps \in Nat, discountBps < BPS_DENOMINATOR
    PROVE  /\ AdvanceFor(faceValue) \in Nat
           /\ AdvanceFor(faceValue) <= faceValue
           /\ AdvanceFor(faceValue) * BPS_DENOMINATOR <= faceValue * (BPS_DENOMINATOR - discountBps)
           /\ faceValue * (BPS_DENOMINATOR - discountBps)
                < (AdvanceFor(faceValue) + 1) * BPS_DENOMINATOR
<1>. DEFINE k == BPS_DENOMINATOR - discountBps
            x == faceValue * k
            q == x \div BPS_DENOMINATOR
<1>1. k \in Nat /\ k <= BPS_DENOMINATOR /\ BPS_DENOMINATOR \in Nat \ {0}
  BY PoolConstantsAssumption
<1>. HIDE DEF k
<1>2. x \in Nat /\ x <= faceValue * BPS_DENOMINATOR
  BY <1>1, ProductBounds
<1>. HIDE DEF x
<1>3. q \in Nat /\ q * BPS_DENOMINATOR <= x /\ x < (q + 1) * BPS_DENOMINATOR
  BY <1>1, <1>2, FloorBounds
<1>. HIDE DEF q
<1>4. q * BPS_DENOMINATOR <= faceValue * BPS_DENOMINATOR
  <2>1. q * BPS_DENOMINATOR \in Int /\ faceValue * BPS_DENOMINATOR \in Int
    BY <1>1, <1>3
  <2>. QED
    BY <1>2, <1>3, <2>1
<1>5. q <= faceValue
  BY <1>1, <1>3, <1>4, CancelFactor
<1>6. AdvanceFor(faceValue) = q
  BY DEF AdvanceFor, q, x, k
<1>. QED
  BY <1>3, <1>5, <1>6 DEF x, k

\* Every step of the pool is a step of its embedded access control, or leaves
\* that storage alone.
LEMMA FPStepIsACStep == [FPNext]_fpVars => [ACNext]_acVars
<1>. SUFFICES ASSUME [FPNext]_fpVars PROVE [ACNext]_acVars
  OBVIOUS
<1>1. CASE \E signers \in SignerVecs, timelock \in Timelocks, bps \in DiscountBps :
             \E threshold \in Thresholds(signers) : FPInitialize(signers, threshold, timelock, bps)
  BY <1>1 DEF FPInitialize, ACNext
<1>2. CASE FPOps
  <2>1. UNCHANGED acVars
    BY <1>2 DEF FPOps, Deposit, Withdraw, FundInvoice, SetTokenAddress, SetOracleDiscountConfig, SetPriceFeed
  <2>. QED
    BY <2>1
<1>3. CASE ACOps
  BY <1>3 DEF ACNext
<1>4. CASE UNCHANGED fpVars
  BY <1>4 DEF fpVars
<1>. QED
  BY <1>1, <1>2, <1>3, <1>4 DEF FPNext

-----------------------------------------------------------------------------

\* Nothing is deposited, advanced or withdrawn before the pool is initialised.
UntouchedBeforeInit ==
    ~IsInitialized =>
        /\ fundings = EmptyStore
        /\ totals = [deposited |-> 0, withdrawn |-> 0, advanced |-> 0]

\* What the pool's own operations preserve.
PoolInv == FPTypeOK /\ UntouchedBeforeInit /\ LiquidityConservation /\ AdvanceIsExactFloor

\* The inductive invariant.
FPInv == ACInv /\ PoolInv

\* The initial state satisfies the inductive invariant.
LEMMA FPInvInit == FPInit => FPInv
<1>. SUFFICES ASSUME FPInit PROVE FPInv
  OBVIOUS
<1>1. ACInv
  BY ACInvInit DEF FPInit
<1>2. FPTypeOK
  <2>1. discountBps \in Nat /\ discountBps < BPS_DENOMINATOR /\ available \in Int
    BY PoolConstantsAssumption DEF FPInit
  <2>2. balance \in [Address -> Nat] /\ totals \in [deposited : Nat, withdrawn : Nat, advanced : Nat]
    BY DEF FPInit
  <2>3. priceFeed \in Seq(Nat) /\ oracleConfig \in Seq(OracleConfigs)
    BY DEF FPInit
  <2>4. tokenAddress \subseteq TokenContract /\ guard = "Unlocked" /\ DOMAIN fundings = {}
    BY DEF FPInit, EmptyStore
  <2>. QED
    BY <2>1, <2>2, <2>3, <2>4 DEF FPTypeOK
<1>3. UntouchedBeforeInit
  BY DEF FPInit, UntouchedBeforeInit
<1>4. LiquidityConservation /\ AdvanceIsExactFloor
  BY DEF FPInit, LiquidityConservation, AdvanceIsExactFloor, EmptyStore
<1>. QED
  BY <1>1, <1>2, <1>3, <1>4 DEF FPInv, PoolInv

\* Deposit and Withdraw move liquidity and the caller's claim by the same amount.
LEMMA DepositWithdrawPreserve ==
    ASSUME PoolInv, NEW caller \in Address, NEW amount \in PoolAmounts,
           Deposit(caller, amount) \/ Withdraw(caller, amount)
    PROVE  PoolInv'
<1>1. amount \in Nat /\ amount > 0 /\ IsInitialized
  BY PoolInputsAssumption DEF Deposit, Withdraw
<1>2. /\ UNCHANGED <<fundings, discountBps, priceFeed, oracleConfig, tokenAddress, multisig>>
      /\ guard' = "Unlocked"
  BY DEF Deposit, Withdraw, acVars
<1>3. /\ available \in Int /\ balance \in [Address -> Nat] /\ balance[caller] \in Nat
      /\ totals \in [deposited : Nat, withdrawn : Nat, advanced : Nat]
      /\ totals.deposited \in Nat /\ totals.withdrawn \in Nat /\ totals.advanced \in Nat
  BY DEF PoolInv, FPTypeOK
<1>4. ASSUME LiquidityConservation', balance' \in [Address -> Nat], available' \in Int,
             totals' \in [deposited : Nat, withdrawn : Nat, advanced : Nat]
      PROVE  PoolInv'
  <2>1. FPTypeOK'
    BY <1>2, <1>4 DEF PoolInv, FPTypeOK
  <2>2. UntouchedBeforeInit' /\ AdvanceIsExactFloor'
    BY <1>1, <1>2 DEF PoolInv, UntouchedBeforeInit, IsInitialized, AdvanceIsExactFloor
  <2>. QED
    BY <1>4, <2>1, <2>2 DEF PoolInv
<1>5. CASE Deposit(caller, amount)
  <2>1. /\ balance' \in [Address -> Nat] /\ available' = available + amount
        /\ totals' \in [deposited : Nat, withdrawn : Nat, advanced : Nat]
        /\ totals'.deposited = totals.deposited + amount
        /\ totals'.withdrawn = totals.withdrawn /\ totals'.advanced = totals.advanced
    BY <1>1, <1>3, <1>5 DEF Deposit
  <2>2. LiquidityConservation' /\ available' \in Int
    BY <1>1, <1>3, <2>1 DEF PoolInv, LiquidityConservation
  <2>. QED
    BY <1>4, <2>1, <2>2
<1>6. CASE Withdraw(caller, amount)
  <2>1. balance[caller] - amount \in Nat /\ available >= amount
    BY <1>1, <1>3, <1>6 DEF Withdraw
  <2>2. /\ balance' \in [Address -> Nat] /\ available' = available - amount
        /\ totals' \in [deposited : Nat, withdrawn : Nat, advanced : Nat]
        /\ totals'.withdrawn = totals.withdrawn + amount
        /\ totals'.deposited = totals.deposited /\ totals'.advanced = totals.advanced
    BY <1>1, <1>3, <1>6, <2>1 DEF Withdraw
  <2>3. LiquidityConservation' /\ available' \in Int
    BY <1>1, <1>3, <2>1, <2>2 DEF PoolInv, LiquidityConservation
  <2>. QED
    BY <1>4, <2>2, <2>3
<1>. QED
  BY <1>5, <1>6

\* FundInvoice advances the exact floor, out of liquidity that is there.
LEMMA FundInvoicePreserves ==
    ASSUME PoolInv, NEW caller \in Address, NEW id \in InvoiceIds, NEW faceValue \in FaceValues,
           NEW recipient \in Address, FundInvoice(caller, id, faceValue, recipient)
    PROVE  PoolInv'
<1>. DEFINE advance == AdvanceFor(faceValue)
            f == [face_value |-> faceValue, advance |-> advance, recipient |-> recipient]
<1>1. faceValue \in Nat /\ IsInitialized /\ id \notin DOMAIN fundings
  BY PoolInputsAssumption DEF FundInvoice, Has
<1>2. /\ advance \in Nat /\ advance <= faceValue
      /\ advance * BPS_DENOMINATOR <= faceValue * (BPS_DENOMINATOR - discountBps)
      /\ faceValue * (BPS_DENOMINATOR - discountBps) < (advance + 1) * BPS_DENOMINATOR
  BY <1>1, AdvanceForIsFloor DEF PoolInv, FPTypeOK
<1>3. /\ available >= advance /\ available' = available - advance
      /\ balance' = [balance EXCEPT ![recipient] = @ + advance]
      /\ fundings' = Put(fundings, id, f)
      /\ totals' = [totals EXCEPT !.advanced = @ + advance]
      /\ UNCHANGED <<discountBps, priceFeed, oracleConfig, tokenAddress, guard, multisig>>
  BY DEF FundInvoice, poolConfigVars, acVars
<1>. HIDE DEF advance
<1>4. /\ available \in Int /\ balance \in [Address -> Nat] /\ balance[recipient] \in Nat
      /\ totals \in [deposited : Nat, withdrawn : Nat, advanced : Nat]
      /\ totals.deposited \in Nat /\ totals.withdrawn \in Nat /\ totals.advanced \in Nat
  BY DEF PoolInv, FPTypeOK
<1>5. /\ balance' \in [Address -> Nat]
      /\ totals' \in [deposited : Nat, withdrawn : Nat, advanced : Nat]
      /\ totals'.advanced = totals.advanced + advance
      /\ totals'.deposited = totals.deposited /\ totals'.withdrawn = totals.withdrawn
  BY <1>2, <1>3, <1>4
<1>6. /\ DOMAIN fundings' = DOMAIN fundings \cup {id}
      /\ fundings'[id] = f
      /\ \A k \in DOMAIN fundings : fundings'[k] = fundings[k]
  BY <1>1, <1>3 DEF Put
<1>7. f \in Funding
  BY <1>1, <1>2 DEF Funding
<1>8. FPTypeOK'
  <2>1. DOMAIN fundings' \subseteq InvoiceIds /\ \A k \in DOMAIN fundings' : fundings'[k] \in Funding
    BY <1>6, <1>7 DEF PoolInv, FPTypeOK
  <2>2. available' \in Int
    BY <1>2, <1>3, <1>4
  <2>. QED
    BY <1>3, <1>5, <2>1, <2>2 DEF PoolInv, FPTypeOK
<1>9. UntouchedBeforeInit'
  BY <1>1, <1>3 DEF UntouchedBeforeInit, IsInitialized
<1>10. LiquidityConservation'
  BY <1>2, <1>3, <1>4, <1>5 DEF PoolInv, LiquidityConservation
<1>11. AdvanceIsExactFloor'
  BY <1>2, <1>3, <1>6 DEF PoolInv, AdvanceIsExactFloor
<1>. QED
  BY <1>8, <1>9, <1>10, <1>11 DEF PoolInv

\* Steps that leave the ledger of the pool and its discount alone preserve what is
\* said about them.
LEMMA PoolLedgerUnchanged ==
    ASSUME PoolInv, FPTypeOK', IsInitialized => IsInitialized',
           UNCHANGED <<available, balance, fundings, totals, discountBps>>
    PROVE  PoolInv'
BY DEF PoolInv, UntouchedBeforeInit, LiquidityConservation, AdvanceIsExactFloor

\* Every step preserves the inductive invariant.
LEMMA FPInvNext == FPInv /\ [FPNext]_fpVars => FPInv'
<1>. SUFFICES ASSUME FPInv, [FPNext]_fpVars PROVE FPInv'
  OBVIOUS
<1>1. ACInv'
  BY FPStepIsACStep, ACInvNext DEF FPInv
<1>. SUFFICES PoolInv'
  BY <1>1 DEF FPInv
<1>2. PoolInv
  BY DEF FPInv
<1>3. ASSUME NEW signers \in SignerVecs, NEW timelock \in Timelocks, NEW bps \in DiscountBps,
             NEW threshold \in Thresholds(signers), FPInitialize(signers, threshold, timelock, bps)
      PROVE  PoolInv'
  <2>1. ~IsInitialized /\ bps \in Nat /\ bps < BPS_DENOMINATOR
    BY <1>3, PoolInputsAssumption DEF FPInitialize, ACInitialize
  <2>2. fundings = EmptyStore /\ totals = [deposited |-> 0, withdrawn |-> 0, advanced |-> 0]
    BY <1>2, <2>1 DEF PoolInv, UntouchedBeforeInit
  <2>3. FPTypeOK'
    BY <1>2, <1>3, <2>1 DEF PoolInv, FPTypeOK, FPInitialize
  <2>4. UntouchedBeforeInit' /\ AdvanceIsExactFloor'
    BY <1>3, <2>2 DEF FPInitialize, UntouchedBeforeInit, AdvanceIsExactFloor, EmptyStore
  <2>5. LiquidityConservation'
    BY <1>3, <2>2 DEF FPInitialize, LiquidityConservation
  <2>. QED
    BY <2>3, <2>4, <2>5 DEF PoolInv
<1>4. ASSUME NEW caller \in Address, NEW amount \in PoolAmounts,
             Deposit(caller, amount) \/ Withdraw(caller, amount)
      PROVE  PoolInv'
  BY <1>2, <1>4, DepositWithdrawPreserve
<1>5. ASSUME NEW caller \in Address, NEW id \in InvoiceIds, NEW faceValue \in FaceValues,
             NEW recipient \in Address, FundInvoice(caller, id, faceValue, recipient)
      PROVE  PoolInv'
  BY <1>2, <1>5, FundInvoicePreserves
<1>6. ASSUME NEW caller \in Address, NEW token \in TokenContract, SetTokenAddress(caller, token)
      PROVE  PoolInv'
  <2>1. UNCHANGED <<available, balance, fundings, totals, discountBps, priceFeed, oracleConfig, guard, multisig>>
    BY <1>6 DEF SetTokenAddress, ledgerVars, acVars
  <2>2. FPTypeOK'
    BY <1>2, <1>6, <2>1 DEF PoolInv, FPTypeOK, SetTokenAddress
  <2>. QED
    BY <1>2, <2>1, <2>2, PoolLedgerUnchanged DEF IsInitialized
<1>7. ASSUME NEW caller \in Address, NEW config \in OracleConfigs, SetOracleDiscountConfig(caller, config)
      PROVE  PoolInv'
  <2>1. UNCHANGED <<available, balance, fundings, totals, discountBps, priceFeed, tokenAddress, guard, multisig>>
    BY <1>7 DEF SetOracleDiscountConfig, ledgerVars, acVars
  <2>2. oracleConfig' \in Seq(OracleConfigs)
    BY <1>7 DEF SetOracleDiscountConfig
  <2>3. FPTypeOK'
    BY <1>2, <2>1, <2>2 DEF PoolInv, FPTypeOK
  <2>. QED
    BY <1>2, <2>1, <2>3, PoolLedgerUnchanged DEF IsInitialized
<1>8. ASSUME NEW caller \in Address, NEW timestamp \in PriceTimestamps, SetPriceFeed(caller, timestamp)
      PROVE  PoolInv'
  <2>1. UNCHANGED <<available, balance, fundings, totals, discountBps, oracleConfig, tokenAddress, guard, multisig>>
    BY <1>8 DEF SetPriceFeed, ledgerVars, acVars
  <2>2. priceFeed' \in Seq(Nat)
    BY <1>8, PoolInputsAssumption DEF SetPriceFeed
  <2>3. FPTypeOK'
    BY <1>2, <2>1, <2>2 DEF PoolInv, FPTypeOK
  <2>. QED
    BY <1>2, <2>1, <2>3, PoolLedgerUnchanged DEF IsInitialized
<1>9. CASE (ACOps /\ UNCHANGED poolVars) \/ UNCHANGED fpVars
  <2>1. UNCHANGED <<available, balance, fundings, totals, discountBps, priceFeed, oracleConfig, tokenAddress, guard>>
    BY <1>9 DEF fpVars, poolVars, ledgerVars, poolConfigVars
  <2>2. FPTypeOK'
    BY <1>2, <2>1 DEF PoolInv, FPTypeOK
  <2>3. IsInitialized => IsInitialized'
    BY <1>9, InitializedStays DEF FPInv, fpVars, acVars, IsInitialized
  <2>. QED
    BY <1>2, <2>1, <2>2, <2>3, PoolLedgerUnchanged
<1>. QED
  BY <1>3, <1>4, <1>5, <1>6, <1>7, <1>8, <1>9 DEF FPNext, FPOps

-----------------------------------------------------------------------------
(* Sums: what the accounts claim together. *)

\* Some element of a set that has one, as MapThenSumSet takes them.
Pick(s) == CHOOSE x \in s : TRUE

\* f has the sums of b over the sets of D; sets shrink to sets of D.
IsSum(f, b, D) ==
    f = [s \in D |-> IF s = {} THEN 0 ELSE b[Pick(s)] + f[s \ {Pick(s)}]]

\* A set of numbers that is not empty has a least one.
LEMMA LeastElement ==
    ASSUME NEW S \in SUBSET Nat, S # {}
    PROVE  \E x \in S : \A y \in S : x <= y
<1>. DEFINE R == OpToRel(<, Nat)
<1>1. IsWellFoundedOn(R, Nat)
  BY NatLessThanWellFounded, Zenon
<1>2. R = {ss \in Nat \X Nat : ss[1] < ss[2]}
  BY DEF OpToRel
<1>. HIDE DEF R
<1>3. PICK x \in S : \A y \in S : ~(<<y, x>> \in R)
  BY <1>1, WFMin
<1>4. ASSUME NEW y \in S, y < x PROVE FALSE
  <2>1. <<y, x>> \in Nat \X Nat /\ <<y, x>>[1] < <<y, x>>[2]
    BY <1>4
  <2>. QED  BY <1>2, <1>3, <2>1
<1>. QED  BY <1>4

\* Taking an element out of a finite set.
LEMMA PickFacts ==
    ASSUME NEW A, IsFiniteSet(A), NEW s \in SUBSET A, s # {}
    PROVE  /\ Pick(s) \in s /\ s \ {Pick(s)} \in SUBSET A
           /\ IsFiniteSet(s) /\ Cardinality(s) \in Nat \ {0}
           /\ Cardinality(s \ {Pick(s)}) = Cardinality(s) - 1
<1>1. Pick(s) \in s  BY DEF Pick
<1>2. IsFiniteSet(s)  BY FS_Subset
<1>3. Cardinality(s) \in Nat /\ Cardinality(s) # 0  BY <1>2, FS_CardinalityType, FS_EmptySet
<1>. HIDE DEF Pick
<1>4. Cardinality(s \ {Pick(s)}) = Cardinality(s) - 1  BY <1>1, <1>2, FS_RemoveElement
<1>. QED  BY <1>1, <1>2, <1>3, <1>4

\* The sums over the sets of up to n elements can be computed, one size after another.
LEMMA SumExists ==
    ASSUME NEW A, IsFiniteSet(A), NEW b \in [A -> Int]
    PROVE  \E f \in [SUBSET A -> Int] : IsSum(f, b, SUBSET A)
<1>. DEFINE D(n) == {s \in SUBSET A : Cardinality(s) <= n}
            Bad == {n \in Nat : ~ \E f \in [D(n) -> Int] : IsSum(f, b, D(n))}
<1>1. \A s \in SUBSET A : IsFiniteSet(s) /\ Cardinality(s) \in Nat /\ (Cardinality(s) = 0 <=> s = {})
  BY FS_Subset, FS_CardinalityType, FS_EmptySet
<1>2. 0 \notin Bad
  <2>. DEFINE f == [s \in D(0) |-> 0]
  <2>1. D(0) = {{}}  BY <1>1, FS_EmptySet
  <2>2. f \in [D(0) -> Int] /\ IsSum(f, b, D(0))
    <3>1. \A s \in D(0) : s = {}  BY <2>1
    <3>. HIDE DEF D
    <3>2. \A s \in D(0) : 0 = IF s = {} THEN 0 ELSE b[Pick(s)] + f[s \ {Pick(s)}]
      BY <3>1
    <3>3. f = [s \in D(0) |-> IF s = {} THEN 0 ELSE b[Pick(s)] + f[s \ {Pick(s)}]]
      BY <3>2
    <3>4. f \in [D(0) -> Int]  OBVIOUS
    <3>. HIDE DEF f
    <3>. QED  BY <3>3, <3>4 DEF IsSum
  <2>. QED  BY <2>2
<1>3. ASSUME NEW n \in Nat, n \notin Bad PROVE n + 1 \notin Bad
  <2>1. PICK f \in [D(n) -> Int] : IsSum(f, b, D(n))  BY <1>3
  <2>. DEFINE g == [s \in D(n + 1) |-> IF s = {} THEN 0 ELSE b[Pick(s)] + f[s \ {Pick(s)}]]
  <2>2. ASSUME NEW s \in D(n + 1), s # {} PROVE s \ {Pick(s)} \in D(n) /\ Pick(s) \in A
    BY <2>2, PickFacts
  <2>3. g \in [D(n + 1) -> Int]
    <3>1. ASSUME NEW s \in D(n + 1), s # {} PROVE b[Pick(s)] + f[s \ {Pick(s)}] \in Int
      <4>1. b[Pick(s)] \in Int /\ f[s \ {Pick(s)}] \in Int  BY <2>2, <3>1
      <4>. QED  BY <4>1
    <3>. QED  BY <3>1
  <2>4. ASSUME NEW s \in D(n) PROVE g[s] = f[s]
    <3>1. s \in D(n + 1)  BY <1>1
    <3>2. f[s] = IF s = {} THEN 0 ELSE b[Pick(s)] + f[s \ {Pick(s)}]
      BY <2>1, Zenon DEF IsSum
    <3>. QED  BY <3>1, <3>2
  <2>5. g = [s \in D(n + 1) |-> IF s = {} THEN 0 ELSE b[Pick(s)] + g[s \ {Pick(s)}]]
    <3>. SUFFICES ASSUME NEW s \in D(n + 1), s # {} PROVE f[s \ {Pick(s)}] = g[s \ {Pick(s)}]
      OBVIOUS
    <3>. QED  BY <2>2, <2>4
  <2>6. IsSum(g, b, D(n + 1))  BY <2>5 DEF IsSum
  <2>. QED  BY <2>3, <2>6
<1>4. Bad = {}
  <2>. SUFFICES ASSUME Bad # {} PROVE FALSE
    OBVIOUS
  <2>1. Bad \in SUBSET Nat  OBVIOUS
  <2>. HIDE DEF Bad
  <2>2. PICK m \in Bad : \A k \in Bad : m <= k  BY <2>1, LeastElement
  <2>3. m - 1 \in Nat /\ m - 1 \notin Bad  BY <1>2, <2>1, <2>2
  <2>4. (m - 1) + 1 \notin Bad  BY <1>3, <2>3
  <2>. QED  BY <2>1, <2>2, <2>4
<1>5. D(Cardinality(A)) = SUBSET A
  BY <1>1, FS_Subset
<1>6. Cardinality(A) \in Nat  BY FS_CardinalityType
<1>7. \E f \in [D(Cardinality(A)) -> Int] : IsSum(f, b, D(Cardinality(A)))
  BY <1>4, <1>6
<1>. QED  BY <1>5, <1>7

\* What holds of a set once it holds of every smaller one holds of all subsets of a
\* finite set.
LEMMA SubsetInduction ==
    ASSUME NEW A, IsFiniteSet(A), NEW G \in SUBSET SUBSET A,
           \A s \in SUBSET A : (\A t \in SUBSET s : t # s => t \in G) => s \in G
    PROVE  G = SUBSET A
<1>. DEFINE Bad == {n \in Nat : \E s \in SUBSET A : Cardinality(s) = n /\ s \notin G}
<1>1. \A s \in SUBSET A : IsFiniteSet(s) /\ Cardinality(s) \in Nat
  BY FS_Subset, FS_CardinalityType
<1>2. Bad = {}
  <2>. SUFFICES ASSUME Bad # {} PROVE FALSE
    OBVIOUS
  <2>1. Bad \in SUBSET Nat  OBVIOUS
  <2>2. PICK m \in Bad : \A k \in Bad : m <= k
    <3>. HIDE DEF Bad
    <3>. QED  BY <2>1, LeastElement
  <2>3. PICK s \in SUBSET A : Cardinality(s) = m /\ s \notin G  OBVIOUS
  <2>4. ASSUME NEW t \in SUBSET s, t # s PROVE t \in G
    <3>1. Cardinality(t) < Cardinality(s)  BY <1>1, <2>4, FS_Subset
    <3>2. Cardinality(t) \in Nat /\ Cardinality(t) \notin Bad  BY <1>1, <2>1, <2>2, <2>3, <3>1
    <3>. QED  BY <3>2
  <2>. QED  BY <2>3, <2>4
<1>. QED  BY <1>1, <1>2

\* The empty sum is zero.
LEMMA SumEmpty ==
    ASSUME NEW A, NEW b, NEW f, IsSum(f, b, SUBSET A)
    PROVE  f[{}] = 0
BY Zenon DEF IsSum

\* Some element of a set, which is what the sum is computed from.
LEMMA PickSmaller ==
    ASSUME NEW s, s # {}
    PROVE  Pick(s) \in s /\ s \ {Pick(s)} \in SUBSET s /\ s \ {Pick(s)} # s
BY DEF Pick

\* There is one function of the sums.
LEMMA SumUnique ==
    ASSUME NEW A, IsFiniteSet(A), NEW b, NEW f, IsSum(f, b, SUBSET A), NEW g, IsSum(g, b, SUBSET A)
    PROVE  f = g
<1>. DEFINE G == {s \in SUBSET A : f[s] = g[s]}
<1>1. ASSUME NEW s \in SUBSET A, \A t \in SUBSET s : t # s => t \in G PROVE s \in G
  <2>1. CASE s = {}
    <3>1. f[s] = 0 /\ g[s] = 0  BY <2>1, SumEmpty, Zenon
    <3>. QED  BY <3>1
  <2>2. CASE s # {}
    <3>1. f[s] = b[Pick(s)] + f[s \ {Pick(s)}] /\ g[s] = b[Pick(s)] + g[s \ {Pick(s)}]
      BY <2>2, Zenon DEF IsSum
    <3>2. f[s \ {Pick(s)}] = g[s \ {Pick(s)}]  BY <1>1, <2>2, PickSmaller
    <3>. QED  BY <3>1, <3>2
  <2>. QED  BY <2>1, <2>2
<1>2. G = SUBSET A
  <2>1. G \in SUBSET SUBSET A  OBVIOUS
  <2>. HIDE DEF G
  <2>. QED  BY <1>1, <2>1, SubsetInduction
<1>3. \A s \in SUBSET A : f[s] = g[s]  BY <1>2
<1>. DEFINE F == [s \in SUBSET A |-> IF s = {} THEN 0 ELSE b[Pick(s)] + f[s \ {Pick(s)}]]
            H == [s \in SUBSET A |-> IF s = {} THEN 0 ELSE b[Pick(s)] + g[s \ {Pick(s)}]]
<1>4. f = F /\ g = H  BY Zenon DEF IsSum
<1>5. F = [s \in SUBSET A |-> F[s]] /\ H = [s \in SUBSET A |-> H[s]]  BY Zenon
<1>. HIDE DEF F, H, G
<1>. QED  BY <1>3, <1>4, <1>5

\* The amounts c are those of b with one of them moved by d, and the sum g is the sum f
\* moved by d.
MovedAt(b, c, A, a, d) ==
    /\ b \in [A -> Int] /\ a \in A /\ d \in Int
    /\ c[a] = b[a] + d /\ \A x \in A : x # a => c[x] = b[x]
SumMoved(f, g, A, d) == g[A] = f[A] + d

\* A function of the sums of a set's subsets, all of them numbers.
SumsOf(f, b, A) == f \in [SUBSET A -> Int] /\ IsSum(f, b, SUBSET A)

\* A sum changes with the value of one element.
LEMMA SumChanges ==
    ASSUME NEW A, IsFiniteSet(A), NEW b, NEW c, NEW a, NEW d, MovedAt(b, c, A, a, d),
           NEW f, SumsOf(f, b, A), NEW g, SumsOf(g, c, A)
    PROVE  SumMoved(f, g, A, d)
<1>. USE DEF MovedAt, SumMoved, SumsOf
<1>. DEFINE G == {s \in SUBSET A : g[s] = f[s] + (IF a \in s THEN d ELSE 0)}
<1>1. ASSUME NEW s \in SUBSET A, \A t \in SUBSET s : t # s => t \in G PROVE s \in G
  <2>1. CASE s = {}
    <3>1. f[s] = 0 /\ g[s] = 0  BY <2>1, SumEmpty, Zenon
    <3>. QED  BY <2>1, <3>1
  <2>2. CASE s # {}
    <3>1. /\ Pick(s) \in s /\ Pick(s) \in A /\ s \ {Pick(s)} \in G
          /\ f[s] = b[Pick(s)] + f[s \ {Pick(s)}] /\ g[s] = c[Pick(s)] + g[s \ {Pick(s)}]
      <4>1. f[s] = b[Pick(s)] + f[s \ {Pick(s)}]  BY <2>2, Zenon DEF IsSum
      <4>2. g[s] = c[Pick(s)] + g[s \ {Pick(s)}]  BY <2>2, Zenon DEF IsSum
      <4>3. Pick(s) \in s /\ s \ {Pick(s)} \in G  BY <1>1, <2>2, PickSmaller
      <4>. QED  BY <4>1, <4>2, <4>3
    <3>2. /\ f[s \ {Pick(s)}] \in Int /\ g[s \ {Pick(s)}] \in Int
          /\ b[Pick(s)] \in Int /\ f[s] \in Int /\ g[s] \in Int
      BY <3>1
    <3>3. CASE Pick(s) = a
      <4>1. g[s \ {Pick(s)}] = f[s \ {Pick(s)}] /\ a \in s  BY <3>1, <3>2, <3>3
      <4>. QED  BY <3>1, <3>2, <3>3, <4>1
    <3>4. CASE Pick(s) # a
      <4>1. c[Pick(s)] = b[Pick(s)] /\ (a \in s <=> a \in s \ {Pick(s)})  BY <3>1, <3>4
      <4>. QED  BY <3>1, <3>2, <4>1
    <3>. QED  BY <3>3, <3>4
  <2>. QED  BY <2>1, <2>2
<1>2. G = SUBSET A
  <2>1. G \in SUBSET SUBSET A  OBVIOUS
  <2>. HIDE DEF G
  <2>. QED  BY <1>1, <2>1, SubsetInduction
<1>. QED  BY <1>2

\* A sum of nothing but zeros is zero.
LEMMA SumOfZeros ==
    ASSUME NEW A, IsFiniteSet(A), NEW b, \A a \in A : b[a] = 0, NEW f, IsSum(f, b, SUBSET A)
    PROVE  f[A] = 0
<1>. DEFINE G == {s \in SUBSET A : f[s] = 0}
<1>1. ASSUME NEW s \in SUBSET A, \A t \in SUBSET s : t # s => t \in G PROVE s \in G
  <2>1. CASE s = {}
    <3>1. f[s] = 0  BY <2>1, SumEmpty, Zenon
    <3>. QED  BY <3>1
  <2>2. CASE s # {}
    <3>1. f[s] = b[Pick(s)] + f[s \ {Pick(s)}]  BY <2>2, Zenon DEF IsSum
    <3>2. f[s \ {Pick(s)}] = 0 /\ b[Pick(s)] = 0  BY <1>1, <2>2, PickSmaller
    <3>. QED  BY <3>1, <3>2
  <2>. QED  BY <2>1, <2>2
<1>2. G = SUBSET A
  <2>1. G \in SUBSET SUBSET A  OBVIOUS
  <2>. HIDE DEF G
  <2>. QED  BY <1>1, <2>1, SubsetInduction
<1>. QED  BY <1>2

\* The claims on the pool are such a sum.
LEMMA ClaimsIsSum ==
    ASSUME NEW b \in [Address -> Int]
    PROVE  \E f \in [SUBSET Address -> Int] : IsSum(f, b, SUBSET Address) /\ Claims(b) = f[Address]
<1>. DEFINE h == CHOOSE f : IsSum(f, b, SUBSET Address)
<1>1. PICK f \in [SUBSET Address -> Int] : IsSum(f, b, SUBSET Address)  BY SumExists, AddressAssumption
<1>2. IsSum(h, b, SUBSET Address)  BY <1>1
<1>3. Claims(b) = h[Address]
  BY Zenon DEF Claims, MapThenSumSet, MapThenFoldSet, IsSum, Pick
<1>. HIDE DEF h
<1>4. h = f  BY <1>1, <1>2, SumUnique, AddressAssumption
<1>. QED  BY <1>1, <1>3, <1>4

\* A claim that moves by d moves the claims on the pool by d.
LEMMA ClaimsChange ==
    ASSUME NEW b \in [Address -> Int], NEW a \in Address, NEW d \in Int
    PROVE  /\ Claims(b) \in Int
           /\ Claims([b EXCEPT ![a] = b[a] + d]) = Claims(b) + d
<1>. DEFINE c == [b EXCEPT ![a] = b[a] + d]
<1>1. PICK f \in [SUBSET Address -> Int] : IsSum(f, b, SUBSET Address) /\ Claims(b) = f[Address]
  BY ClaimsIsSum
<1>2. c \in [Address -> Int] /\ c[a] = b[a] + d /\ \A x \in Address : x # a => c[x] = b[x]
  OBVIOUS
<1>. HIDE DEF c
<1>3. PICK g \in [SUBSET Address -> Int] : IsSum(g, c, SUBSET Address) /\ Claims(c) = g[Address]
  BY <1>2, ClaimsIsSum
<1>4. MovedAt(b, c, Address, a, d) /\ SumsOf(f, b, Address) /\ SumsOf(g, c, Address)
  BY <1>1, <1>2, <1>3 DEF MovedAt, SumsOf
<1>5. SumMoved(f, g, Address, d)
  BY <1>4, SumChanges, AddressAssumption
<1>6. g[Address] = f[Address] + d  BY <1>5 DEF SumMoved
<1>. QED  BY <1>1, <1>3, <1>6 DEF c

\* Every step keeps the claims at twice the advances above the liquidity.
LEMMA ClaimsNext ==
    ASSUME FPInv, ClaimsExceedLiquidityByAdvances, [FPNext]_fpVars
    PROVE  ClaimsExceedLiquidityByAdvances'
<1>1. /\ available \in Int /\ balance \in [Address -> Int]
      /\ totals.deposited \in Nat /\ totals.withdrawn \in Nat /\ totals.advanced \in Nat
      /\ totals \in [deposited : Nat, withdrawn : Nat, advanced : Nat]
  BY DEF FPInv, PoolInv, FPTypeOK
<1>2. CASE UNCHANGED <<balance, available, totals>>
  BY <1>2 DEF ClaimsExceedLiquidityByAdvances
<1>3. ASSUME NEW signers \in SignerVecs, NEW timelock \in Timelocks, NEW bps \in DiscountBps,
             NEW threshold \in Thresholds(signers), FPInitialize(signers, threshold, timelock, bps)
      PROVE  UNCHANGED <<balance, available, totals>>
  <2>1. totals = [deposited |-> 0, withdrawn |-> 0, advanced |-> 0]
    BY <1>3 DEF FPInitialize, ACInitialize, FPInv, PoolInv, UntouchedBeforeInit
  <2>2. available = 0
    BY <2>1 DEF FPInv, PoolInv, LiquidityConservation
  <2>. QED  BY <1>3, <2>2 DEF FPInitialize
<1>4. ASSUME NEW caller \in Address, NEW amount \in PoolAmounts, Deposit(caller, amount)
      PROVE  ClaimsExceedLiquidityByAdvances'
  <2>1. /\ amount \in Int /\ available' = available + amount
        /\ balance' = [balance EXCEPT ![caller] = balance[caller] + amount]
        /\ totals'.advanced = totals.advanced
    BY <1>1, <1>4, PoolInputsAssumption DEF Deposit
  <2>2. Claims(balance) \in Int /\ Claims(balance') = Claims(balance) + amount
    BY <1>1, <2>1, ClaimsChange
  <2>. QED  BY <1>1, <2>1, <2>2 DEF ClaimsExceedLiquidityByAdvances
<1>5. ASSUME NEW caller \in Address, NEW amount \in PoolAmounts, Withdraw(caller, amount)
      PROVE  ClaimsExceedLiquidityByAdvances'
  <2>1. /\ amount \in Int /\ -amount \in Int /\ available' = available - amount
        /\ balance' = [balance EXCEPT ![caller] = balance[caller] - amount]
        /\ totals'.advanced = totals.advanced
    BY <1>1, <1>5, PoolInputsAssumption DEF Withdraw
  <2>2. balance[caller] - amount = balance[caller] + (-amount)
    BY <1>1, <2>1
  <2>3. Claims(balance) \in Int /\ Claims(balance') = Claims(balance) + (-amount)
    BY <1>1, <2>1, <2>2, ClaimsChange
  <2>. QED  BY <1>1, <2>1, <2>3 DEF ClaimsExceedLiquidityByAdvances
<1>6. ASSUME NEW caller \in Address, NEW id \in InvoiceIds, NEW faceValue \in FaceValues,
             NEW recipient \in Address, FundInvoice(caller, id, faceValue, recipient)
      PROVE  ClaimsExceedLiquidityByAdvances'
  <2>. DEFINE advance == AdvanceFor(faceValue)
  <2>1. faceValue \in Nat
    BY <1>6, PoolInputsAssumption DEF FundInvoice
  <2>2. advance \in Int
    BY <2>1, AdvanceForIsFloor DEF FPInv, PoolInv, FPTypeOK
  <2>3. /\ available' = available - advance
        /\ balance' = [balance EXCEPT ![recipient] = balance[recipient] + advance]
        /\ totals' = [totals EXCEPT !.advanced = totals.advanced + advance]
    BY <1>6 DEF FundInvoice
  <2>. HIDE DEF advance
  <2>4. totals'.advanced = totals.advanced + advance
    BY <1>1, <2>3
  <2>5. Claims(balance) \in Int /\ Claims(balance') = Claims(balance) + advance
    BY <1>1, <2>2, <2>3, ClaimsChange
  <2>. QED  BY <1>1, <2>2, <2>3, <2>4, <2>5 DEF ClaimsExceedLiquidityByAdvances
<1>. QED
  BY <1>2, <1>3, <1>4, <1>5, <1>6
     DEF FPNext, FPOps, SetTokenAddress, SetOracleDiscountConfig, SetPriceFeed,
         ledgerVars, poolVars, fpVars

-----------------------------------------------------------------------------
(* The theorems. *)

\* The inductive invariant holds in every reachable state.
THEOREM FPInvariance == FPSpec => []FPInv
<1>1. FPInit => FPInv
  BY FPInvInit
<1>2. FPInv /\ [FPNext]_fpVars => FPInv'
  BY FPInvNext
<1>. QED
  BY <1>1, <1>2, PTL DEF FPSpec

\* No claim on the pool becomes negative and no call leaves the reentrancy guard
\* locked.
THEOREM FPTypeCorrect == FPSpec => []FPTypeOK
<1>1. FPInv => FPTypeOK
  BY DEF FPInv, PoolInv
<1>. QED
  BY <1>1, FPInvariance, PTL

\* Un-deployed liquidity is what was deposited less what was advanced and
\* withdrawn, and never negative: protocol-spec invariant 9 for every history of
\* the pool and every amount.
THEOREM LiquidityIsConserved == FPSpec => []LiquidityConservation
<1>1. FPInv => LiquidityConservation
  BY DEF FPInv, PoolInv
<1>. QED
  BY <1>1, FPInvariance, PTL

\* The claims on the pool are its un-deployed liquidity and twice the advances, for
\* every number of accounts: fund_invoice opens a claim it takes out of the liquidity.
THEOREM ClaimsAreLiquidityAndAdvances == FPSpec => []ClaimsExceedLiquidityByAdvances
<1>1. FPInit => ClaimsExceedLiquidityByAdvances
  <2>. SUFFICES ASSUME FPInit PROVE Claims(balance) = 0
    BY DEF FPInit, ClaimsExceedLiquidityByAdvances
  <2>1. balance \in [Address -> Int] /\ \A a \in Address : balance[a] = 0
    BY DEF FPInit
  <2>2. ASSUME NEW b \in [Address -> Int], \A a \in Address : b[a] = 0
        PROVE  Claims(b) = 0
    <3>1. PICK f \in [SUBSET Address -> Int] : IsSum(f, b, SUBSET Address) /\ Claims(b) = f[Address]
      BY ClaimsIsSum
    <3>. QED  BY <2>2, <3>1, SumOfZeros, AddressAssumption
  <2>. QED  BY <2>1, <2>2
<1>2. FPInv /\ ClaimsExceedLiquidityByAdvances /\ [FPNext]_fpVars => ClaimsExceedLiquidityByAdvances'
  BY ClaimsNext
<1>. QED
  BY <1>1, <1>2, FPInvariance, PTL DEF FPSpec

\* Every advance on record is the exact floor of the discounted face value.
THEOREM AdvancesAreExact == FPSpec => []AdvanceIsExactFloor
<1>1. FPInv => AdvanceIsExactFloor
  BY DEF FPInv, PoolInv
<1>. QED
  BY <1>1, FPInvariance, PTL

\* Funding records are immutable, also against a second initialize.
THEOREM FundingsAreImmutable == FPSpec => FundingIsImmutable
<1>1. FPInv /\ [FPNext]_fpVars => [KeepsFundings]_fpVars
  <2>. SUFFICES ASSUME FPInv, FPNext PROVE KeepsFundings
    OBVIOUS
  <2>1. CASE UNCHANGED <<fundings, discountBps>>
    BY <2>1 DEF KeepsFundings
  <2>2. ASSUME NEW signers \in SignerVecs, NEW timelock \in Timelocks, NEW bps \in DiscountBps,
               NEW threshold \in Thresholds(signers), FPInitialize(signers, threshold, timelock, bps)
        PROVE  KeepsFundings
    BY <2>2 DEF FPInitialize, ACInitialize, FPInv, PoolInv, UntouchedBeforeInit, KeepsFundings
  <2>3. ASSUME NEW caller \in Address, NEW id \in InvoiceIds, NEW faceValue \in FaceValues,
               NEW recipient \in Address, FundInvoice(caller, id, faceValue, recipient)
        PROVE  KeepsFundings
    BY <2>3 DEF FundInvoice, Has, Put, KeepsFundings, poolConfigVars
  <2>. QED
    BY <2>1, <2>2, <2>3
       DEF FPNext, FPOps, Deposit, Withdraw, SetTokenAddress, SetOracleDiscountConfig, SetPriceFeed,
           ledgerVars, poolVars, poolConfigVars
<1>. QED
  BY <1>1, FPInvariance, PTL DEF FPSpec, FundingIsImmutable

\* The embedded access control of the pool behaves as AccessControl, so every
\* theorem about ACSpec holds of the pool.
THEOREM FPImplementsAC == FPSpec => ACSpec
<1>1. FPInit => ACInit
  BY DEF FPInit
<1>2. [FPNext]_fpVars => [ACNext]_acVars
  BY FPStepIsACStep
<1>. QED
  BY <1>1, <1>2, PTL DEF FPSpec, ACSpec
=============================================================================
