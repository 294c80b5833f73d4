---------------------------- MODULE FundingService ----------------------------
(***************************************************************************)
(* POST /financing-pool/fund: the idempotency interceptor around           *)
(* FinancingPoolService.fundInvoice, which calls the chain through         *)
(* SorobanService.invoke and then writes the invoice row.  A request       *)
(* advances by one action per await; requests of any number of backend     *)
(* instances interleave, and an instance may stop at every await.          *)
(*                                                                         *)
(* A request body is the invoice and the wallet it names.  The idempotency *)
(* key stands for the pair (userId, Idempotency-Key), which is how both    *)
(* the row and the Redis entry are addressed.                              *)
(***************************************************************************)
EXTENDS Naturals, FiniteSets

CONSTANTS
    Requests,        \* the HTTP requests; a retry is another request
    Keys,            \* idempotency keys
    Invoices,
    Wallets,
    None             \* no row, no record, no wallet

Body == [invoice : Invoices, wallet : Wallets]

VARIABLES
    pc,         \* where each request is
    key, body,  \* what each request carries
    answer,     \* what its client was told
    keyRow,     \* IdempotencyKey rows
    cache,      \* Redis records
    invoiceRow, \* the invoice rows
    funder,     \* chain: the wallet whose fund_invoice was applied
    sequence,   \* chain: sequence number of the signing account
    txSeq, tx,  \* the transaction of each request
    halted,     \* FallbackStrategyService.shouldBlockFunding()
    overtaken   \* history: requests whose lock was deleted under them

webVars    == <<pc, key, body, answer>>
keyVars    == <<keyRow, cache, overtaken>>
chainVars  == <<funder, sequence, txSeq, tx>>
fundingVars == <<webVars, keyVars, chainVars, invoiceRow, halted>>

Steps == {"new", "find", "create", "read", "account", "simulate", "send",
          "poll", "write", "store", "cache", "done"}
InHandler == {"read", "account", "simulate", "send", "poll", "write"}
Running   == InHandler \cup {"store"}

ContractErrorCode == {"DuplicateFunding", "InsufficientFunds", "Unauthorized",
                      "InvalidState"}

(* parseContractError with the pool's table: which code the API reports    *)
(* for what the contract, or the transport, said.                          *)
ParseContractError(cause) ==
    CASE cause = "AlreadyFunded" -> "DuplicateFunding"
      [] cause \in {"InsufficientBalance", "InsufficientLiquidity"} ->
            "InsufficientFunds"
      [] cause \in {"Unauthorized", "NotASigner"} -> "Unauthorized"
      [] OTHER -> "InvalidState"

LockedRow(b, r) == [body |-> b, locked |-> TRUE, owner |-> r]
KeyRow == [body : Body, locked : BOOLEAN, owner : Requests]
TxState == {"none", "pending", "applied", "failed"}

ASSUME FundingAssumption ==
    IsFiniteSet(Requests) /\ None \notin Wallets /\ None \notin Body /\ None \notin KeyRow

FundingTypeOK ==
    /\ pc \in [Requests -> Steps]
    /\ key \in [Requests -> Keys] /\ body \in [Requests -> Body]
    /\ answer \in [Requests -> {"none", "success", "replay", "conflict", "error"}
                               \cup ContractErrorCode]
    /\ keyRow \in [Keys -> KeyRow \cup {None}]
    /\ cache \in [Keys -> Body \cup {None}]
    /\ invoiceRow \in [Invoices -> [status : {"PENDING"}, funder : {None}]
                              \cup [status : {"FUNDED"}, funder : Wallets]]
    /\ funder \in [Invoices -> Wallets \cup {None}]
    /\ sequence \in 0 .. Cardinality(Requests)
    /\ txSeq \in [Requests -> 0 .. Cardinality(Requests) + 1]
    /\ tx \in [Requests -> TxState]
    /\ halted \in BOOLEAN
    /\ overtaken \subseteq Requests

FundingInit ==
    /\ pc = [r \in Requests |-> "new"]
    /\ key \in [Requests -> Keys] /\ body \in [Requests -> Body]
    /\ answer = [r \in Requests |-> "none"]
    /\ keyRow = [k \in Keys |-> None]
    /\ cache = [k \in Keys |-> None]
    /\ invoiceRow = [i \in Invoices |-> [status |-> "PENDING", funder |-> None]]
    /\ funder = [i \in Invoices |-> None]
    /\ sequence = 0
    /\ txSeq = [r \in Requests |-> 0]
    /\ tx = [r \in Requests |-> "none"]
    /\ halted = FALSE
    /\ overtaken = {}

-----------------------------------------------------------------------------
(* Steps of a request: moving on, or answering and being done.             *)

GoTo(r, step) ==
    /\ pc' = [pc EXCEPT ![r] = step]
    /\ UNCHANGED <<key, body, answer>>

Reply(r, what) ==
    /\ pc' = [pc EXCEPT ![r] = "done"]
    /\ answer' = [answer EXCEPT ![r] = what]
    /\ UNCHANGED <<key, body>>

(* fundInvoice's catch: a message that speaks of a revert is answered as a *)
(* bad request; whatever else SorobanService threw, a SorobanRpcError      *)
(* included, is parsed again and reported as a ContractError.              *)
Rethrow(r, cause) ==
    Reply(r, IF cause = "revert" THEN "error" ELSE ParseContractError(cause))

-----------------------------------------------------------------------------
(* IdempotencyInterceptor.intercept, up to the handler.                    *)

(* Redis lookup and replayFromCache.  A record for another body is a       *)
(* conflict, one for this body is replayed; a miss and a Redis failure     *)
(* both go on to the database.                                             *)
LookupCache(r) ==
    /\ pc[r] = "new"
    /\ \/ GoTo(r, "find")
       \/ cache[key[r]] \notin {None, body[r]} /\ Reply(r, "conflict")
       \/ cache[key[r]] = body[r] /\ Reply(r, "replay")
    /\ UNCHANGED <<keyVars, chainVars, invoiceRow, halted>>

FindIgnoresBody(r) ==
    /\ pc[r] = "find"
    /\ \/ keyRow[key[r]] = None /\ GoTo(r, "create")
       \/ /\ keyRow[key[r]] # None
          /\ Reply(r, IF keyRow[key[r]].locked THEN "conflict" ELSE "replay")
    /\ UNCHANGED <<keyVars, chainVars, invoiceRow, halted>>

(* The row decides: other body or locked is a conflict, complete is replayed. *)
FindKey(r) ==
    /\ pc[r] = "find"
    /\ LET row == keyRow[key[r]] IN
          \/ row = None /\ GoTo(r, "create")
          \/ /\ row # None
             /\ Reply(r, IF row.body # body[r] \/ row.locked
                         THEN "conflict" ELSE "replay")
    /\ UNCHANGED <<keyVars, chainVars, invoiceRow, halted>>

CreateTakesOver(r) ==
    /\ pc[r] = "create"
    /\ GoTo(r, "read")
    /\ keyRow' = [keyRow EXCEPT ![key[r]] = LockedRow(body[r], r)]
    /\ UNCHANGED <<cache, overtaken, chainVars, invoiceRow, halted>>

(* Inserting the locked row; the unique constraint refuses the second.     *)
CreateLock(r) ==
    /\ pc[r] = "create"
    /\ \/ /\ keyRow[key[r]] = None
          /\ keyRow' = [keyRow EXCEPT ![key[r]] = LockedRow(body[r], r)]
          /\ GoTo(r, "read")
       \/ /\ keyRow[key[r]] # None /\ Reply(r, "conflict")
          /\ UNCHANGED keyRow
    /\ UNCHANGED <<cache, overtaken, chainVars, invoiceRow, halted>>

-----------------------------------------------------------------------------
(* FinancingPoolService.fundInvoice and SorobanService.invoke.             *)

(* Halt guard, invoice read and the checks on it.  Whether the caller is   *)
(* the buyer and the amount fits is left open.  An error answer leaves the *)
(* key's row locked.                                                       *)
ReadInvoice(r) ==
    /\ pc[r] = "read"
    /\ IF invoiceRow[body[r].invoice].status # "PENDING" /\ ~halted
       THEN Reply(r, "DuplicateFunding")
       ELSE (~halted /\ GoTo(r, "account")) \/ Reply(r, "error")
    /\ UNCHANGED <<keyVars, chainVars, invoiceRow, halted>>

(* getAccount: the transaction is built with the next sequence number.     *)
LoadAccount(r) ==
    /\ pc[r] = "account"
    /\ \/ GoTo(r, "simulate") /\ txSeq' = [txSeq EXCEPT ![r] = sequence + 1]
       \/ Rethrow(r, "transport") /\ UNCHANGED txSeq
    /\ UNCHANGED <<keyVars, funder, sequence, tx, invoiceRow, halted>>

(* simulateTransaction and prepareTransaction.  The contract refuses an    *)
(* invoice it has funded; it may refuse for its other reasons, and the     *)
(* call itself may fail.                                                   *)
Simulate(r) ==
    /\ pc[r] = "simulate"
    /\ \/ funder[body[r].invoice] = None /\ GoTo(r, "send")
       \/ funder[body[r].invoice] # None /\ Rethrow(r, "AlreadyFunded")
       \/ \E c \in {"InsufficientLiquidity", "Unauthorized", "revert", "transport"} :
             Rethrow(r, c)
    /\ UNCHANGED <<keyVars, chainVars, invoiceRow, halted>>

(* sendTransaction: taken into the network's queue, rejected, refused for  *)
(* now (which the code does not tell from acceptance), or lost on the way  *)
(* there or back.                                                          *)
Send(r) ==
    /\ pc[r] = "send"
    /\ \/ /\ txSeq[r] = sequence + 1
          /\ \A q \in Requests : tx[q] # "pending"
          /\ tx' = [tx EXCEPT ![r] = "pending"]
          /\ GoTo(r, "poll") \/ Rethrow(r, "transport")
       \/ GoTo(r, "poll") /\ UNCHANGED tx
       \/ Rethrow(r, "transport") /\ UNCHANGED tx
    /\ UNCHANGED <<keyVars, funder, sequence, txSeq, invoiceRow, halted>>

PollAnyFinal(r) ==
    /\ pc[r] = "poll"
    /\ \/ tx[r] \in {"applied", "failed"} /\ GoTo(r, "write")
       \/ Rethrow(r, "transport")
    /\ UNCHANGED <<keyVars, chainVars, invoiceRow, halted>>

(* pollForResult: SUCCESS goes on; FAILED, no final status within the      *)
(* polling window and a transport error all throw.                         *)
Poll(r) ==
    /\ pc[r] = "poll"
    /\ \/ tx[r] = "applied" /\ GoTo(r, "write")
       \/ tx[r] = "failed" /\ Rethrow(r, "AlreadyFunded")
       \/ Rethrow(r, "transport")
    /\ UNCHANGED <<keyVars, chainVars, invoiceRow, halted>>

(* The invoice row and its audit row in one transaction, or an error; then *)
(* the handler has answered.                                               *)
WriteInvoice(r) ==
    /\ pc[r] = "write"
    /\ \/ /\ invoiceRow' = [invoiceRow EXCEPT ![body[r].invoice] =
                [status |-> "FUNDED", funder |-> body[r].wallet]]
          /\ answer' = [answer EXCEPT ![r] = "success"]
          /\ pc' = [pc EXCEPT ![r] = "store"]
          /\ UNCHANGED <<key, body>>
       \/ Reply(r, "error") /\ UNCHANGED invoiceRow
    /\ UNCHANGED <<keyVars, chainVars, halted>>

-----------------------------------------------------------------------------
(* The tap after the handler, which nobody awaits.                         *)

(* The row this request inserted gets the response and is unlocked; when   *)
(* it is gone (released as stale), or the write fails, nothing is stored.  *)
StoreResponse(r) ==
    /\ pc[r] = "store"
    /\ \/ /\ keyRow[key[r]] # None /\ keyRow[key[r]].owner = r
          /\ keyRow' = [keyRow EXCEPT ![key[r]].locked = FALSE]
          /\ GoTo(r, "cache")
       \/ GoTo(r, "done") /\ UNCHANGED keyRow
    /\ UNCHANGED <<cache, overtaken, chainVars, invoiceRow, halted>>

(* setIfNotExists; a Redis failure is swallowed.                           *)
StoreCache(r) ==
    /\ pc[r] = "cache"
    /\ GoTo(r, "done")
    /\ \/ cache' = [cache EXCEPT ![key[r]] = IF @ = None THEN body[r] ELSE @]
       \/ UNCHANGED cache
    /\ UNCHANGED <<keyRow, overtaken, chainVars, invoiceRow, halted>>

Crash(r) ==
    /\ pc[r] \in Steps \ {"new", "done"}
    /\ GoTo(r, "done")
    /\ UNCHANGED <<keyVars, chainVars, invoiceRow, halted>>

-----------------------------------------------------------------------------
(* Background jobs, Redis and the chain.                                   *)

(* releaseStaleLocks: a row locked for longer than the cutoff is deleted,  *)
(* whether its request is gone or only slow.                               *)
ReleaseStaleLock(k) ==
    /\ keyRow[k] # None /\ keyRow[k].locked
    /\ keyRow' = [keyRow EXCEPT ![k] = None]
    /\ overtaken' = overtaken \cup {r \in {keyRow[k].owner} : pc[r] \in Running}
    /\ UNCHANGED <<webVars, cache, chainVars, invoiceRow, halted>>

(* deleteExpiredKeys on a complete row (a locked one is stale long before). *)
DeleteExpiredKey(k) ==
    /\ keyRow[k] # None /\ ~keyRow[k].locked
    /\ keyRow' = [keyRow EXCEPT ![k] = None]
    /\ UNCHANGED <<webVars, cache, overtaken, chainVars, invoiceRow, halted>>

ExpireCache(k) ==
    /\ cache[k] # None
    /\ cache' = [cache EXCEPT ![k] = None]
    /\ UNCHANGED <<webVars, keyRow, overtaken, chainVars, invoiceRow, halted>>

(* The network applies a queued transaction, and the pool contract refuses *)
(* an invoice it has funded; or the transaction's time bounds pass.        *)
CloseLedgerWith(r) ==
    /\ tx[r] = "pending"
    /\ \/ /\ sequence' = sequence + 1
          /\ IF funder[body[r].invoice] = None
             THEN /\ funder' = [funder EXCEPT ![body[r].invoice] = body[r].wallet]
                  /\ tx' = [tx EXCEPT ![r] = "applied"]
             ELSE /\ tx' = [tx EXCEPT ![r] = "failed"]
                  /\ UNCHANGED funder
       \/ tx' = [tx EXCEPT ![r] = "none"] /\ UNCHANGED <<funder, sequence>>
    /\ UNCHANGED <<webVars, keyVars, txSeq, invoiceRow, halted>>

(* The contract is public: an investor may fund without this backend.      *)
FundElsewhere(i, w) ==
    /\ funder[i] = None
    /\ funder' = [funder EXCEPT ![i] = w]
    /\ UNCHANGED <<webVars, keyVars, sequence, txSeq, tx, invoiceRow, halted>>

(* FallbackStrategyService.activate in halt mode; nothing deactivates it.  *)
ActivateHalt ==
    /\ ~halted
    /\ halted' = TRUE
    /\ UNCHANGED <<webVars, keyVars, chainVars, invoiceRow>>

FundingNext ==
    \/ \E r \in Requests :
          \/ LookupCache(r) \/ FindKey(r) \/ CreateLock(r)
          \/ ReadInvoice(r) \/ LoadAccount(r) \/ Simulate(r)
          \/ Send(r) \/ Poll(r) \/ WriteInvoice(r)
          \/ StoreResponse(r) \/ StoreCache(r) \/ Crash(r)
          \/ CloseLedgerWith(r)
    \/ \E k \in Keys : ReleaseStaleLock(k) \/ DeleteExpiredKey(k) \/ ExpireCache(k)
    \/ \E i \in Invoices, w \in Wallets : FundElsewhere(i, w)
    \/ ActivateHalt

FundingSpec == FundingInit /\ [][FundingNext]_fundingVars

-----------------------------------------------------------------------------
(* The invoice row never claims a funding the chain does not have, and     *)
(* names the wallet the chain paid, also when several requests with        *)
(* different keys race for one invoice.                                    *)
RowFollowsChain ==
    \A i \in Invoices : invoiceRow[i].status = "FUNDED" =>
        invoiceRow[i].funder = funder[i]

(* Whoever is told that his request succeeded, at first hand or by a       *)
(* replay from the row or from Redis, asked for exactly the funding that   *)
(* the row and the chain carry.                                            *)
SuccessIsReal ==
    \A r \in Requests : answer[r] \in {"success", "replay"} =>
        /\ invoiceRow[body[r].invoice].status = "FUNDED"
        /\ invoiceRow[body[r].invoice].funder = body[r].wallet

(* An investor who is told that the invoice is funded already can rely on  *)
(* it: the chain has the funding, whichever of the row's status, the       *)
(* simulation and the failed transaction the answer came from.             *)
DuplicateMeansFunded ==
    \A r \in Requests : answer[r] = "DuplicateFunding" =>
        funder[body[r].invoice] # None

(* Two handlers of one key run at the same time only when the lock of one  *)
(* of them was released as stale while it was still running.               *)
OneHandlerPerKey ==
    \A q, r \in Requests :
        q # r /\ key[q] = key[r] /\ pc[q] \in Running /\ pc[r] \in Running
        => q \in overtaken \/ r \in overtaken

(* The rows are well formed and say no more than the chain.                *)
FundingInv == FundingTypeOK /\ RowFollowsChain

(* What clients are told is true, of a success as of a refusal.            *)
AnswersAreTrue == SuccessIsReal /\ DuplicateMeansFunded
=============================================================================
