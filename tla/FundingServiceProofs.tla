------------------------ MODULE FundingServiceProofs ------------------------
(***************************************************************************)
(* Proofs about FundingService, for any number of requests, keys, invoices *)
(* and wallets.                                                            *)
(***************************************************************************)
EXTENDS FundingService, FiniteSetTheorems, TLAPS

Answers == {"none", "success", "replay", "conflict", "error"} \cup ContractErrorCode
BeforeSend == {"new", "find", "create", "read", "account", "simulate", "send"}

\* The invoice row carries the funding that the body asks for.
Paid(b) ==
    /\ invoiceRow[b.invoice].status = "FUNDED"
    /\ invoiceRow[b.invoice].funder = b.wallet

\* The requests whose transaction the network took into a ledger.
Included == {r \in Requests : tx[r] \in {"applied", "failed"}}

-----------------------------------------------------------------------------
(* The parts of the inductive invariant. *)

\* The sequence number of the signing account counts the transactions in ledgers.
SequenceCounts == sequence = Cardinality(Included)

\* A transaction was applied for the wallet the chain names, and refused only for
\* an invoice that is funded.
TxFollowsChain ==
    \A r \in Requests :
        /\ tx[r] = "applied" => funder[body[r].invoice] = body[r].wallet
        /\ tx[r] = "failed" => funder[body[r].invoice] # None

\* What a request's place in fundInvoice and its answer imply about its
\* transaction, the row and the chain.
RequestOK(r) ==
    /\ pc[r] \in BeforeSend => tx[r] = "none"
    /\ pc[r] = "write" => tx[r] = "applied"
    /\ pc[r] \in {"store", "cache"} => Paid(body[r])
    /\ answer[r] \in {"success", "replay"} => Paid(body[r])
    /\ answer[r] = "DuplicateFunding" => funder[body[r].invoice] # None
RequestsOK == \A r \in Requests : RequestOK(r)

\* What an idempotency row or a Redis record would replay is true, and a row is the
\* one its owner inserted for its own key and body.
RecordsOK ==
    \A k \in Keys :
        /\ keyRow[k] # None =>
             /\ key[keyRow[k].owner] = k
             /\ body[keyRow[k].owner] = keyRow[k].body
             /\ ~keyRow[k].locked => Paid(keyRow[k].body)
        /\ cache[k] # None => Paid(cache[k])

\* A running handler whose lock was not released under it holds the row of its key.
LocksHeld ==
    \A r \in Requests :
        pc[r] \in Running /\ r \notin overtaken =>
            keyRow[key[r]] # None /\ keyRow[key[r]].owner = r /\ keyRow[key[r]].locked

\* The inductive invariant.
FInv ==
    /\ FundingTypeOK
    /\ SequenceCounts
    /\ TxFollowsChain
    /\ RowFollowsChain
    /\ RequestsOK
    /\ RecordsOK
    /\ LocksHeld

-----------------------------------------------------------------------------
(* Facts about the operators. *)

\* parseContractError reports a known code, and DuplicateFunding only for the
\* contract's AlreadyFunded.
LEMMA ParseFacts ==
    /\ ParseContractError("AlreadyFunded") = "DuplicateFunding"
    /\ ParseContractError("transport") = "InvalidState"
    /\ \A c \in {"InsufficientLiquidity", "Unauthorized", "revert", "transport"} :
         ParseContractError(c) \in {"InsufficientFunds", "Unauthorized", "InvalidState"}
BY DEF ParseContractError

\* What a step never takes back: a funding on the chain, or one in the row.
Keeps ==
    /\ \A i \in Invoices : funder[i] # None => funder'[i] = funder[i]
    /\ \A b \in Body : Paid(b) => Paid(b)'

\* A step that leaves the chain's funders and the rows alone takes nothing back.
LEMMA UnchangedKeeps ==
    ASSUME UNCHANGED <<funder, invoiceRow>>
    PROVE  Keeps
BY DEF Keeps, Paid

\* A row that is FUNDED names a wallet.
LEMMA FundedHasWallet ==
    ASSUME FundingTypeOK, RowFollowsChain, NEW i \in Invoices, invoiceRow[i].status # "PENDING"
    PROVE  /\ invoiceRow[i].status = "FUNDED"
           /\ invoiceRow[i].funder = funder[i]
           /\ funder[i] # None
<1>1. invoiceRow[i] \in [status : {"FUNDED"}, funder : Wallets]
  BY DEF FundingTypeOK
<1>. QED
  BY <1>1, FundingAssumption DEF RowFollowsChain

\* A body has an invoice and a wallet.
LEMMA BodyParts ==
    ASSUME FundingTypeOK, NEW r \in Requests
    PROVE  /\ body[r] \in Body /\ body[r].invoice \in Invoices /\ body[r].wallet \in Wallets
           /\ key[r] \in Keys /\ body[r] # None
<1>1. body[r] \in Body /\ key[r] \in Keys
  BY DEF FundingTypeOK
<1>. QED
  BY <1>1, FundingAssumption DEF Body

\* A request that a step does not move keeps what is said about it.
LEMMA OthersOK ==
    ASSUME FundingTypeOK, NEW q \in Requests, RequestOK(q), Keeps,
           pc'[q] = pc[q], answer'[q] = answer[q], tx'[q] = tx[q], body' = body
    PROVE  RequestOK(q)'
BY BodyParts DEF RequestOK, Keeps

\* Rows and records keep what is said about them.
LEMMA RecordsKept ==
    ASSUME FundingTypeOK, RecordsOK, Keeps, UNCHANGED <<key, body, keyRow, cache>>
    PROVE  RecordsOK'
<1>1. \A k \in Keys : cache[k] # None => cache[k] \in Body
  BY DEF FundingTypeOK
<1>2. \A k \in Keys : keyRow[k] # None => keyRow[k].body \in Body
  BY DEF FundingTypeOK, KeyRow
<1>. QED
  BY <1>1, <1>2 DEF RecordsOK, Keeps

\* The transactions and the chain are as before.
LEMMA ChainKept ==
    ASSUME SequenceCounts, TxFollowsChain, UNCHANGED <<sequence, tx, funder, body>>
    PROVE  SequenceCounts' /\ TxFollowsChain'
BY DEF SequenceCounts, Included, TxFollowsChain

\* A step that only moves request r, possibly answering it, is sound when the new
\* place and answer are.
LEMMA RequestMoves ==
    ASSUME FInv, NEW r \in Requests, NEW step \in Steps, NEW what \in Answers,
           pc' = [pc EXCEPT ![r] = step], answer' = [answer EXCEPT ![r] = what],
           step \in BeforeSend => pc[r] \in BeforeSend,
           step = "write" => tx[r] = "applied",
           step \notin {"store", "cache"},
           step \in Running => pc[r] \in Running,
           what # answer[r] => (what \in {"success", "replay"} => Paid(body[r])),
           what # answer[r] => (what = "DuplicateFunding" => funder[body[r].invoice] # None),
           UNCHANGED <<key, body, keyVars, chainVars, invoiceRow, halted>>
    PROVE  FInv'
<1>. USE DEF keyVars, chainVars
<1>1. Keeps
  BY UnchangedKeeps
<1>2. /\ pc \in [Requests -> Steps] /\ answer \in [Requests -> Answers]
      /\ pc'[r] = step /\ answer'[r] = what
      /\ \A q \in Requests : q # r => pc'[q] = pc[q] /\ answer'[q] = answer[q]
  BY DEF FInv, FundingTypeOK, Answers
<1>3. FundingTypeOK'
  <2>1. pc' \in [Requests -> Steps] /\ answer' \in [Requests -> Answers]
    BY <1>2
  <2>. QED
    BY <2>1 DEF FInv, FundingTypeOK, Answers
<1>4. SequenceCounts' /\ TxFollowsChain'
  BY ChainKept DEF FInv
<1>5. RowFollowsChain'
  BY DEF FInv, RowFollowsChain
<1>6. RequestsOK'
  <2>1. RequestOK(r)'
    <3>1. RequestOK(r)
      BY DEF FInv, RequestsOK
    <3>2. Paid(body[r])' <=> Paid(body[r])
      BY DEF Paid
    <3>. QED
      BY <1>2, <3>1, <3>2 DEF RequestOK
  <2>2. \A q \in Requests : q # r => RequestOK(q)'
    BY <1>1, <1>2, OthersOK DEF FInv, RequestsOK
  <2>. QED
    BY <2>1, <2>2 DEF RequestsOK
<1>7. RecordsOK'
  BY <1>1, RecordsKept DEF FInv
<1>8. LocksHeld'
  BY <1>2 DEF FInv, LocksHeld
<1>. QED
  BY <1>3, <1>4, <1>5, <1>6, <1>7, <1>8 DEF FInv

\* A step that leaves every request where it is.
LEMMA RequestsKept ==
    ASSUME FundingTypeOK, RequestsOK, Keeps, UNCHANGED <<pc, answer, tx, body>>
    PROVE  RequestsOK'
BY OthersOK DEF RequestsOK

-----------------------------------------------------------------------------
(* Every operation preserves the inductive invariant. *)

\* The steps that change nothing but the place and the answer of their request.
LEMMA WebStepsPreserve ==
    ASSUME FInv, NEW r \in Requests,
           \/ LookupCache(r) \/ FindKey(r) \/ ReadInvoice(r) \/ Simulate(r) \/ Poll(r) \/ Crash(r)
    PROVE  FInv'
<1>1. /\ body[r] \in Body /\ body[r].invoice \in Invoices /\ key[r] \in Keys /\ body[r] # None
      /\ pc[r] \in Steps /\ answer[r] \in Answers
      /\ RequestOK(r)
  <2>1. pc[r] \in Steps /\ answer[r] \in Answers
    BY DEF FInv, FundingTypeOK, Answers
  <2>. QED
    BY <2>1, BodyParts DEF FInv, RequestsOK
<1>2. /\ answer = [answer EXCEPT ![r] = answer[r]]
      /\ UNCHANGED <<key, body, keyVars, chainVars, invoiceRow, halted>>
  <2>1. answer = [answer EXCEPT ![r] = answer[r]]
    BY DEF FInv, FundingTypeOK
  <2>. QED
    BY <2>1 DEF LookupCache, FindKey, ReadInvoice, Simulate, Poll, Crash, GoTo, Reply, Rethrow
<1>3. ASSUME NEW step \in Steps \ {"store", "cache"}, GoTo(r, step),
             step \in BeforeSend => pc[r] \in BeforeSend,
             step = "write" => tx[r] = "applied",
             step \in Running => pc[r] \in Running
      PROVE  FInv'
  BY <1>1, <1>2, <1>3, RequestMoves DEF GoTo
<1>4. ASSUME NEW what \in Answers, Reply(r, what),
             what \in {"success", "replay"} => Paid(body[r]),
             what = "DuplicateFunding" => funder[body[r].invoice] # None
      PROVE  FInv'
  <2>1. /\ "done" \in Steps /\ "done" \notin {"store", "cache"} /\ "done" \notin BeforeSend
        /\ "done" # "write" /\ "done" \notin Running
    BY DEF Steps, BeforeSend, Running, InHandler
  <2>. QED
    BY <1>2, <1>4, <2>1, RequestMoves DEF Reply
<1>5. CASE LookupCache(r)
  <2>1. CASE GoTo(r, "find")
    BY <1>3, <1>5, <2>1 DEF LookupCache, Steps, BeforeSend, Running, InHandler
  <2>2. CASE Reply(r, "conflict")
    BY <1>4, <2>2 DEF Answers
  <2>3. CASE cache[key[r]] = body[r] /\ Reply(r, "replay")
    BY <1>1, <1>4, <2>3 DEF Answers, FInv, RecordsOK
  <2>. QED
    BY <1>5, <2>1, <2>2, <2>3 DEF LookupCache
<1>6. CASE FindKey(r)
  <2>1. CASE GoTo(r, "create")
    BY <1>3, <1>6, <2>1 DEF FindKey, Steps, BeforeSend, Running, InHandler
  <2>2. CASE Reply(r, "conflict")
    BY <1>4, <2>2 DEF Answers
  <2>3. CASE /\ keyRow[key[r]] # None /\ keyRow[key[r]].body = body[r]
             /\ ~keyRow[key[r]].locked /\ Reply(r, "replay")
    BY <1>1, <1>4, <2>3 DEF Answers, FInv, RecordsOK
  <2>. QED
    BY <1>6, <2>1, <2>2, <2>3 DEF FindKey
<1>7. CASE ReadInvoice(r)
  <2>1. CASE GoTo(r, "account")
    BY <1>3, <1>7, <2>1 DEF ReadInvoice, Steps, BeforeSend, Running, InHandler
  <2>2. CASE Reply(r, "error")
    BY <1>4, <2>2 DEF Answers
  <2>3. CASE invoiceRow[body[r].invoice].status # "PENDING" /\ Reply(r, "DuplicateFunding")
    BY <1>1, <1>4, <2>3, FundedHasWallet DEF Answers, ContractErrorCode, FInv
  <2>. QED
    BY <1>7, <2>1, <2>2, <2>3 DEF ReadInvoice
<1>8. CASE Simulate(r)
  <2>1. CASE GoTo(r, "send")
    BY <1>3, <1>8, <2>1 DEF Simulate, Steps, BeforeSend, Running, InHandler
  <2>2. CASE funder[body[r].invoice] # None /\ Rethrow(r, "AlreadyFunded")
    BY <1>4, <2>2, ParseFacts DEF Answers, ContractErrorCode, Rethrow
  <2>3. ASSUME NEW c \in {"InsufficientLiquidity", "Unauthorized", "revert", "transport"}, Rethrow(r, c)
        PROVE  FInv'
    BY <1>4, <2>3, ParseFacts DEF Answers, ContractErrorCode, Rethrow
  <2>. QED
    BY <1>8, <2>1, <2>2, <2>3 DEF Simulate
<1>9. CASE Poll(r)
  <2>1. CASE tx[r] = "applied" /\ GoTo(r, "write")
    BY <1>3, <1>9, <2>1 DEF Poll, Steps, BeforeSend, Running, InHandler
  <2>2. CASE tx[r] = "failed" /\ Rethrow(r, "AlreadyFunded")
    BY <1>4, <2>2, ParseFacts DEF Answers, ContractErrorCode, Rethrow, FInv, TxFollowsChain
  <2>3. CASE Rethrow(r, "transport")
    BY <1>4, <2>3, ParseFacts DEF Answers, ContractErrorCode, Rethrow
  <2>. QED
    BY <1>9, <2>1, <2>2, <2>3 DEF Poll
<1>10. CASE Crash(r)
  BY <1>3, <1>10 DEF Crash, Steps, BeforeSend, Running, InHandler
<1>. QED
  BY <1>5, <1>6, <1>7, <1>8, <1>9, <1>10

\* create inserts a locked row only where the key has none, so that a handler that
\* holds its lock keeps it.
LEMMA CreateLockPreserves ==
    ASSUME FInv, NEW r \in Requests, CreateLock(r)
    PROVE  FInv'
<1>1. body[r] \in Body /\ key[r] \in Keys /\ answer[r] \in Answers
  BY BodyParts DEF FInv, FundingTypeOK, Answers
<1>2. CASE keyRow[key[r]] # None /\ Reply(r, "conflict") /\ UNCHANGED keyRow
  <2>1. /\ "done" \in Steps /\ "done" \notin {"store", "cache"} /\ "done" \notin BeforeSend
        /\ "done" # "write" /\ "done" \notin Running /\ "conflict" \in Answers
    BY DEF Steps, BeforeSend, Running, InHandler, Answers
  <2>2. UNCHANGED <<key, body, keyVars, chainVars, invoiceRow, halted>>
    BY <1>2 DEF CreateLock, Reply, keyVars
  <2>. QED
    BY <1>2, <2>1, <2>2, RequestMoves DEF Reply
<1>3. CASE /\ keyRow[key[r]] = None /\ GoTo(r, "read")
           /\ keyRow' = [keyRow EXCEPT ![key[r]] = LockedRow(body[r], r)]
  <2>. DEFINE row == LockedRow(body[r], r)
  <2>1. /\ pc' = [pc EXCEPT ![r] = "read"]
        /\ UNCHANGED <<key, body, answer, cache, overtaken, funder, sequence, txSeq, tx,
                       invoiceRow, halted>>
    BY <1>3 DEF CreateLock, GoTo, chainVars
  <2>2. row \in KeyRow /\ row.body = body[r] /\ row.owner = r /\ row.locked = TRUE /\ row # None
    <3>1. row \in KeyRow
      BY <1>1 DEF LockedRow, KeyRow
    <3>2. row.body = body[r] /\ row.owner = r /\ row.locked = TRUE
      BY DEF LockedRow
    <3>. QED
      BY <3>1, <3>2, FundingAssumption
  <2>. HIDE DEF row
  <2>3. /\ keyRow' \in [Keys -> KeyRow \cup {None}] /\ keyRow'[key[r]] = row
        /\ \A k \in Keys : k # key[r] => keyRow'[k] = keyRow[k]
    BY <1>1, <1>3, <2>2 DEF FInv, FundingTypeOK, row
  <2>4. /\ pc' \in [Requests -> Steps] /\ pc'[r] = "read" /\ pc[r] = "create"
        /\ \A q \in Requests : q # r => pc'[q] = pc[q]
    BY <2>1 DEF FInv, FundingTypeOK, Steps, CreateLock
  <2>5. Keeps
    BY <2>1, UnchangedKeeps
  <2>6. FundingTypeOK'
    BY <2>1, <2>3, <2>4 DEF FInv, FundingTypeOK
  <2>7. SequenceCounts' /\ TxFollowsChain' /\ RowFollowsChain'
    BY <2>1, ChainKept DEF FInv, RowFollowsChain
  <2>8. RequestsOK'
    <3>1. RequestOK(r)'
      BY <2>1, <2>4 DEF FInv, RequestsOK, RequestOK, BeforeSend, Paid
    <3>. QED
      BY <2>1, <2>4, <2>5, <3>1, OthersOK DEF FInv, RequestsOK
  <2>9. RecordsOK'
    <3>1. ASSUME NEW b PROVE Paid(b)' <=> Paid(b)
      BY <2>1 DEF Paid
    <3>. QED
      BY <1>1, <2>1, <2>2, <2>3, <3>1 DEF FInv, RecordsOK
  <2>10. LocksHeld'
    BY <1>1, <1>3, <2>1, <2>2, <2>3, <2>4, BodyParts DEF FInv, LocksHeld
  <2>. QED
    BY <2>6, <2>7, <2>8, <2>9, <2>10 DEF FInv
<1>. QED
  BY <1>2, <1>3 DEF CreateLock

\* getAccount gives the transaction its sequence number.
LEMMA LoadAccountPreserves ==
    ASSUME FInv, NEW r \in Requests, LoadAccount(r)
    PROVE  FInv'
<1>1. CASE Rethrow(r, "transport") /\ UNCHANGED txSeq
  <2>1. /\ "done" \in Steps /\ "done" \notin {"store", "cache"} /\ "done" \notin BeforeSend
        /\ "done" # "write" /\ "done" \notin Running
    BY DEF Steps, BeforeSend, Running, InHandler
  <2>2. UNCHANGED <<key, body, keyVars, chainVars, invoiceRow, halted>>
    BY <1>1 DEF LoadAccount, Rethrow, Reply, chainVars
  <2>3. Reply(r, "InvalidState") /\ "InvalidState" \in Answers
    BY <1>1, ParseFacts DEF Rethrow, Answers, ContractErrorCode
  <2>. QED
    BY <2>1, <2>2, <2>3, RequestMoves DEF Reply
<1>2. CASE GoTo(r, "simulate") /\ txSeq' = [txSeq EXCEPT ![r] = sequence + 1]
  <2>1. /\ pc' = [pc EXCEPT ![r] = "simulate"] /\ pc[r] = "account"
        /\ UNCHANGED <<key, body, answer, keyRow, cache, overtaken, funder, sequence, tx,
                       invoiceRow, halted>>
    BY <1>2 DEF LoadAccount, GoTo, keyVars
  <2>2. /\ pc' \in [Requests -> Steps] /\ pc'[r] = "simulate"
        /\ \A q \in Requests : q # r => pc'[q] = pc[q]
    BY <2>1 DEF FInv, FundingTypeOK, Steps
  <2>3. txSeq' \in [Requests -> 0 .. Cardinality(Requests) + 1]
    <3>1. Cardinality(Requests) \in Nat
      BY FundingAssumption, FS_CardinalityType
    <3>2. sequence + 1 \in 0 .. Cardinality(Requests) + 1
      BY <3>1 DEF FInv, FundingTypeOK
    <3>. QED
      BY <1>2, <3>2 DEF FInv, FundingTypeOK
  <2>4. Keeps
    BY <2>1, UnchangedKeeps
  <2>5. FundingTypeOK'
    BY <2>1, <2>2, <2>3 DEF FInv, FundingTypeOK
  <2>6. SequenceCounts' /\ TxFollowsChain' /\ RowFollowsChain'
    BY <2>1, ChainKept DEF FInv, RowFollowsChain
  <2>7. RequestsOK'
    <3>1. RequestOK(r)'
      BY <2>1, <2>2 DEF FInv, RequestsOK, RequestOK, BeforeSend, Paid
    <3>. QED
      BY <2>1, <2>2, <2>4, <3>1, OthersOK DEF FInv, RequestsOK
  <2>8. RecordsOK'
    BY <2>1, <2>4, RecordsKept DEF FInv
  <2>9. LocksHeld'
    BY <2>1, <2>2 DEF FInv, LocksHeld, Running, InHandler
  <2>. QED
    BY <2>5, <2>6, <2>7, <2>8, <2>9 DEF FInv
<1>. QED
  BY <1>1, <1>2 DEF LoadAccount

\* sendTransaction queues a transaction only of a request that had none, so that no
\* transaction in a ledger is forgotten.
LEMMA SendPreserves ==
    ASSUME FInv, NEW r \in Requests, Send(r)
    PROVE  FInv'
<1>1. pc[r] = "send" /\ tx[r] = "none"
  BY DEF Send, FInv, RequestsOK, RequestOK, BeforeSend
<1>2. PICK step \in {"poll", "done"}, what \in Answers :
        /\ pc' = [pc EXCEPT ![r] = step] /\ answer' = [answer EXCEPT ![r] = what]
        /\ what \in {answer[r], "InvalidState"}
  <2>1. answer = [answer EXCEPT ![r] = answer[r]] /\ answer[r] \in Answers
    BY DEF FInv, FundingTypeOK, Answers
  <2>2. CASE GoTo(r, "poll")
    BY <2>1, <2>2 DEF GoTo
  <2>3. CASE Rethrow(r, "transport")
    BY <2>3, ParseFacts DEF Rethrow, Reply, Answers, ContractErrorCode
  <2>. QED
    BY <2>2, <2>3 DEF Send
<1>3. PICK t \in {"none", "pending"} : tx' = [tx EXCEPT ![r] = t]
  <2>1. tx = [tx EXCEPT ![r] = "none"]
    BY <1>1 DEF FInv, FundingTypeOK
  <2>. QED
    BY <2>1 DEF Send
<1>4. UNCHANGED <<key, body, keyRow, cache, overtaken, funder, sequence, txSeq, invoiceRow, halted>>
  BY DEF Send, GoTo, Rethrow, Reply, keyVars
<1>5. /\ tx' \in [Requests -> TxState] /\ tx'[r] = t
      /\ \A q \in Requests : q # r => tx'[q] = tx[q]
  BY <1>3 DEF FInv, FundingTypeOK, TxState
<1>6. /\ pc' \in [Requests -> Steps] /\ pc'[r] = step
      /\ answer' \in [Requests -> Answers] /\ answer'[r] = what
      /\ \A q \in Requests : q # r => pc'[q] = pc[q] /\ answer'[q] = answer[q]
  BY <1>2 DEF FInv, FundingTypeOK, Steps, Answers
<1>7. Keeps
  BY <1>4, UnchangedKeeps
<1>8. FundingTypeOK'
  BY <1>4, <1>5, <1>6 DEF FInv, FundingTypeOK, Answers
<1>9. Included' = Included
  BY <1>1, <1>5 DEF Included
<1>10. SequenceCounts' /\ TxFollowsChain' /\ RowFollowsChain'
  <2>1. SequenceCounts' /\ RowFollowsChain'
    BY <1>4, <1>9 DEF FInv, SequenceCounts, RowFollowsChain
  <2>2. TxFollowsChain'
    BY <1>3, <1>4, <1>5 DEF FInv, TxFollowsChain
  <2>. QED
    BY <2>1, <2>2
<1>11. RequestsOK'
  <2>1. RequestOK(r)'
    <3>1. RequestOK(r) /\ (Paid(body[r])' <=> Paid(body[r]))
      BY <1>4 DEF FInv, RequestsOK, Paid
    <3>. QED
      BY <1>2, <1>4, <1>6, <3>1 DEF RequestOK, BeforeSend
  <2>. QED
    BY <1>4, <1>5, <1>6, <1>7, <2>1, OthersOK DEF FInv, RequestsOK
<1>12. RecordsOK'
  BY <1>4, <1>7, RecordsKept DEF FInv
<1>13. LocksHeld'
  BY <1>1, <1>2, <1>4, <1>6 DEF FInv, LocksHeld, Running, InHandler
<1>. QED
  BY <1>8, <1>10, <1>11, <1>12, <1>13 DEF FInv

\* The row is written for an applied transaction only, so it names the wallet the
\* chain paid; a row that was FUNDED before named the same wallet.
LEMMA WriteInvoicePreserves ==
    ASSUME FInv, NEW r \in Requests, WriteInvoice(r)
    PROVE  FInv'
<1>1. /\ body[r] \in Body /\ body[r].invoice \in Invoices /\ body[r].wallet \in Wallets
      /\ pc[r] = "write" /\ answer[r] \in Answers
      /\ funder[body[r].invoice] = body[r].wallet
  BY BodyParts DEF FInv, FundingTypeOK, Answers, RequestsOK, RequestOK, TxFollowsChain, WriteInvoice
<1>2. CASE Reply(r, "error") /\ UNCHANGED invoiceRow
  <2>1. /\ "done" \in Steps /\ "done" \notin {"store", "cache"} /\ "done" \notin BeforeSend
        /\ "done" # "write" /\ "done" \notin Running /\ "error" \in Answers
    BY DEF Steps, BeforeSend, Running, InHandler, Answers
  <2>2. UNCHANGED <<key, body, keyVars, chainVars, invoiceRow, halted>>
    BY <1>2 DEF WriteInvoice, Reply
  <2>. QED
    BY <1>2, <2>1, <2>2, RequestMoves DEF Reply
<1>3. CASE /\ invoiceRow' = [invoiceRow EXCEPT ![body[r].invoice] =
                [status |-> "FUNDED", funder |-> body[r].wallet]]
           /\ answer' = [answer EXCEPT ![r] = "success"]
           /\ pc' = [pc EXCEPT ![r] = "store"]
           /\ UNCHANGED <<key, body>>
  <2>. DEFINE row == [status |-> "FUNDED", funder |-> body[r].wallet]
  <2>1. UNCHANGED <<key, body, keyRow, cache, overtaken, funder, sequence, txSeq, tx, halted>>
    BY <1>3 DEF WriteInvoice, keyVars, chainVars
  <2>2. row \in [status : {"FUNDED"}, funder : Wallets] /\ row.status = "FUNDED" /\ row.funder = body[r].wallet
    BY <1>1
  <2>. HIDE DEF row
  <2>3. /\ invoiceRow' \in [Invoices -> [status : {"PENDING"}, funder : {None}]
                              \cup [status : {"FUNDED"}, funder : Wallets]]
        /\ invoiceRow'[body[r].invoice] = row
        /\ \A i \in Invoices : i # body[r].invoice => invoiceRow'[i] = invoiceRow[i]
    <3>1. invoiceRow' = [invoiceRow EXCEPT ![body[r].invoice] = row]
      BY <1>3 DEF row
    <3>. QED
      BY <1>1, <2>2, <3>1 DEF FInv, FundingTypeOK
  <2>4. /\ pc' \in [Requests -> Steps] /\ pc'[r] = "store"
        /\ answer' \in [Requests -> Answers] /\ answer'[r] = "success"
        /\ \A q \in Requests : q # r => pc'[q] = pc[q] /\ answer'[q] = answer[q]
    BY <1>3 DEF FInv, FundingTypeOK, Steps, Answers
  <2>5. Keeps
    <3>1. ASSUME NEW b \in Body, Paid(b) PROVE Paid(b)'
      <4>1. b.invoice \in Invoices
        BY DEF Body
      <4>2. CASE b.invoice = body[r].invoice
        <5>1. funder[b.invoice] = b.wallet
          BY <3>1, <4>1 DEF Paid, FInv, RowFollowsChain
        <5>. QED
          BY <1>1, <2>2, <2>3, <4>2, <5>1 DEF Paid
      <4>3. CASE b.invoice # body[r].invoice
        BY <2>3, <3>1, <4>1, <4>3 DEF Paid
      <4>. QED
        BY <4>2, <4>3
    <3>. QED
      BY <2>1, <3>1 DEF Keeps
  <2>6. FundingTypeOK'
    BY <2>1, <2>3, <2>4 DEF FInv, FundingTypeOK, Answers
  <2>7. SequenceCounts' /\ TxFollowsChain'
    BY <2>1, ChainKept DEF FInv
  <2>8. RowFollowsChain'
    BY <1>1, <2>1, <2>2, <2>3 DEF FInv, RowFollowsChain
  <2>9. RequestsOK'
    <3>1. RequestOK(r)'
      <4>1. Paid(body[r])'
        BY <2>1, <2>2, <2>3 DEF Paid
      <4>. QED
        BY <2>1, <2>4, <4>1 DEF RequestOK, BeforeSend
    <3>. QED
      BY <2>1, <2>4, <2>5, <3>1, OthersOK DEF FInv, RequestsOK
  <2>10. RecordsOK'
    BY <2>1, <2>5, RecordsKept DEF FInv
  <2>11. LocksHeld'
    BY <1>1, <2>1, <2>4 DEF FInv, LocksHeld, Running, InHandler
  <2>. QED
    BY <2>6, <2>7, <2>8, <2>9, <2>10, <2>11 DEF FInv
<1>. QED
  BY <1>2, <1>3 DEF WriteInvoice

\* What a step of the tap, of a background job or of Redis must respect when it
\* changes the rows of the idempotency table or the cache.
LEMMA RecordSteps ==
    ASSUME FInv, pc' \in [Requests -> Steps],
           \A q \in Requests : \/ pc'[q] \in {pc[q], "done"}
                               \/ pc'[q] = "cache" /\ pc[q] = "store",
           keyRow' \in [Keys -> KeyRow \cup {None}], cache' \in [Keys -> Body \cup {None}],
           overtaken' \subseteq Requests, RecordsOK', LocksHeld',
           UNCHANGED <<key, body, answer, chainVars, invoiceRow, halted>>
    PROVE  FInv'
<1>. USE DEF chainVars
<1>1. FundingTypeOK'
  BY DEF FInv, FundingTypeOK
<1>2. SequenceCounts' /\ TxFollowsChain' /\ RowFollowsChain'
  BY ChainKept DEF FInv, RowFollowsChain
<1>3. RequestsOK'
  <2>1. ASSUME NEW q \in Requests PROVE RequestOK(q)'
    <3>1. RequestOK(q) /\ (Paid(body[q])' <=> Paid(body[q]))
      BY DEF FInv, RequestsOK, Paid
    <3>. QED
      BY <3>1 DEF RequestOK, BeforeSend
  <2>. QED
    BY <2>1 DEF RequestsOK
<1>. QED
  BY <1>1, <1>2, <1>3 DEF FInv

\* Only the owner of a row unlocks it, after its handler has funded the invoice.
LEMMA StoreResponsePreserves ==
    ASSUME FInv, NEW r \in Requests, StoreResponse(r)
    PROVE  FInv'
<1>1. /\ key[r] \in Keys /\ pc[r] = "store" /\ Paid(body[r])
      /\ UNCHANGED <<key, body, answer, cache, overtaken, chainVars, invoiceRow, halted>>
  BY BodyParts DEF FInv, RequestsOK, RequestOK, StoreResponse, GoTo
<1>2. ASSUME NEW b PROVE Paid(b)' <=> Paid(b)
  BY <1>1 DEF Paid
<1>3. CASE GoTo(r, "done") /\ UNCHANGED keyRow
  <2>1. /\ pc' \in [Requests -> Steps] /\ pc'[r] = "done"
        /\ \A q \in Requests : q # r => pc'[q] = pc[q]
    BY <1>3 DEF GoTo, FInv, FundingTypeOK, Steps
  <2>2. LocksHeld'
    BY <1>1, <1>3, <2>1 DEF FInv, LocksHeld, Running, InHandler
  <2>3. RecordsOK'
    BY <1>1, <1>2, <1>3 DEF FInv, RecordsOK
  <2>4. /\ keyRow' \in [Keys -> KeyRow \cup {None}] /\ cache' \in [Keys -> Body \cup {None}]
        /\ overtaken' \subseteq Requests
    BY <1>1, <1>3 DEF FInv, FundingTypeOK
  <2>. QED
    BY <1>1, <2>1, <2>2, <2>3, <2>4, RecordSteps
<1>4. CASE /\ keyRow[key[r]] # None /\ keyRow[key[r]].owner = r
           /\ keyRow' = [keyRow EXCEPT ![key[r]].locked = FALSE]
           /\ GoTo(r, "cache")
  <2>. DEFINE row == [keyRow[key[r]] EXCEPT !.locked = FALSE]
  <2>1. /\ pc' \in [Requests -> Steps] /\ pc'[r] = "cache"
        /\ \A q \in Requests : q # r => pc'[q] = pc[q]
    BY <1>4 DEF GoTo, FInv, FundingTypeOK, Steps
  <2>2. keyRow[key[r]] \in KeyRow
    BY <1>1, <1>4 DEF FInv, FundingTypeOK
  <2>3. row \in KeyRow /\ row.owner = r /\ row.body = keyRow[key[r]].body /\ row # None
    <3>1. row \in KeyRow /\ row.owner = r /\ row.body = keyRow[key[r]].body
      BY <1>4, <2>2 DEF KeyRow
    <3>. QED
      BY <3>1, FundingAssumption
  <2>4. body[r] = keyRow[key[r]].body
    BY <1>1, <1>4 DEF FInv, RecordsOK
  <2>5. keyRow' = [keyRow EXCEPT ![key[r]] = row]
    BY <1>4
  <2>. HIDE DEF row
  <2>6. /\ keyRow' \in [Keys -> KeyRow \cup {None}] /\ keyRow'[key[r]] = row
        /\ \A k \in Keys : k # key[r] => keyRow'[k] = keyRow[k]
    BY <1>1, <2>3, <2>5 DEF FInv, FundingTypeOK
  <2>7. RecordsOK'
    BY <1>1, <1>2, <2>3, <2>4, <2>6 DEF FInv, RecordsOK
  <2>8. LocksHeld'
    BY <1>1, <1>4, <2>1, <2>6, BodyParts DEF FInv, LocksHeld, Running, InHandler
  <2>9. cache' \in [Keys -> Body \cup {None}] /\ overtaken' \subseteq Requests
    BY <1>1 DEF FInv, FundingTypeOK
  <2>. QED
    BY <1>1, <2>1, <2>6, <2>7, <2>8, <2>9, RecordSteps
<1>. QED
  BY <1>3, <1>4 DEF StoreResponse

\* A response is cached for a body whose funding is in the row.
LEMMA StoreCachePreserves ==
    ASSUME FInv, NEW r \in Requests, StoreCache(r)
    PROVE  FInv'
<1>1. /\ key[r] \in Keys /\ body[r] \in Body /\ pc[r] = "cache" /\ Paid(body[r])
      /\ pc' = [pc EXCEPT ![r] = "done"]
      /\ UNCHANGED <<key, body, answer, keyRow, overtaken, chainVars, invoiceRow, halted>>
  BY BodyParts DEF FInv, RequestsOK, RequestOK, StoreCache, GoTo
<1>2. ASSUME NEW b PROVE Paid(b)' <=> Paid(b)
  BY <1>1 DEF Paid
<1>3. PICK rec \in {cache[key[r]], body[r]} : cache' = [cache EXCEPT ![key[r]] = rec]
  <2>1. cache = [cache EXCEPT ![key[r]] = cache[key[r]]]
    BY DEF FInv, FundingTypeOK
  <2>. QED
    BY <2>1 DEF StoreCache
<1>4. /\ cache' \in [Keys -> Body \cup {None}] /\ cache'[key[r]] = rec
      /\ \A k \in Keys : k # key[r] => cache'[k] = cache[k]
  BY <1>1, <1>3 DEF FInv, FundingTypeOK
<1>5. RecordsOK'
  BY <1>1, <1>2, <1>4 DEF FInv, RecordsOK
<1>6. /\ pc' \in [Requests -> Steps] /\ pc'[r] = "done"
      /\ \A q \in Requests : q # r => pc'[q] = pc[q]
  BY <1>1 DEF FInv, FundingTypeOK, Steps
<1>7. LocksHeld'
  BY <1>1, <1>6 DEF FInv, LocksHeld, Running, InHandler
<1>8. keyRow' \in [Keys -> KeyRow \cup {None}] /\ overtaken' \subseteq Requests
  BY <1>1 DEF FInv, FundingTypeOK
<1>. QED
  BY <1>1, <1>4, <1>5, <1>6, <1>7, <1>8, RecordSteps

\* Deleting a row or letting a record expire makes no claim; a handler whose lock
\* goes while it runs is overtaken from then on.
LEMMA JobsPreserve ==
    ASSUME FInv, NEW k \in Keys,
           ReleaseStaleLock(k) \/ DeleteExpiredKey(k) \/ ExpireCache(k)
    PROVE  FInv'
<1>1. UNCHANGED <<pc, key, body, answer, chainVars, invoiceRow, halted>>
  BY DEF ReleaseStaleLock, DeleteExpiredKey, ExpireCache, webVars
<1>2. ASSUME NEW b PROVE Paid(b)' <=> Paid(b)
  BY <1>1 DEF Paid
<1>3. pc' \in [Requests -> Steps]
  BY <1>1 DEF FInv, FundingTypeOK
<1>4. CASE ExpireCache(k)
  <2>1. /\ cache' = [cache EXCEPT ![k] = None] /\ UNCHANGED <<keyRow, overtaken>>
    BY <1>4 DEF ExpireCache
  <2>2. /\ cache' \in [Keys -> Body \cup {None}] /\ cache'[k] = None
        /\ \A j \in Keys : j # k => cache'[j] = cache[j]
        /\ keyRow' \in [Keys -> KeyRow \cup {None}] /\ overtaken' \subseteq Requests
    BY <2>1 DEF FInv, FundingTypeOK
  <2>3. RecordsOK' /\ LocksHeld'
    BY <1>1, <1>2, <2>1, <2>2 DEF FInv, RecordsOK, LocksHeld
  <2>. QED
    BY <1>1, <1>3, <2>2, <2>3, RecordSteps
<1>5. CASE ReleaseStaleLock(k) \/ DeleteExpiredKey(k)
  <2>1. /\ keyRow[k] # None /\ keyRow' = [keyRow EXCEPT ![k] = None] /\ UNCHANGED cache
        /\ overtaken \subseteq overtaken' /\ overtaken' \subseteq overtaken \cup {keyRow[k].owner}
        /\ keyRow[k].locked /\ pc[keyRow[k].owner] \in Running => keyRow[k].owner \in overtaken'
    BY <1>5 DEF ReleaseStaleLock, DeleteExpiredKey
  <2>2. keyRow[k].owner \in Requests
    BY <2>1 DEF FInv, FundingTypeOK, KeyRow
  <2>3. /\ keyRow' \in [Keys -> KeyRow \cup {None}] /\ keyRow'[k] = None
        /\ \A j \in Keys : j # k => keyRow'[j] = keyRow[j]
        /\ cache' \in [Keys -> Body \cup {None}] /\ overtaken' \subseteq Requests
    BY <2>1, <2>2 DEF FInv, FundingTypeOK
  <2>4. RecordsOK'
    BY <1>1, <1>2, <2>1, <2>3 DEF FInv, RecordsOK
  <2>5. LocksHeld'
    <3>. SUFFICES ASSUME NEW q \in Requests, pc[q] \in Running, q \notin overtaken'
                  PROVE  keyRow'[key[q]] # None /\ keyRow'[key[q]].owner = q /\ keyRow'[key[q]].locked
      BY <1>1 DEF LocksHeld
    <3>1. key[q] \in Keys
      BY BodyParts DEF FInv
    <3>2. keyRow[key[q]] # None /\ keyRow[key[q]].owner = q /\ keyRow[key[q]].locked
      BY <2>1 DEF FInv, LocksHeld
    <3>3. key[q] # k
      BY <2>1, <3>2
    <3>. QED
      BY <2>3, <3>1, <3>2, <3>3
  <2>. QED
    BY <1>1, <1>3, <2>3, <2>4, <2>5, RecordSteps
<1>. QED
  BY <1>4, <1>5

\* A step of the chain: no request, row or record moves.
LEMMA ChainSteps ==
    ASSUME FInv, UNCHANGED <<webVars, keyVars, txSeq, invoiceRow, halted>>,
           funder' \in [Invoices -> Wallets \cup {None}], tx' \in [Requests -> TxState],
           \A i \in Invoices : funder[i] # None => funder'[i] = funder[i],
           \A r \in Requests : tx'[r] # tx[r] => tx[r] = "pending",
           sequence' \in 0 .. Cardinality(Requests), SequenceCounts', TxFollowsChain'
    PROVE  FInv'
<1>. USE DEF webVars, keyVars
<1>1. FundingTypeOK'
  BY DEF FInv, FundingTypeOK
<1>2. Keeps
  BY DEF Keeps, Paid
<1>3. RowFollowsChain'
  <2>1. ASSUME NEW i \in Invoices, invoiceRow[i].status = "FUNDED"
        PROVE  invoiceRow[i].funder = funder'[i]
    BY <2>1, FundedHasWallet DEF FInv
  <2>. QED
    BY <2>1 DEF RowFollowsChain
<1>4. RequestsOK'
  <2>1. ASSUME NEW r \in Requests PROVE RequestOK(r)'
    <3>1. RequestOK(r) /\ body[r] \in Body /\ body[r].invoice \in Invoices
      BY BodyParts DEF FInv, RequestsOK
    <3>2. CASE tx'[r] = tx[r]
      BY <1>2, <3>1, <3>2, OthersOK DEF FInv
    <3>3. CASE tx[r] = "pending"
      BY <1>2, <3>1, <3>3 DEF RequestOK, Keeps
    <3>. QED
      BY <3>2, <3>3
  <2>. QED
    BY <2>1 DEF RequestsOK
<1>5. RecordsOK'
  BY <1>2, RecordsKept DEF FInv
<1>6. LocksHeld'
  BY DEF FInv, LocksHeld
<1>. QED
  BY <1>1, <1>3, <1>4, <1>5, <1>6 DEF FInv

\* The network applies a queued transaction, refuses it or lets it expire.
LEMMA CloseLedgerWithPreserves ==
    ASSUME FInv, NEW r \in Requests, CloseLedgerWith(r)
    PROVE  FInv'
<1>1. /\ body[r].invoice \in Invoices /\ body[r].wallet \in Wallets /\ tx[r] = "pending"
      /\ funder \in [Invoices -> Wallets \cup {None}] /\ tx \in [Requests -> TxState]
      /\ sequence \in Nat /\ body' = body
      /\ UNCHANGED <<webVars, keyVars, txSeq, invoiceRow, halted>>
  BY BodyParts DEF FInv, FundingTypeOK, CloseLedgerWith, webVars
<1>2. CASE tx' = [tx EXCEPT ![r] = "none"] /\ UNCHANGED <<funder, sequence>>
  <2>1. /\ tx' \in [Requests -> TxState] /\ tx'[r] = "none"
        /\ \A q \in Requests : q # r => tx'[q] = tx[q]
    BY <1>1, <1>2 DEF TxState
  <2>2. Included' = Included
    BY <1>1, <2>1 DEF Included
  <2>3. SequenceCounts'
    BY <1>2, <2>2 DEF FInv, SequenceCounts
  <2>4. TxFollowsChain'
    BY <1>1, <1>2, <2>1 DEF FInv, TxFollowsChain
  <2>5. funder' \in [Invoices -> Wallets \cup {None}] /\ sequence' \in 0 .. Cardinality(Requests)
    BY <1>2 DEF FInv, FundingTypeOK
  <2>. QED
    BY <1>1, <1>2, <2>1, <2>3, <2>4, <2>5, ChainSteps
<1>3. ASSUME NEW t \in {"applied", "failed"}, sequence' = sequence + 1, tx' = [tx EXCEPT ![r] = t]
      PROVE  /\ tx' \in [Requests -> TxState] /\ tx'[r] = t
             /\ \A q \in Requests : q # r => tx'[q] = tx[q]
             /\ SequenceCounts' /\ sequence' \in 0 .. Cardinality(Requests)
  <2>1. /\ tx' \in [Requests -> TxState] /\ tx'[r] = t
        /\ \A q \in Requests : q # r => tx'[q] = tx[q]
    BY <1>1, <1>3 DEF TxState
  <2>2. Included' = Included \cup {r} /\ r \notin Included
    BY <1>1, <2>1 DEF Included
  <2>3. IsFiniteSet(Included)
    BY FundingAssumption, FS_Subset DEF Included
  <2>4. Cardinality(Included') = Cardinality(Included) + 1
    BY <2>2, <2>3, FS_AddElement
  <2>5. SequenceCounts'
    BY <1>3, <2>4 DEF FInv, SequenceCounts
  <2>6. Cardinality(Included') <= Cardinality(Requests) /\ Cardinality(Requests) \in Nat
    <3>1. Included' \subseteq Requests
      BY DEF Included
    <3>. QED
      BY <3>1, FundingAssumption, FS_Subset, FS_CardinalityType
  <2>7. sequence' \in 0 .. Cardinality(Requests)
    BY <1>1, <1>3, <2>5, <2>6 DEF SequenceCounts
  <2>. QED
    BY <2>1, <2>5, <2>7
<1>4. CASE /\ sequence' = sequence + 1 /\ funder[body[r].invoice] = None
           /\ funder' = [funder EXCEPT ![body[r].invoice] = body[r].wallet]
           /\ tx' = [tx EXCEPT ![r] = "applied"]
  <2>1. /\ funder' \in [Invoices -> Wallets \cup {None}]
        /\ funder'[body[r].invoice] = body[r].wallet
        /\ \A i \in Invoices : funder[i] # None => funder'[i] = funder[i]
    BY <1>1, <1>4
  <2>2. TxFollowsChain'
    BY <1>1, <1>3, <1>4, <2>1, BodyParts, FundingAssumption DEF FInv, TxFollowsChain
  <2>. QED
    BY <1>1, <1>3, <1>4, <2>1, <2>2, ChainSteps
<1>5. CASE /\ sequence' = sequence + 1 /\ funder[body[r].invoice] # None
           /\ tx' = [tx EXCEPT ![r] = "failed"] /\ UNCHANGED funder
  <2>1. TxFollowsChain'
    BY <1>1, <1>3, <1>5 DEF FInv, TxFollowsChain
  <2>. QED
    BY <1>1, <1>3, <1>5, <2>1, ChainSteps
<1>. QED
  BY <1>2, <1>4, <1>5 DEF CloseLedgerWith

\* An invoice that an investor funds directly was not funded before.
LEMMA FundElsewherePreserves ==
    ASSUME FInv, NEW i \in Invoices, NEW w \in Wallets, FundElsewhere(i, w)
    PROVE  FInv'
<1>1. /\ funder[i] = None /\ funder' = [funder EXCEPT ![i] = w]
      /\ UNCHANGED <<sequence, tx, body>> /\ funder \in [Invoices -> Wallets \cup {None}]
      /\ tx \in [Requests -> TxState] /\ sequence \in 0 .. Cardinality(Requests)
      /\ UNCHANGED <<webVars, keyVars, txSeq, invoiceRow, halted>>
  BY DEF FundElsewhere, FInv, FundingTypeOK, webVars
<1>2. /\ funder' \in [Invoices -> Wallets \cup {None}]
      /\ \A j \in Invoices : funder[j] # None => funder'[j] = funder[j]
  BY <1>1
<1>3. TxFollowsChain'
  BY <1>1, <1>2, BodyParts, FundingAssumption DEF FInv, TxFollowsChain
<1>4. SequenceCounts'
  BY <1>1 DEF FInv, SequenceCounts, Included
<1>. QED
  BY <1>1, <1>2, <1>3, <1>4, ChainSteps

\* Steps that leave all but the halt flag alone.
LEMMA HaltPreserves ==
    ASSUME FInv, halted' \in BOOLEAN, UNCHANGED <<webVars, keyVars, chainVars, invoiceRow>>
    PROVE  FInv'
<1>. USE DEF webVars, keyVars, chainVars
<1>1. Keeps
  BY UnchangedKeeps
<1>2. FundingTypeOK'
  BY DEF FInv, FundingTypeOK
<1>3. SequenceCounts' /\ TxFollowsChain' /\ RowFollowsChain' /\ LocksHeld'
  BY ChainKept DEF FInv, RowFollowsChain, LocksHeld
<1>4. RequestsOK' /\ RecordsOK'
  BY <1>1, RequestsKept, RecordsKept DEF FInv
<1>. QED
  BY <1>2, <1>3, <1>4 DEF FInv

\* The initial state satisfies the inductive invariant.
LEMMA FInvInit == FundingInit => FInv
<1>. SUFFICES ASSUME FundingInit PROVE FInv
  OBVIOUS
<1>. USE DEF FundingInit
<1>1. Cardinality(Requests) \in Nat
  BY FundingAssumption, FS_CardinalityType
<1>2. 0 \in 0 .. Cardinality(Requests) /\ 0 \in 0 .. Cardinality(Requests) + 1
  BY <1>1
<1>3. FundingTypeOK
  BY <1>2 DEF FundingTypeOK, Steps, TxState
<1>4. SequenceCounts
  <2>1. Included = {}
    BY DEF Included
  <2>. QED
    BY <2>1, FS_EmptySet DEF SequenceCounts
<1>5. TxFollowsChain /\ RowFollowsChain /\ RecordsOK
  BY DEF TxFollowsChain, RowFollowsChain, RecordsOK
<1>6. RequestsOK /\ LocksHeld
  BY DEF RequestsOK, RequestOK, LocksHeld, Running, InHandler
<1>. QED
  BY <1>3, <1>4, <1>5, <1>6 DEF FInv

\* Every step preserves the inductive invariant.
LEMMA FInvNext == FInv /\ [FundingNext]_fundingVars => FInv'
<1>. SUFFICES ASSUME FInv, [FundingNext]_fundingVars PROVE FInv'
  OBVIOUS
<1>1. ASSUME NEW r \in Requests,
             \/ LookupCache(r) \/ FindKey(r) \/ ReadInvoice(r) \/ Simulate(r) \/ Poll(r) \/ Crash(r)
      PROVE  FInv'
  BY <1>1, WebStepsPreserve
<1>2. ASSUME NEW r \in Requests,
             \/ CreateLock(r) \/ LoadAccount(r) \/ Send(r) \/ WriteInvoice(r)
             \/ StoreResponse(r) \/ StoreCache(r) \/ CloseLedgerWith(r)
      PROVE  FInv'
  BY <1>2, CreateLockPreserves, LoadAccountPreserves, SendPreserves, WriteInvoicePreserves,
     StoreResponsePreserves, StoreCachePreserves, CloseLedgerWithPreserves
<1>3. ASSUME NEW k \in Keys, ReleaseStaleLock(k) \/ DeleteExpiredKey(k) \/ ExpireCache(k)
      PROVE  FInv'
  BY <1>3, JobsPreserve
<1>4. ASSUME NEW i \in Invoices, NEW w \in Wallets, FundElsewhere(i, w) PROVE FInv'
  BY <1>4, FundElsewherePreserves
<1>5. CASE ActivateHalt
  BY <1>5, HaltPreserves DEF ActivateHalt
<1>6. CASE UNCHANGED fundingVars
  <2>1. halted' \in BOOLEAN /\ UNCHANGED <<webVars, keyVars, chainVars, invoiceRow>>
    BY <1>6 DEF fundingVars, FInv, FundingTypeOK
  <2>. QED
    BY <2>1, HaltPreserves
<1>. QED
  BY <1>1, <1>2, <1>3, <1>4, <1>5, <1>6 DEF FundingNext

-----------------------------------------------------------------------------
(* The theorems. *)

\* The inductive invariant holds in every reachable state.
THEOREM FundingInvariance == FundingSpec => []FInv
<1>1. FundingInit => FInv
  BY FInvInit
<1>2. FInv /\ [FundingNext]_fundingVars => FInv'
  BY FInvNext
<1>. QED
  BY <1>1, <1>2, PTL DEF FundingSpec

\* The invoice row never claims a funding that the chain does not have, for any
\* number of requests racing for an invoice, crashes, retries and lost answers.
THEOREM RowsFollowTheChain == FundingSpec => []FundingInv
<1>1. FInv => FundingInv
  BY DEF FInv, FundingInv
<1>. QED
  BY <1>1, FundingInvariance, PTL

\* A client that is told of a success, at first hand or by a replay, or of a
\* duplicate funding, is told the truth.
THEOREM AnswersAreAlwaysTrue == FundingSpec => []AnswersAreTrue
<1>1. FInv => AnswersAreTrue
  BY DEF FInv, RequestsOK, RequestOK, Paid, AnswersAreTrue, SuccessIsReal, DuplicateMeansFunded
<1>. QED
  BY <1>1, FundingInvariance, PTL

\* Two handlers run for one idempotency key only after releaseStaleLocks has deleted
\* the row of one of them while it was running.
THEOREM OneHandlerRunsPerKey == FundingSpec => []OneHandlerPerKey
<1>1. FInv => OneHandlerPerKey
  BY DEF FInv, LocksHeld, OneHandlerPerKey
<1>. QED
  BY <1>1, FundingInvariance, PTL
=============================================================================
