---------------------------- MODULE ChainObserver ----------------------------
(***************************************************************************)
(* The chain observers (packages/chain-observer): EvmObserver, the XRPL and *)
(* the Solana observer, the XRPL-EVM adapter on top of the first, the       *)
(* registry over all of them, and the reorg detector.                      *)
(*                                                                         *)
(* A call is one method invocation.  It advances one awaited RPC at a time, *)
(* while other calls run, the chain grows and clients are dropped; every    *)
(* RPC may fail, in a way that withRetry repeats or in a way it does not.   *)
(***************************************************************************)
EXTENDS Integers, Sequences, FiniteSets, SequencesExt

CONSTANTS
    Calls,
    Asks,             \* Asks[c]: what call c may ask: [chain, op, query]
    EvmLogs,          \* Transfer events: [tx, index, block, from, to, token, amount]
    XrplTxs,          \* [tx, block, type, from, to, max, partial, failed, delivered, got]
    SolanaTxs,        \* [tx, block, known, failed, instructions]
    TokenDecimals,    \* what the token contracts answer
    BridgeContracts,
    Nothing,
    MaxTip, FinalityLag,
    maxRetries, maxTokenCache,
    defaultWindow, maxFilterlessSpan, maxSpan,
    maxDepth, BlockNumbers, BlockHashes

VARIABLES
    tip,            \* the newest block of the chains
    client,         \* client[chain]: a client is there, and connected
    tokenMetaCache, \* a Map: its entries, oldest first
    call,
    observers,      \* the registered chains
    multi,          \* the last MultiChainResult, with its targets
    blockBuffer,    \* the reorg detector's Map, oldest first
    checked         \* its last answer, with the history it is judged by

observerVars == <<tip, client, tokenMetaCache, call, observers, multi, blockBuffer, checked>>

Chains == {"evm", "xrpl", "solana"}
Codes == {"RATE_LIMITED", "RPC_ERROR"}

Idle == [pc |-> "idle", chain |-> Nothing, op |-> Nothing, query |-> Nothing, attempt |-> 0,
         tip |-> 0, from |-> 0, to |-> 0, seen |-> <<>>, todo |-> {}, meta |-> <<>>, out |-> <<>>]

NoCheck == [told |-> <<>>, block |-> Nothing, prior |-> Nothing, age |-> 0, reported |-> FALSE]

ObserverInit ==
    /\ tip = 1
    /\ client = [ch \in Chains |-> FALSE]
    /\ tokenMetaCache = <<>>
    /\ call = [c \in Calls |-> Idle]
    /\ observers = {}
    /\ multi = [targets |-> <<>>, successes |-> <<>>, errors |-> <<>>]
    /\ blockBuffer = <<>>
    /\ checked = NoCheck

-----------------------------------------------------------------------------
(* withRetry and runRpc.                                                   *)

RETRYABLE_CODES == {"RATE_LIMITED", "RPC_TIMEOUT", "RPC_UNREACHABLE"}
isRetryableRpcError(code) == code \in RETRYABLE_CODES

(* The call ends.  What only its further steps would read is dropped.      *)
Ends(f, pc, out) == [f EXCEPT !.pc = pc, !.out = out, !.seen = <<>>, !.meta = <<>>, !.attempt = 0]
Returns(f, out) == Ends(f, "done", out)
Throws(f, code) == Ends(f, "failed", code)

(* The next runRpc of a call counts its attempts anew.                     *)
Awaits(f, pc) == [f EXCEPT !.pc = pc, !.attempt = 0]

(* Where the function begins that withRetry calls again.                   *)
retryFrom(f) ==
    CASE f.pc = "outgoing" -> IF f.query.direction = "outgoing" THEN "outgoing" ELSE "incoming"
      [] OTHER -> f.pc

NoBalance == [balance |-> Nothing, atBlock |-> Nothing]

(* The answers of a batch are thrown away with it; allLogs is not part of  *)
(* the function that is called again.                                      *)
Again(f) == [f EXCEPT !.pc = retryFrom(f), !.attempt = @ + 1,
                      !.out = IF f.op = "balance" THEN NoBalance ELSE @]

runRpcFails(f, code) ==
    IF isRetryableRpcError(code) /\ f.attempt < maxRetries THEN Again(f) ELSE Throws(f, code)

-----------------------------------------------------------------------------
(* The chains.                                                             *)

OldestFirst(S) ==
    SetToSortSeq(S, LAMBDA a, b : a.block < b.block \/ (a.block = b.block /\ a.index < b.index))

(* eth_getLogs; a negative block is no block.                              *)
getLogs(q, role, from, to) ==
    OldestFirst({l \in EvmLogs : /\ l.block \in from..to /\ l.block <= tip
                                 /\ q.token # Nothing => l.token = q.token
                                 /\ l[role] = q.address})

Page(S, n) ==
    LET newest == SetToSortSeq(S, LAMBDA a, b : a.block > b.block)
    IN  SubSeq(newest, 1, IF Len(newest) < n THEN Len(newest) ELSE n)

(* account_tx: the newest page; the marker to the next is not followed.    *)
(* What the ledger took in with a tec result is in it too.                 *)
accountTx(q) ==
    Page({t \in XrplTxs : /\ t.block <= tip /\ q.address \in {t.from, t.to}
                          /\ q.fromBlock # Nothing => t.block >= q.fromBlock
                          /\ q.toBlock # Nothing => t.block <= q.toBlock},
         IF q.limit = Nothing THEN 100 ELSE q.limit)

(* getSignaturesForAddress at a commitment, of failed transactions too.    *)
getSignatures(q, commitment) ==
    Page({t \in SolanaTxs :
            /\ t.block <= (IF commitment = "finalized" THEN tip - FinalityLag ELSE tip)
            /\ \E k \in DOMAIN t.instructions :
                 q.address \in {t.instructions[k].from, t.instructions[k].to}},
         IF q.limit = Nothing THEN 100 ELSE q.limit)

byBlock(events) ==
    LET before(i, j) == events[i].block < events[j].block \/ (events[i].block = events[j].block /\ i < j)
        order == SetToSortSeq(DOMAIN events, before)
    IN  [k \in DOMAIN events |-> events[order[k]]]

limited(q, events) ==
    IF q.limit # Nothing /\ Len(events) > q.limit THEN SubSeq(events, 1, q.limit) ELSE events

-----------------------------------------------------------------------------
(* EvmObserver.getTransfers.                                               *)

(* Only one log of a transaction.                                          *)
logSeen_ByTransaction(seen, log) == \E k \in DOMAIN seen : seen[k].tx = log.tx

logSeen(seen, log) == \E k \in DOMAIN seen : seen[k].tx = log.tx /\ seen[k].index = log.index

addUnseen(seen, logs) ==
    FoldLeft(LAMBDA acc, l : IF logSeen(acc, l) THEN acc ELSE Append(acc, l), seen, logs)

fallbackMeta == [decimals |-> 18, resolved |-> FALSE]

logToTransferEvent(log, meta) ==
    [tx |-> log.tx, index |-> log.index, block |-> log.block, from |-> log.from, to |-> log.to,
     token |-> log.token, amount |-> log.amount, decimals |-> meta.decimals,
     metaResolved |-> meta.resolved]

(* XrplEvmAdapter.detectBridgeTransfers; no destination yet, so pending.    *)
touchesBridge(e) == {e.token, e.from, e.to} \cap BridgeContracts # {}
bridgeEvents(events) ==
    LET touching == SelectSeq(events, touchesBridge)
    IN  [k \in DOMAIN touching |->
            [source |-> touching[k].tx, amount |-> touching[k].amount, status |-> "pending"]]

evmResult(f) ==
    LET events == [k \in DOMAIN f.seen |-> logToTransferEvent(f.seen[k], f.meta[f.seen[k].token])]
        answer == limited(f.query, byBlock(events))
    IN  Returns(f, IF f.op = "bridge" THEN bridgeEvents(answer) ELSE answer)

cachedMeta(t) == {k \in DOMAIN tokenMetaCache : tokenMetaCache[k].token = t}

(* resolveTokenMeta for every token at once: from the cache, or from the    *)
(* client, which may have been dropped since the call began.               *)
resolveTokens(f) ==
    LET tokens == {f.seen[k].token : k \in DOMAIN f.seen}
        missing == {t \in tokens : cachedMeta(t) = {}}
        meta == [t \in tokens |-> IF t \in missing THEN fallbackMeta
                                  ELSE [decimals |-> tokenMetaCache[CHOOSE k \in cachedMeta(t) : TRUE].decimals,
                                        resolved |-> TRUE]]
        next == [f EXCEPT !.pc = "meta", !.attempt = 0, !.meta = meta,
                          !.todo = IF client["evm"] THEN missing ELSE {}]
    IN  IF next.todo = {} THEN evmResult(next) ELSE next

evictOldestIfFull(cache) == IF Len(cache) >= maxTokenCache THEN Tail(cache) ELSE cache

(* Map.set: a key that is there keeps its place.                           *)
setMeta(cache, t, decimals) ==
    IF \E k \in DOMAIN cache : cache[k].token = t
    THEN [k \in DOMAIN cache |-> IF cache[k].token = t THEN [cache[k] EXCEPT !.decimals = decimals]
                                 ELSE cache[k]]
    ELSE Append(cache, [token |-> t, decimals |-> decimals])

Proceed(c, f) == call' = [call EXCEPT ![c] = f]
OnlyCalls == UNCHANGED <<tip, client, observers, multi, blockBuffer, checked>>

assertBlockSpan(q, from, to) == to - from <= (IF q.token = Nothing THEN maxFilterlessSpan ELSE maxSpan)

(* eth_blockNumber is answered.                                            *)
GetTransfersHead(c) ==
    LET f == call[c]
        from == IF f.query.fromBlock = Nothing THEN tip - defaultWindow ELSE f.query.fromBlock
        to == IF f.query.toBlock = Nothing THEN tip ELSE f.query.toBlock
    IN  /\ f.pc = "head"
        /\ Proceed(c, IF ~assertBlockSpan(f.query, from, to) THEN Throws(f, "BLOCK_RANGE_TOO_LARGE")
                      ELSE IF from < 0 THEN Throws(f, "RPC_ERROR")
                      ELSE [Awaits(f, IF f.query.direction = "outgoing" THEN "outgoing" ELSE "incoming")
                            EXCEPT !.tip = tip, !.from = from, !.to = to])
        /\ UNCHANGED tokenMetaCache /\ OnlyCalls

GetTransfersIncoming(c) ==
    LET f == call[c]
        g == [f EXCEPT !.seen = @ \o getLogs(f.query, "to", f.from, f.to)]
    IN  /\ f.pc = "incoming"
        /\ Proceed(c, IF f.query.direction = "incoming" THEN resolveTokens(g)
                      ELSE [g EXCEPT !.pc = "outgoing"])
        /\ UNCHANGED tokenMetaCache /\ OnlyCalls

GetTransfersOutgoing(c) ==
    LET f == call[c] IN
    /\ f.pc = "outgoing"
    /\ Proceed(c, resolveTokens([f EXCEPT !.seen = addUnseen(@, getLogs(f.query, "from", f.from, f.to))]))
    /\ UNCHANGED tokenMetaCache /\ OnlyCalls

MetaKnown(c, f) == Proceed(c, IF f.todo = {} THEN evmResult(f) ELSE f)

(* The contract does not answer: the defaults stand, and are not cached.    *)
MetaFails(c) ==
    \E t \in call[c].todo :
        /\ call[c].pc = "meta"
        /\ MetaKnown(c, [call[c] EXCEPT !.todo = @ \ {t}])
        /\ UNCHANGED tokenMetaCache /\ OnlyCalls

MetaAnswers(c) ==
    \E t \in call[c].todo :
        /\ call[c].pc = "meta"
        /\ MetaKnown(c, [call[c] EXCEPT !.todo = @ \ {t},
                            !.meta[t] = [decimals |-> TokenDecimals[t], resolved |-> TRUE]])
        /\ tokenMetaCache' = setMeta(evictOldestIfFull(tokenMetaCache), t, TokenDecimals[t])
        /\ OnlyCalls

-----------------------------------------------------------------------------
(* XrplObserver.getTransfers.                                              *)

matchesDirection(q, from, to) ==
    /\ q.direction = "incoming" => to = q.address
    /\ q.direction = "outgoing" => from = q.address

xrplCandidates(q, page) ==
    SelectSeq(page, LAMBDA t : t.type = "Payment" /\ matchesDirection(q, t.from, t.to))

(* A partial payment delivers what its metadata says, if that says it.      *)
deliveredAmount(t) == IF t.partial THEN t.delivered ELSE t.max

(* Only issued currencies are filtered by token.  meta.TransactionResult is *)
(* not looked at: a payment that failed is reported with its maximum.      *)
xrplEvents(q, page) ==
    LET kept == SelectSeq(xrplCandidates(q, page),
                    LAMBDA t : \/ deliveredAmount(t).currency = "XRP" \/ q.token = Nothing
                               \/ deliveredAmount(t).currency = q.token)
    IN  [k \in DOMAIN kept |->
            [tx |-> kept[k].tx, index |-> 1, block |-> kept[k].block, from |-> kept[k].from,
             to |-> kept[k].to, token |-> deliveredAmount(kept[k]).currency,
             amount |-> deliveredAmount(kept[k]).value]]

XrplGetTransfers(c) ==
    LET f == call[c]
        page == accountTx(f.query)
    IN  /\ f.pc = "account_tx" /\ client["xrpl"]
        /\ Proceed(c, IF \E k \in DOMAIN xrplCandidates(f.query, page) :
                            deliveredAmount(xrplCandidates(f.query, page)[k]).currency \in {"unavailable", "missing"}
                      THEN Throws(f, "MALFORMED_RESPONSE")
                      ELSE Returns([f EXCEPT !.tip = tip], xrplEvents(f.query, page)))
        /\ UNCHANGED tokenMetaCache /\ OnlyCalls

-----------------------------------------------------------------------------
(* SolanaObserver.getTransfers.                                            *)

commitmentOf(q) ==
    IF q.finality \in {Nothing, "processed"} THEN "confirmed" ELSE q.finality

Signatures(c) ==
    LET f == call[c]
        page == getSignatures(f.query, commitmentOf(f.query))
    IN  /\ f.pc = "signatures"
        /\ Proceed(c, IF page = <<>> THEN Returns([f EXCEPT !.tip = tip], <<>>)
                      ELSE [Awaits(f, "parsed") EXCEPT !.seen = page, !.tip = tip])
        /\ UNCHANGED tokenMetaCache /\ OnlyCalls

(* A native transfer is dropped under a token filter, a token transfer     *)
(* unless its mint is the filter's.  A plain one names neither mint nor    *)
(* decimals.  meta.err is not looked at.                                   *)
isTransfer(q, ix) ==
    /\ ix.program \in {"system", "spl-token"} /\ ix.type \in {"transfer", "transferChecked"}
    /\ matchesDirection(q, ix.from, ix.to)
    /\ IF ix.program = "system" THEN q.token = Nothing ELSE q.token \in {Nothing, ix.mint}

extractTransfers(q, t) ==
    LET kept == SelectSeq(t.instructions, LAMBDA ix : isTransfer(q, ix))
    IN  [k \in DOMAIN kept |->
            [tx |-> t.tx, index |-> kept[k].index, block |-> t.block, from |-> kept[k].from,
             to |-> kept[k].to, token |-> kept[k].mint, amount |-> kept[k].amount,
             decimals |-> CASE kept[k].program = "system" -> 9
                            [] kept[k].type = "transferChecked" -> kept[k].decimals
                            [] OTHER -> 0]]

(* A signature whose transaction the node does not have is skipped.        *)
ParsedTransactions(c) ==
    LET f == call[c]
        found == SelectSeq(f.seen, LAMBDA t : t.known)
        events == FlattenSeq([k \in DOMAIN found |-> extractTransfers(f.query, found[k])])
    IN  /\ f.pc = "parsed"
        /\ Proceed(c, Returns(f, limited(f.query, byBlock(events))))
        /\ UNCHANGED tokenMetaCache /\ OnlyCalls

-----------------------------------------------------------------------------
(* getStatus: no retry, and no exception.                                  *)

Status(connected, latest, finalized, code) ==
    [connected |-> connected, latest |-> latest, finalized |-> finalized, code |-> code]

XrplStatus(c) ==
    LET f == call[c] IN
    /\ f.chain = "xrpl" /\ f.pc = "latest" /\ client["xrpl"]
    /\ Proceed(c, Returns(f, Status(TRUE, tip, Nothing, Nothing)))
    /\ UNCHANGED tokenMetaCache /\ OnlyCalls

(* With finality configured the client is read again: it may be gone.      *)
StatusLatest(c) ==
    LET f == call[c] IN
    /\ f.pc = "latest"
    /\ Proceed(c, IF ~client[f.chain] THEN Returns(f, Status(TRUE, tip, Nothing, "MALFORMED_RESPONSE"))
                  ELSE [f EXCEPT !.pc = "finality", !.tip = tip])
    /\ UNCHANGED tokenMetaCache /\ OnlyCalls

StatusFinality(c) ==
    LET f == call[c] IN
    /\ f.pc = "finality"
    /\ Proceed(c, Returns(f, Status(TRUE, f.tip, tip - FinalityLag, Nothing)))
    /\ UNCHANGED tokenMetaCache /\ OnlyCalls

EvmStatus(c) == call[c].chain = "evm" /\ (StatusLatest(c) \/ StatusFinality(c))
SolanaStatus(c) == call[c].chain = "solana" /\ (StatusLatest(c) \/ StatusFinality(c))

-----------------------------------------------------------------------------
(* getBalance.  A balance is told apart by the block it belongs to.        *)

BalanceDone(f) == IF Nothing \in {f.out.balance, f.out.atBlock} THEN f ELSE Returns(f, f.out)

(* One of the two requests of a batch is answered.                         *)
BalanceAnswer(c) ==
    \E field \in {"balance", "atBlock"} :
        /\ call[c].out[field] = Nothing
        /\ Proceed(c, BalanceDone([call[c] EXCEPT !.out[field] = tip]))

(* The balance of a given block needs no second request.                   *)
EvmBalance(c) ==
    LET q == call[c].query IN
    /\ call[c].chain = "evm" /\ call[c].pc = "balance"
    /\ IF q.atBlock = Nothing THEN BalanceAnswer(c)
       ELSE Proceed(c, Returns(call[c], [balance |-> q.atBlock, atBlock |-> q.atBlock]))
    /\ UNCHANGED tokenMetaCache /\ OnlyCalls

SolanaBalance(c) ==
    /\ call[c].chain = "solana" /\ call[c].pc = "balance"
    /\ BalanceAnswer(c)
    /\ UNCHANGED tokenMetaCache /\ OnlyCalls

(* account_info names the ledger it answers from.                          *)
XrplBalance(c) ==
    LET at == IF call[c].query.atBlock = Nothing THEN tip ELSE call[c].query.atBlock IN
    /\ call[c].chain = "xrpl" /\ call[c].pc = "balance" /\ client["xrpl"]
    /\ Proceed(c, Returns(call[c], [balance |-> at, atBlock |-> at]))
    /\ UNCHANGED tokenMetaCache /\ OnlyCalls

-----------------------------------------------------------------------------
(* getTokenBalance: [balance, decimals].                                   *)

TokenBalanceStep(c, chain, answers) ==
    /\ call[c].chain = chain /\ call[c].pc = "tokenBalance"
    /\ \E x \in answers : Proceed(c, Returns(call[c], x))
    /\ UNCHANGED tokenMetaCache /\ OnlyCalls

(* balanceOf, decimals and symbol in one batch.                            *)
EvmTokenBalance(c) ==
    TokenBalanceStep(c, "evm", {[balance |-> tip, decimals |-> TokenDecimals[t]] : t \in DOMAIN TokenDecimals})

(* No trust line is a zero balance; issued tokens have fifteen digits.     *)
XrplTokenBalance(c) ==
    client["xrpl"] /\ TokenBalanceStep(c, "xrpl", [balance : {0, tip}, decimals : {15}])

(* No token account is a zero balance of unknown decimals.                 *)
SolanaTokenBalance(c) ==
    TokenBalanceStep(c, "solana", {[balance |-> 0, decimals |-> 0], [balance |-> tip, decimals |-> 6]})

-----------------------------------------------------------------------------
(* Every call.                                                             *)

firstStage(a) ==
    CASE a.op = "status" -> "latest"
      [] a.op = "balance" -> "balance"
      [] a.op = "tokenBalance" -> "tokenBalance"
      [] a.op \in {"transfers", "bridge"} ->
           [evm |-> "head", xrpl |-> "account_tx", solana |-> "signatures"][a.chain]

(* The part of a method before its first await: requireClient first.       *)
Begin(c, a) ==
    LET f == [Idle EXCEPT !.chain = a.chain, !.op = a.op, !.query = a.query,
                          !.out = IF a.op = "balance" THEN NoBalance ELSE <<>>]
    IN  /\ call[c].pc = "idle"
        /\ Proceed(c, IF ~client[a.chain]
                      THEN IF a.op = "status" THEN Returns(f, Status(FALSE, Nothing, Nothing, "NOT_CONNECTED"))
                           ELSE Throws(f, "NOT_CONNECTED")
                      ELSE IF a.chain = "xrpl" /\ a.op = "tokenBalance" /\ a.query.issuer = Nothing
                      THEN Throws(f, "INVALID_QUERY")
                      ELSE [f EXCEPT !.pc = firstStage(a)])
        /\ UNCHANGED tokenMetaCache /\ OnlyCalls

RpcStages == {"head", "incoming", "outgoing", "account_tx", "signatures", "parsed", "balance",
              "tokenBalance"}

(* An RPC fails: the loop of withRetry, or the catch of getStatus.         *)
RpcFails(c) ==
    LET f == call[c] IN
    \E code \in Codes :
        /\ Proceed(c, CASE f.pc \in RpcStages -> runRpcFails(f, code)
                        [] f.pc = "latest" -> Returns(f, Status(FALSE, Nothing, Nothing, code))
                        [] f.pc = "finality" -> Returns(f, Status(TRUE, f.tip, Nothing, code))
                        [] OTHER -> f)
        /\ f.pc \in RpcStages \cup {"latest", "finality"}
        /\ UNCHANGED tokenMetaCache /\ OnlyCalls

-----------------------------------------------------------------------------
(* connect and disconnect; a websocket may also drop by itself.            *)

Connect(ch) ==
    /\ client' = [client EXCEPT ![ch] = TRUE]
    /\ UNCHANGED <<tip, tokenMetaCache, call, observers, multi, blockBuffer, checked>>

Disconnect(ch) ==
    /\ client' = [client EXCEPT ![ch] = FALSE]
    /\ UNCHANGED <<tip, tokenMetaCache, call, observers, multi, blockBuffer, checked>>

NewBlock ==
    /\ tip < MaxTip
    /\ tip' = tip + 1
    /\ UNCHANGED <<client, tokenMetaCache, call, observers, multi, blockBuffer, checked>>

-----------------------------------------------------------------------------
(* ObserverRegistry.                                                       *)

register(ch) ==
    /\ ch \notin observers
    /\ observers' = observers \cup {ch}
    /\ UNCHANGED <<tip, client, tokenMetaCache, call, multi, blockBuffer, checked>>

unregister(ch) ==
    /\ observers' = observers \ {ch}
    /\ UNCHANGED <<tip, client, tokenMetaCache, call, multi, blockBuffer, checked>>

partitionResults(targets, failed) ==
    [targets |-> targets,
     successes |-> SelectSeq(targets, LAMBDA ch : ch \notin failed),
     errors |-> SelectSeq(targets, LAMBDA ch : ch \in failed)]

listChains == SetToSeq(observers)

(* connect() reaches the network on the XRPL only; getStatus never rejects. *)
connectAll ==
    \E failed \in SUBSET (observers \cap {"xrpl"}) :
        /\ client' = [ch \in Chains |-> IF ch \in observers THEN ch \notin failed ELSE client[ch]]
        /\ multi' = partitionResults(listChains, failed)
        /\ UNCHANGED <<tip, tokenMetaCache, call, observers, blockBuffer, checked>>

getStatusAll ==
    /\ multi' = partitionResults(listChains, {})
    /\ UNCHANGED <<tip, client, tokenMetaCache, call, observers, blockBuffer, checked>>

disconnectAll ==
    /\ client' = [ch \in Chains |-> client[ch] /\ ch \notin observers]
    /\ UNCHANGED <<tip, tokenMetaCache, call, observers, multi, blockBuffer, checked>>

(* A chain that is not registered, or whose observer throws, is an error    *)
(* among the answers of the others.                                        *)
getBalanceMultiChain(targets) ==
    \E failed \in SUBSET Range(targets) :
        /\ {ch \in Range(targets) : ch \notin observers \/ ~client[ch]} \subseteq failed
        /\ multi' = partitionResults(targets, failed)
        /\ UNCHANGED <<tip, client, tokenMetaCache, call, observers, blockBuffer, checked>>

-----------------------------------------------------------------------------
(* ReorgDetector.                                                          *)

hashAt(buffer, n) == {buffer[k].hash : k \in {j \in DOMAIN buffer : buffer[j].number = n}}

recordBlock(b) ==
    LET buffer == IF hashAt(blockBuffer, b.number) = {} THEN Append(blockBuffer, b) ELSE blockBuffer
    IN  IF Len(buffer) > maxDepth THEN Tail(buffer) ELSE buffer

(* told: every block the caller was told nothing about, in the order of     *)
(* its first report (history).                                             *)
checkBlock(b) ==
    LET reorg == \E h \in hashAt(blockBuffer, b.number) : h # b.hash
        at == {k \in DOMAIN checked.told : checked.told[k].number = b.number}
        known == CHOOSE k \in at : TRUE
        again == at # {} /\ hashAt(blockBuffer, b.number) # {}
        others == SelectSeq(checked.told, LAMBDA x : x.number # b.number)
    IN  /\ blockBuffer' = IF reorg THEN blockBuffer ELSE recordBlock(b)
        /\ checked' = [told |-> IF reorg \/ again THEN checked.told ELSE Append(others, b),
                       block |-> b,
                       prior |-> IF at = {} THEN Nothing ELSE checked.told[known].hash,
                       age |-> IF at = {} THEN 0 ELSE Len(checked.told) - known,
                       reported |-> reorg]
        /\ UNCHANGED <<tip, client, tokenMetaCache, call, observers, multi>>

resetDetector ==
    /\ blockBuffer' = <<>> /\ checked' = NoCheck
    /\ UNCHANGED <<tip, client, tokenMetaCache, call, observers, multi>>

-----------------------------------------------------------------------------
CallStep(c) ==
    \/ \E a \in Asks[c] : Begin(c, a)
    \/ GetTransfersHead(c) \/ GetTransfersIncoming(c) \/ GetTransfersOutgoing(c)
    \/ MetaAnswers(c) \/ MetaFails(c)
    \/ XrplGetTransfers(c) \/ Signatures(c) \/ ParsedTransactions(c)
    \/ EvmStatus(c) \/ XrplStatus(c) \/ SolanaStatus(c)
    \/ EvmBalance(c) \/ XrplBalance(c) \/ SolanaBalance(c)
    \/ EvmTokenBalance(c) \/ XrplTokenBalance(c) \/ SolanaTokenBalance(c)
    \/ RpcFails(c)

ClientStep(ch) == NewBlock \/ Connect(ch) \/ Disconnect(ch)

RegistryStep ==
    \/ \E ch \in Chains : register(ch) \/ unregister(ch) \/ Connect(ch)
    \/ connectAll \/ getStatusAll \/ disconnectAll
    \/ \E targets \in {<<"evm">>, <<"evm", "xrpl">>, <<"solana", "evm", "evm">>} :
         getBalanceMultiChain(targets)

DetectorStep ==
    resetDetector \/ \E n \in BlockNumbers, h \in BlockHashes : checkBlock([number |-> n, hash |-> h])
-----------------------------------------------------------------------------
Answered(c, ch, op) == call[c].pc = "done" /\ call[c].chain = ch /\ call[c].op = op

Wanted(f) ==
    {l \in EvmLogs : /\ l.block \in f.from..f.to
                     /\ f.query.address \in {l.from, l.to} /\ matchesDirection(f.query, l.from, l.to)
                     /\ f.query.token # Nothing => l.token = f.query.token}

Tells(e, l) == e.tx = l.tx /\ e.index = l.index

(* What EvmObserver returns is the transfers asked for: none is missing     *)
(* except beyond the limit, where the oldest are kept, none is foreign, and *)
(* decimals that are marked as resolved are the token's.                   *)
EvmFaithful ==
    \A c \in Calls : Answered(c, "evm", "transfers") =>
        LET f == call[c]
            events == Range(f.out)
        IN  /\ \A e \in events : /\ \E l \in Wanted(f) : Tells(e, l) /\ e.amount = l.amount /\ e.block = l.block
                                 /\ e.metaResolved => e.decimals = TokenDecimals[e.token]
            /\ \A l \in Wanted(f) :
                 \/ l.block > f.tip
                 \/ \E e \in events : Tells(e, l)
                 \/ Len(f.out) = f.query.limit /\ \A e \in events : e.block <= l.block

(* XrplObserver reports what a payment delivered that did not fail, and     *)
(* every such payment of a page that was not cut off.  It reports those     *)
(* that failed as well: DeliveredIsReported.                               *)
XrplFaithful ==
    \A c \in Calls : Answered(c, "xrpl", "transfers") =>
        LET f == call[c]
            mine == {t \in XrplTxs : t.block <= f.tip /\ f.query.address \in {t.from, t.to}}
        IN  /\ \A e \in Range(f.out) :
                 \E t \in mine : /\ e.tx = t.tx /\ e.token = t.got.currency
                                 /\ t.failed \/ e.amount = t.got.value
            /\ (f.query.limit = Nothing /\ f.query.token = Nothing /\ f.query.fromBlock = Nothing) =>
                 \A t \in mine : t.type = "Payment" /\ ~t.failed /\ matchesDirection(f.query, t.from, t.to)
                                   => \E e \in Range(f.out) : e.tx = t.tx

(* SolanaObserver reports no transfer below the finality asked for, and the *)
(* decimals of checked transfers.                                          *)
SolanaFaithful ==
    \A c \in Calls : Answered(c, "solana", "transfers") =>
        \A e \in Range(call[c].out) :
            \E t \in SolanaTxs, k \in 1..3 :
                /\ t.tx = e.tx /\ k \in DOMAIN t.instructions /\ t.instructions[k].index = e.index
                /\ call[c].query.finality = "finalized" => t.block <= call[c].tip - FinalityLag
                /\ t.instructions[k].type = "transferChecked" => e.decimals = t.instructions[k].decimals
                /\ matchesDirection(call[c].query, e.from, e.to)

(* A balance of the XRPL, or at a given block, is the balance of the block  *)
(* it names, however many attempts it took.                                *)
BalanceFaithful ==
    \A c \in Calls :
        Answered(c, "xrpl", "balance") \/ (Answered(c, "evm", "balance") /\ call[c].query.atBlock # Nothing)
            => call[c].out.balance = call[c].out.atBlock

(* The observers' answers are what the chains say of transactions that did  *)
(* not fail, through retries, disconnects in mid-call, evicted and failing  *)
(* token metadata; getStatus never throws.                                 *)
ObservationIsFaithful ==
    /\ EvmFaithful /\ XrplFaithful /\ SolanaFaithful /\ BalanceFaithful
    /\ Len(tokenMetaCache) <= maxTokenCache
    /\ \A c \in Calls : call[c].op = "status" => call[c].pc # "failed"

(* A block number whose hash changed is reported while fewer than maxDepth  *)
(* other blocks were recorded since its first report.                      *)
ForkIsReported ==
    (checked.prior # Nothing /\ checked.prior # checked.block.hash /\ checked.age < maxDepth)
        => checked.reported

(* evm-observer.ts:431: the (transactionHash, logIndex) tuple "removes only *)
(* TRUE duplicates", so a result holds no transfer twice.                  *)
TransfersSeenOnce ==
    \A c \in Calls : Answered(c, "evm", "transfers") =>
        \A i, j \in DOMAIN call[c].out : Tells(call[c].out[i], call[c].out[j]) => i = j

(* xrpl-observer.ts:237-244: reading the maximum "over-states received      *)
(* funds", and the test says that without tfPartialPayment it "IS the       *)
(* delivered amount"; a TransferEvent is "a detected transfer event"        *)
(* (observer.ts:273).  So what the XRPL and the Solana observer report was  *)
(* delivered, and a transaction that failed reports nothing.                *)
DeliveredIsReported ==
    \A c \in Calls :
        /\ Answered(c, "xrpl", "transfers") =>
             \A e \in Range(call[c].out) :
                 \E t \in XrplTxs : e.tx = t.tx /\ e.amount = t.got.value
        /\ Answered(c, "solana", "transfers") =>
             \A e \in Range(call[c].out) : \E t \in SolanaTxs : e.tx = t.tx /\ ~t.failed

(* Observation is sound: answers are what the chains say, but for failed    *)
(* transactions, and forks within the buffer are reported.                 *)
ObserverSound == ObservationIsFaithful /\ ForkIsReported
==============================================================================
