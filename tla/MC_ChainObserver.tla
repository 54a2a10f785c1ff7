--------------------------- MODULE MC_ChainObserver ---------------------------
(* Instances of the chain observers for TLC.                               *)
EXTENDS ChainObserver, TLC

CONSTANTS k1, k2

Me == "me"
Log(tx, index, block, from, to, token) ==
    [tx |-> tx, index |-> index, block |-> block, from |-> from, to |-> to, token |-> token,
     amount |-> <<tx, index>>]

(* One transaction with a transfer in and one out, a transfer to oneself,   *)
(* one from the bridge and one of somebody else.                           *)
McEvmLogs ==
    {Log("t1", 1, 1, "x", Me, "usd"), Log("t1", 2, 1, Me, "x", "usd"), Log("t2", 1, 2, Me, Me, "btc"),
     Log("t3", 1, 3, "bridge", Me, "usd"), Log("t3", 2, 3, "x", "y", "usd")}
McTokenDecimals == [usd |-> 6, btc |-> 8]

Drops(v) == [currency |-> "XRP", value |-> v]
Issued(v) == [currency |-> "USD", value |-> v]
Unreported == [currency |-> "missing", value |-> 0]
Payment(tx, block, from, to, max, partial, delivered, got) ==
    [tx |-> tx, block |-> block, type |-> "Payment", from |-> from, to |-> to, max |-> max,
     partial |-> partial, failed |-> FALSE, delivered |-> delivered, got |-> got]
McXrplTxs ==
    {Payment("p1", 1, "x", Me, Drops(5), FALSE, Unreported, Drops(5)),
     Payment("p2", 2, "x", Me, Issued(9), TRUE, Issued(1), Issued(1)),
     Payment("p3", 2, Me, "x", Issued(9), TRUE, [currency |-> "unavailable", value |-> 0], Issued(1)),
     [Payment("p4", 3, Me, "x", Drops(1), FALSE, Unreported, Drops(1)) EXCEPT !.type = "TrustSet"],
     Payment("p5", 3, "x", Me, Issued(2), FALSE, Unreported, Issued(2)),
     [Payment("p6", 2, "x", Me, Drops(7), FALSE, Unreported, Drops(0)) EXCEPT !.failed = TRUE]}

Ix(index, program, type, from, to, mint, decimals) ==
    [index |-> index, program |-> program, type |-> type, from |-> from, to |-> to, mint |-> mint,
     decimals |-> decimals, amount |-> index]
McSolanaTxs ==
    {[tx |-> "s1", block |-> 1, known |-> TRUE, failed |-> FALSE,
      instructions |-> <<Ix(1, "system", "transfer", "x", Me, Nothing, 9),
                         Ix(2, "spl-token", "transferChecked", Me, "x", "mint", 6),
                         Ix(3, "memo", "memo", Me, "x", Nothing, 0)>>],
     [tx |-> "s2", block |-> 2, known |-> FALSE, failed |-> FALSE,
      instructions |-> <<Ix(1, "system", "transfer", "x", Me, Nothing, 9)>>],
     [tx |-> "s3", block |-> 3, known |-> TRUE, failed |-> FALSE,
      instructions |-> <<Ix(1, "spl-token", "transfer", "x", Me, Nothing, 6)>>],
     [tx |-> "s4", block |-> 2, known |-> TRUE, failed |-> TRUE,
      instructions |-> <<Ix(1, "system", "transfer", "x", Me, Nothing, 9)>>]}

Q == [address |-> Me, direction |-> Nothing, token |-> Nothing, fromBlock |-> Nothing,
      toBlock |-> Nothing, limit |-> Nothing, finality |-> Nothing, atBlock |-> Nothing,
      issuer |-> Nothing]
Ask(chain, op, q) == [chain |-> chain, op |-> op, query |-> q]

EvmQueries ==
    {[Q EXCEPT !.direction = "incoming"], [Q EXCEPT !.fromBlock = 1, !.toBlock = 3],
     [Q EXCEPT !.fromBlock = 1, !.toBlock = 3, !.token = "usd"],
     [Q EXCEPT !.fromBlock = 1, !.toBlock = 3, !.token = "usd", !.limit = 1],
     [Q EXCEPT !.direction = "outgoing", !.fromBlock = 1, !.toBlock = 2],
     [Q EXCEPT !.fromBlock = 1, !.toBlock = 2]}
LedgerQueries == {Q, [Q EXCEPT !.direction = "incoming"], [Q EXCEPT !.token = "USD", !.limit = 1]}
SolanaQueries ==
    {Q, [Q EXCEPT !.finality = "finalized"], [Q EXCEPT !.finality = "processed", !.direction = "outgoing"],
     [Q EXCEPT !.token = "mint", !.limit = 1], [Q EXCEPT !.address = "stranger"]}

McAsks ==
    k1 :> ({Ask("evm", "transfers", q) : q \in EvmQueries}
             \cup {Ask("xrpl", "transfers", q) : q \in LedgerQueries}
             \cup {Ask("solana", "transfers", q) : q \in SolanaQueries}
             \cup [chain : Chains, op : {"status", "balance", "tokenBalance"}, query : {Q}]
             \cup {Ask("evm", "balance", [Q EXCEPT !.atBlock = 1]),
                   Ask("xrpl", "tokenBalance", [Q EXCEPT !.issuer = "x"]),
                   Ask("evm", "bridge", [Q EXCEPT !.fromBlock = 2])})
      @@ k2 :> {Ask("evm", "transfers", [Q EXCEPT !.fromBlock = 1, !.toBlock = 2])}

(* The observers share nothing, so each is run by itself.                  *)
OneChain(ch) == ClientStep(ch) \/ \E c \in Calls : CallStep(c) /\ call'[c].chain = ch

ObserverSpec == ObserverInit /\ [][OneChain("evm")]_observerVars

PaymentsSpec == ObserverInit /\ [][OneChain("xrpl") \/ OneChain("solana")]_observerVars
=============================================================================
