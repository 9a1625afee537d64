------------------------------ MODULE MCMempool ------------------------------
(***************************************************************************)
(* Transactions for model checking Mempool: t1 and t2 double-spend a coin. *)
(* t3 and t6 both spend the output of t1; t4 spends the output of t2, and  *)
(* t5 that of t4.  t3 and t5 also double-spend another coin.               *)
(***************************************************************************)
EXTENDS Mempool

CONSTANTS t1, t2, t3, t4, t5, t6, c1, c2, o1, o2, o4, u1, u3, p1

MCIns == [t \in Txs |-> CASE t = t1 -> {c1}
                          [] t = t2 -> {c1}
                          [] t = t3 -> {o1, c2}
                          [] t = t4 -> {o2}
                          [] t = t5 -> {o4, c2}
                          [] t = t6 -> {o1}]

MCTxOut == [t \in Txs |-> CASE t = t1 -> <<o1, u1>>
                            [] t = t2 -> <<o2>>
                            [] t = t3 -> <<u3>>
                            [] t = t4 -> <<o4>>
                            [] OTHER  -> <<>>]

MCCoins == {c1, c2}

MCBlocks == {<<>>, <<t1>>, <<t2>>, <<t1, t3>>}

\* The hypothesis of MempoolPoolMinable: nothing spends u3.
ASSUME UnspentInInstance == ChainedUnspent
=============================================================================
