------------------------------- MODULE TxDAG -------------------------------
(***************************************************************************)
(* The 2.x block verifier's transaction DAG (src/libblockverifier/TxDAG.cpp,*)
(* DAG.h, BlockVerifier.cpp).  TxDAG::init gives every transaction a      *)
(* vertex and, for a DAG transfer, an edge from the latest earlier         *)
(* transaction sharing each of its critical fields; DAG::generate queues  *)
(* the vertices with no incoming edge.  Worker threads loop               *)
(* while (!hasFinished()) executeUnit(): pop a vertex under x_dag, run    *)
(* the transaction, then consume it under x_dag.  BlockVerifier::         *)
(* executeBlock runs that loop on its own thread, and x_dag lets any     *)
(* number of threads run it; Workers are those threads.  The lambda       *)
(* executeBlock installs appends the receipt to the block.                *)
(*                                                                         *)
(* DAG.cpp, CriticalField and TxDAG::hasFinished are not under src; they  *)
(* are modelled after their declarations: the top level is a FIFO queue,  *)
(* CriticalField::update(c, id) makes id the only latest id of c, and     *)
(* hasFinished() is m_exeCnt >= m_totalParaTxs.                           *)
(*                                                                         *)
(* Transactions are numbered from 1 (the code's ID plus one).  A           *)
(* transaction is [para, crit]: isDagTransfer and getTransferDagTag.       *)
(***************************************************************************)
EXTENDS Naturals, Sequences, FiniteSets

CONSTANTS
  Fields,    \* critical fields (the user names of DAG transfers)
  Blocks,    \* the blocks executeBlock may be given
  Workers    \* the threads running the executeUnit loop

NoTx == 0

VARIABLES
  block,      \* block.transactions()
  topLevel,   \* m_topLevel: the queue of ready vertices
  inDegree,   \* m_vtxs[id].inDegree
  exeCnt,     \* m_exeCnt
  running,    \* per worker: the id it popped and has not consumed, or NoTx
  receipts    \* block.getTransactionReceipts(), as transaction ids

vars == <<block, topLevel, inDegree, exeCnt, running, receipts>>

Ids(b) == 1 .. Len(b)

(* Seeded fault: CriticalField::update never called, the first writer stays *)
(* latest.                                                                 *)
LatestFirst(b, j, c) ==
  LET prev == {i \in 1 .. j - 1 : b[i].para /\ c \in b[i].crit}
  IN  IF prev = {} THEN NoTx ELSE CHOOSE i \in prev : \A x \in prev : i <= x

(* latestCriticals.get(c) for transaction j: the last earlier DAG transfer *)
(* with critical field c, since update(c, id) replaces the entry.          *)
LatestBefore(b, j, c) ==
  LET prev == {i \in 1 .. j - 1 : b[i].para /\ c \in b[i].crit}
  IN  IF prev = {} THEN NoTx ELSE CHOOSE i \in prev : \A x \in prev : i >= x

(* The number of addEdge(i, j) calls: one per critical field of j whose    *)
(* latest transaction is i.  Serial transactions get no edges.             *)
EdgeCount(b, i, j) ==
  IF b[j].para THEN Cardinality({c \in b[j].crit : LatestBefore(b, j, c) = i}) ELSE 0

(* addEdge increments the in-degree once per edge: once per critical      *)
(* field of j that an earlier transfer holds.                              *)
InDegree0(b, j) ==
  IF b[j].para THEN Cardinality({c \in b[j].crit : LatestBefore(b, j, c) # NoTx}) ELSE 0

(* m_totalParaTxs = _txs.size() - serialTxs.size().                        *)
TotalParaTxs(b) == Cardinality({i \in Ids(b) : b[i].para})

(* hasFinished().                                                          *)
Finished == exeCnt >= TotalParaTxs(block)

(* DAG::generate: the vertices with in-degree 0, in id order.              *)
Generate(b, deg) == SelectSeq([i \in Ids(b) |-> i], LAMBDA i : deg[i] = 0)

(* TxDAG::init: the in-degrees addEdge leaves and the top level generate  *)
(* queues.                                                                 *)
DagInit(b) ==
  LET deg == [j \in Ids(b) |-> InDegree0(b, j)]
  IN  [inDegree |-> deg, topLevel |-> Generate(b, deg)]

(* BlockVerifier::execute: run the transaction on the block's state and  *)
(* return its receipt; a receipt is abstracted to its transaction.        *)
Receipt(id) == id

(* executeBlock up to its loop: the executive context is set up (a        *)
(* failure throws before anything else happens), the block's receipts    *)
(* are cleared and txDag.init builds the DAG.                              *)
Init ==
  /\ block \in Blocks
  /\ inDegree = DagInit(block).inDegree
  /\ topLevel = DagInit(block).topLevel
  /\ exeCnt = 0
  /\ running = [w \in Workers |-> NoTx]
  /\ receipts = <<>>

(* executeUnit, first lock: return when the queue is empty, else pop.      *)
Pop(w) ==
  /\ running[w] = NoTx
  /\ ~Finished
  /\ topLevel # <<>>
  /\ running' = [running EXCEPT ![w] = Head(topLevel)]
  /\ topLevel' = Tail(topLevel)
  /\ UNCHANGED <<block, inDegree, exeCnt, receipts>>

(* Seeded fault: m_exeCnt not incremented by consume.                    *)
ConsumeSkipCount(w) ==
  LET id   == running[w]
      deg  == [j \in Ids(block) |-> inDegree[j] - EdgeCount(block, id, j)]
      newly == SelectSeq([j \in Ids(block) |-> j],
                         LAMBDA j : EdgeCount(block, id, j) > 0 /\ deg[j] = 0)
  IN  /\ id # NoTx
      /\ receipts' = Append(receipts, Receipt(id))
      /\ inDegree' = deg
      /\ topLevel' = topLevel \o newly
      /\ running' = [running EXCEPT ![w] = NoTx]
      /\ UNCHANGED <<block, exeCnt>>

(* Seeded fault: consume lowers the in-degrees but queues nothing.        *)
ConsumeNoPush(w) ==
  LET id == running[w]
  IN  /\ id # NoTx
      /\ receipts' = Append(receipts, Receipt(id))
      /\ inDegree' = [j \in Ids(block) |-> inDegree[j] - EdgeCount(block, id, j)]
      /\ exeCnt' = exeCnt + 1
      /\ running' = [running EXCEPT ![w] = NoTx]
      /\ UNCHANGED <<block, topLevel>>

(* f_executeTx: executeBlock's lambda executes and appends the receipt.    *)
(* It runs outside x_dag; the model takes it atomically with consume,      *)
(* whose lock it precedes.  consume(id): every out-edge loses one degree,  *)
(* the vertices reaching 0 are queued in edge order; m_exeCnt += 1.        *)
Consume(w) ==
  LET id   == running[w]
      deg  == [j \in Ids(block) |-> inDegree[j] - EdgeCount(block, id, j)]
      newly == SelectSeq([j \in Ids(block) |-> j],
                         LAMBDA j : EdgeCount(block, id, j) > 0 /\ deg[j] = 0)
  IN  /\ id # NoTx
      /\ receipts' = Append(receipts, Receipt(id))
      /\ inDegree' = deg
      /\ topLevel' = topLevel \o newly
      /\ exeCnt' = exeCnt + 1
      /\ running' = [running EXCEPT ![w] = NoTx]
      /\ UNCHANGED block

Next == \E w \in Workers : Pop(w) \/ Consume(w)

Spec == Init /\ [][Next]_vars /\ \A w \in Workers : WF_vars(Pop(w) \/ Consume(w))

(* executeBlock returns: the loop sees hasFinished and no unit is running. *)
Returned == Finished /\ \A w \in Workers : running[w] = NoTx

-----------------------------------------------------------------------------
Done == {receipts[k] : k \in 1 .. Len(receipts)}

Started(j) == j \in Done \/ \E w \in Workers : running[w] = j

TypeOK ==
  /\ topLevel \in Seq(Ids(block))
  /\ inDegree \in [Ids(block) -> Nat]
  /\ exeCnt = Len(receipts)
  /\ running \in [Workers -> Ids(block) \cup {NoTx}]

(* Transactions that share a critical field run in block order: once a    *)
(* DAG transfer is popped by some worker, every earlier transfer touching  *)
(* one of its fields has been executed and consumed, even when it touched  *)
(* the field through a chain of other transfers and several workers run.  *)
ConflictOrder ==
  \A j \in Ids(block) : \A i \in 1 .. j - 1 :
    /\ block[i].para /\ block[j].para
    /\ block[i].crit \cap block[j].crit # {}
    /\ Started(j)
    => i \in Done

(* executeBlock returns: the worker loop reaches hasFinished with no unit  *)
(* in flight.                                                              *)
Terminates == <>Returned

(* Spec O1: when executeBlock returns, the block holds one receipt per     *)
(* transaction, in the block's transaction order.                         *)
BlockReceipts == Returned => receipts = [i \in Ids(block) |-> i]
=============================================================================
