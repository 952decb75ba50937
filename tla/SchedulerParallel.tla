-------------------------- MODULE SchedulerParallel --------------------------
(***************************************************************************)
(* SchedulerParallelImpl::execute (src/transaction-scheduler/             *)
(* bcos-transaction-scheduler/SchedulerParallelImpl.h).                   *)
(*                                                                         *)
(* The block is cut into chunks of ChunkSize transactions.  Each round of *)
(* the while loop runs a tbb::parallel_pipeline with MaxThreads live      *)
(* tokens: a serial in-order split stage, a parallel execute stage        *)
(* (chunkExecute: a private mutable layer over the live global storage,  *)
(* wrapped in a ReadWriteSetStorage) and a serial in-order merge stage    *)
(* that compares the chunk's read/write set with the one of the last      *)
(* merged chunk and either merges the chunk or raises abortToken.  The    *)
(* next round restarts at the first chunk not merged.                     *)
(*                                                                         *)
(* Chunks are numbered 1..NumChunks; a live token is a chunk that passed  *)
(* the split stage and has not left the merge stage.  One transaction and *)
(* one chunk merge are atomic steps.                                      *)
(***************************************************************************)
EXTENDS Naturals, Sequences, FiniteSets, TLC, ReadWriteSet

CONSTANTS
  Keys,       \* state keys
  Blocks,     \* the blocks to check (see BlockExecution)
  ChunkSizes, \* the values setChunkSize may have given m_chunkSize
  MaxThreads, \* m_maxThreads: max_number_of_live_tokens of the pipeline
  SharedMutable \* TRUE: a chunk storage built from multiLayerStorage()
                \* reads through the global mutable layer as merges change
                \* it; FALSE: it sees the state at pipeline start (spec O3)

ASSUME ChunkSizes \subseteq Nat \ {0}
ASSUME MaxThreads \in Nat \ {0}
ASSUME SharedMutable \in BOOLEAN

VARIABLES
  block,      \* the transactions (fixed after Init)
  chunkSize,  \* m_chunkSize (fixed after Init)
  store,      \* the global mutable storage, Keys -> value
  receipts,   \* receipts
  chunkIt,    \* number of chunks merged (chunkIt - chunkBegin)
  lastRW,     \* lastExecutedStorages: rw set of the last merged chunk or NoRW
  inRound,    \* a parallel_pipeline call is running
  abortToken, \* the round's abortToken
  nextSplit,  \* currentChunk: next chunk the split stage hands out
  mergePos,   \* next token the serial merge stage processes
  stopped,    \* the split stage called control.stop()
  roundBase,  \* the global storage when the pipeline started
  tok         \* live tokens: chunk -> its progress in the pipeline

vars == <<block, chunkSize, store, receipts, chunkIt, lastRW, inRound, abortToken,
          nextSplit, mergePos, stopped, roundBase, tok>>

(* lastExecutedStorages, a std::optional, is the set of its values.      *)
NoRW == {}

ChunkSize == chunkSize

NumChunks == (Len(block) + ChunkSize - 1) \div ChunkSize
ChunkFirst(c) == (c - 1) * ChunkSize + 1
ChunkLen(c) == IF c * ChunkSize <= Len(block) THEN ChunkSize
               ELSE Len(block) - (c - 1) * ChunkSize

(* Refinement mapping: the executed prefix is what the merged chunks     *)
(* cover.                                                                *)
Merged == IF chunkIt = NumChunks THEN Len(block) ELSE chunkIt * ChunkSize

BE == INSTANCE BlockExecution WITH state <- store, executed <- Merged

(* A token after the split stage; st: "split" -> "exec" -> "done", or    *)
(* "none" when the execute stage returned an empty optional.             *)
NewToken == [st |-> "split", done |-> 0, priv |-> <<>>, rw |-> EmptySet,
             rcpts |-> <<>>]

Init ==
  /\ block \in Blocks
  /\ chunkSize \in ChunkSizes
  /\ store = BE!GenesisState
  /\ receipts = <<>>
  /\ chunkIt = 0
  /\ lastRW = NoRW
  /\ inRound = FALSE
  /\ abortToken = FALSE
  /\ nextSplit = 1
  /\ mergePos = 1
  /\ stopped = FALSE
  /\ roundBase = store
  /\ tok = <<>>

(* Seeded fault: the merge stage restarts one chunk too early.           *)
StartRoundBehind ==
  /\ ~inRound
  /\ chunkIt < NumChunks
  /\ inRound' = TRUE
  /\ abortToken' = FALSE
  /\ nextSplit' = chunkIt + 1
  /\ mergePos' = chunkIt
  /\ stopped' = FALSE
  /\ roundBase' = store
  /\ UNCHANGED <<block, chunkSize, store, receipts, chunkIt, lastRW, tok>>

(* while (chunkIt != chunkEnd): a new pipeline from the first unmerged   *)
(* chunk, with a fresh abortToken.                                       *)
StartRound ==
  /\ ~inRound
  /\ chunkIt < NumChunks
  /\ inRound' = TRUE
  /\ abortToken' = FALSE
  /\ nextSplit' = chunkIt + 1
  /\ mergePos' = chunkIt + 1
  /\ stopped' = FALSE
  /\ roundBase' = store
  /\ UNCHANGED <<block, chunkSize, store, receipts, chunkIt, lastRW, tok>>

(* parallel_pipeline returns once the input stopped and no token lives.  *)
EndRound ==
  /\ inRound /\ stopped /\ tok = <<>>
  /\ inRound' = FALSE
  /\ UNCHANGED <<block, chunkSize, store, receipts, chunkIt, lastRW, abortToken,
                 nextSplit, mergePos, stopped, roundBase, tok>>

TokenFree == Cardinality(DOMAIN tok) < MaxThreads

(* Split stage: hand out currentChunk and advance it.                    *)
SplitChunk ==
  /\ inRound /\ ~stopped /\ TokenFree
  /\ nextSplit <= NumChunks /\ ~abortToken
  /\ tok' = (nextSplit :> NewToken) @@ tok
  /\ nextSplit' = nextSplit + 1
  /\ UNCHANGED <<block, chunkSize, store, receipts, chunkIt, lastRW, inRound,
                 abortToken, mergePos, stopped, roundBase>>

(* Split stage: currentChunk == chunkEnd || abortToken -> control.stop() *)
StopSplit ==
  /\ inRound /\ ~stopped /\ TokenFree
  /\ nextSplit > NumChunks \/ abortToken
  /\ stopped' = TRUE
  /\ UNCHANGED <<block, chunkSize, store, receipts, chunkIt, lastRW, inRound,
                 abortToken, nextSplit, mergePos, roundBase, tok>>

SetTok(c, r) == tok' = [tok EXCEPT ![c] = r]

(* Execute stage: input && !abortToken -> chunkExecute, which makes a    *)
(* private storage and an empty read/write set.                          *)
StartChunk(c) ==
  /\ tok[c].st = "split" /\ ~abortToken
  /\ SetTok(c, [tok[c] EXCEPT !.st = "exec"])
  /\ UNCHANGED <<block, chunkSize, store, receipts, chunkIt, lastRW, inRound,
                 abortToken, nextSplit, mergePos, stopped, roundBase>>

(* Execute stage: otherwise an empty optional goes on.                   *)
SkipChunk(c) ==
  /\ tok[c].st = "split" /\ abortToken
  /\ SetTok(c, [tok[c] EXCEPT !.st = "none"])
  /\ UNCHANGED <<block, chunkSize, store, receipts, chunkIt, lastRW, inRound,
                 abortToken, nextSplit, mergePos, stopped, roundBase>>

(* Seeded fault: reads skip the chunk's private layer.                   *)
ExecuteTxBypassPrivate(c) ==
  LET t    == tok[c]
      i    == ChunkFirst(c) + t.done
      prog == block[i]
      view == IF SharedMutable THEN store ELSE roundBase
  IN  /\ t.st = "exec" /\ ~abortToken /\ t.done < ChunkLen(c)
      /\ SetTok(c, [t EXCEPT !.done  = @ + 1,
                             !.priv  = BE!TxWrites(i, prog) @@ @,
                             !.rw    = PutAll(PutAll(@, FALSE, prog.reads),
                                              TRUE, prog.writes),
                             !.rcpts = Append(@, BE!Receipt(i, prog, view))])
      /\ UNCHANGED <<block, chunkSize, store, receipts, chunkIt, lastRW, inRound,
                     abortToken, nextSplit, mergePos, stopped, roundBase>>

(* chunkExecute loop body: one transaction through the executor over the *)
(* ReadWriteSetStorage: reads fall through the private layer to the live *)
(* global storage, writes go to the private layer.                       *)
ExecuteTx(c) ==
  LET t    == tok[c]
      i    == ChunkFirst(c) + t.done
      prog == block[i]
      view == t.priv @@ (IF SharedMutable THEN store ELSE roundBase)
  IN  /\ t.st = "exec" /\ ~abortToken /\ t.done < ChunkLen(c)
      /\ SetTok(c, [t EXCEPT !.done  = @ + 1,
                             !.priv  = BE!TxWrites(i, prog) @@ @,
                             !.rw    = PutAll(PutAll(@, FALSE, prog.reads),
                                              TRUE, prog.writes),
                             !.rcpts = Append(@, BE!Receipt(i, prog, view))])
      /\ UNCHANGED <<block, chunkSize, store, receipts, chunkIt, lastRW, inRound,
                     abortToken, nextSplit, mergePos, stopped, roundBase>>

(* chunkExecute returns: loop done, or abortToken seen before a tx.      *)
EndChunk(c) ==
  /\ tok[c].st = "exec"
  /\ abortToken \/ tok[c].done = ChunkLen(c)
  /\ SetTok(c, [tok[c] EXCEPT !.st = "done"])
  /\ UNCHANGED <<block, chunkSize, store, receipts, chunkIt, lastRW, inRound,
                 abortToken, nextSplit, mergePos, stopped, roundBase>>

Release == tok' = [c \in DOMAIN tok \ {mergePos} |-> tok[c]]

(* Merge stage, chunkResult empty or abortToken set: result dropped.     *)
DropResult ==
  /\ mergePos \in DOMAIN tok
  /\ tok[mergePos].st = "none" \/ (tok[mergePos].st = "done" /\ abortToken)
  /\ Release
  /\ mergePos' = mergePos + 1
  /\ UNCHANGED <<block, chunkSize, store, receipts, chunkIt, lastRW, inRound,
                 abortToken, nextSplit, stopped, roundBase>>

Conflicts(t) == \E prev \in lastRW : HasRAWIntersection(prev, t.rw)

(* Seeded fault: lastExecutedStorages is not reset on abort.             *)
AbortKeepLast ==
  /\ mergePos \in DOMAIN tok
  /\ tok[mergePos].st = "done" /\ ~abortToken
  /\ Conflicts(tok[mergePos])
  /\ abortToken' = TRUE
  /\ Release
  /\ mergePos' = mergePos + 1
  /\ UNCHANGED <<block, chunkSize, store, receipts, chunkIt, lastRW, inRound, nextSplit,
                 stopped, roundBase>>

(* Merge stage: RAW intersection with the last merged chunk -> abort.    *)
AbortOnConflict ==
  /\ mergePos \in DOMAIN tok
  /\ tok[mergePos].st = "done" /\ ~abortToken
  /\ Conflicts(tok[mergePos])
  /\ abortToken' = TRUE
  /\ lastRW' = NoRW
  /\ Release
  /\ mergePos' = mergePos + 1
  /\ UNCHANGED <<block, chunkSize, store, receipts, chunkIt, inRound, nextSplit, stopped, roundBase>>

(* mergeStorage: every entry of the private layer written to the global  *)
(* mutable storage.                                                      *)
MergeStorage(priv, to) == priv @@ to

(* Merge stage: no conflict -> mergeStorage, remember the rw set, append *)
(* the receipts, advance chunkIt.                                        *)
MergeChunk ==
  /\ mergePos \in DOMAIN tok
  /\ tok[mergePos].st = "done" /\ ~abortToken
  /\ ~Conflicts(tok[mergePos])
  /\ store' = MergeStorage(tok[mergePos].priv, store)
  /\ lastRW' = {tok[mergePos].rw}
  /\ receipts' = receipts \o tok[mergePos].rcpts
  /\ chunkIt' = chunkIt + 1
  /\ Release
  /\ mergePos' = mergePos + 1
  /\ UNCHANGED <<block, chunkSize, inRound, abortToken, nextSplit, stopped, roundBase>>

Next ==
  \/ StartRound \/ EndRound \/ SplitChunk \/ StopSplit
  \/ \E c \in DOMAIN tok : StartChunk(c) \/ SkipChunk(c) \/ ExecuteTx(c)
                            \/ EndChunk(c)
  \/ DropResult \/ AbortOnConflict \/ MergeChunk

(* parallel_pipeline runs every ready filter on the TBB worker pool and  *)
(* execute() waits for it, so no enabled step is postponed forever.      *)
Spec == Init /\ [][Next]_vars /\ WF_vars(Next)

-----------------------------------------------------------------------------
TypeOK ==
  /\ chunkIt \in 0 .. NumChunks
  /\ nextSplit \in 1 .. NumChunks + 1
  /\ mergePos \in 1 .. nextSplit
  /\ DOMAIN tok = mergePos .. nextSplit - 1
  /\ \A c \in DOMAIN tok :
       /\ tok[c].st \in {"split", "exec", "done", "none"}
       /\ tok[c].done \in 0 .. ChunkLen(c)
       /\ \A k \in DOMAIN tok[c].rw : tok[c].rw[k] \in Flags
  /\ \A prev \in lastRW : DOMAIN prev \subseteq Keys
  /\ {inRound, abortToken, stopped} \subseteq BOOLEAN

(* P1: the global storage and the receipts are at every step those of    *)
(* the serial execution of the merged prefix, whatever the interleaving  *)
(* of the parallel execute stage with the merges of earlier chunks.      *)
SerialEquivalence == BE!Spec

(* execute() returns: every round merges its first chunk, so the restart *)
(* loop after aborted pipelines ends with every chunk merged.            *)
AllMerged == <>(chunkIt = NumChunks /\ ~inRound)
=============================================================================
