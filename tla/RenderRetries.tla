--------------------------- MODULE RenderRetries ---------------------------
(***************************************************************************)
(* What a failed PUTLLC of the splitting code of                           *)
(* server/renderspu/cacheline.c leads to.  RenderChunks is extended by two *)
(* history variables that watch freeChunk, which the retry keeps: an entry *)
(* that was free in the copy of the failed attempt and that nobody has     *)
(* reserved.  The steps are those of RenderChunks.                         *)
(***************************************************************************)
EXTENDS RenderChunks

VARIABLES
  kept,    \* history: the SPUs whose freeChunk is such an entry
  spoilt   \* history: a split has used one that was not free any more

retryVars == <<vars, kept, spoilt>>

\* A split that loses its reservation keeps an entry that nothing reserves for it.
KeepsUnclaimed(p) == SplitRetry(p) /\ ~spu[p].claimed /\ spu[p].freeChunk # NoChunk

\* The entry is somebody else's by now, or was found a second time as freeChunk2.
TakenMeanwhile(s) ==
  \/ cache.chunkNext[s.freeChunk] # CHUNKNEXT_FREE_BLOCK
  \/ HasTail(s) /\ HasHead(s) /\ s.freeChunk2 = s.freeChunk

Retry(p) ==
  /\ SplitRetry(p)
  /\ kept' = kept \cup {q \in {p} : KeepsUnclaimed(q)}
  /\ UNCHANGED spoilt

Store(p) ==
  /\ SplitStore(p)
  /\ kept' = kept \ {p}
  /\ spoilt' = (spoilt \/ (p \in kept /\ TakenMeanwhile(spu[p])))

\* Steps that leave freeChunk alone, begin with a new one, or have none.
Other ==
  /\ \/ Submit \/ Done
     \/ \E p \in Spus : \/ Claim(p) \/ Search(p) \/ SplitLoad(p) \/ Relinquish(p)
                        \/ Render(p) \/ Flush(p) \/ Finish(p)
  /\ UNCHANGED <<kept, spoilt>>

RetryInit == Init /\ kept = {} /\ spoilt = FALSE

RetryNext == Other \/ \E p \in Spus : Retry(p) \/ Store(p)

RetrySpec == RetryInit /\ [][RetryNext]_retryVars

\* The split that spoils the line is next.
Spoils(p) ==
  spu[p].pc = "split_putllc" /\ p \in resv \cap kept /\ TakenMeanwhile(spu[p])

\* The behaviours up to there.
UnspoiltNext ==
  \/ RetryNext /\ ~spoilt'
  \/ (\E p \in Spus : Spoils(p)) /\ UNCHANGED retryVars

UnspoiltSpec == RetryInit /\ [][UnspoiltNext]_retryVars

FairUnspoiltSpec == UnspoiltSpec /\ Fairness

-----------------------------------------------------------------------------
(* Properties.                                                              *)

\* An SPU is about to split with an entry that is another's only if it kept the entry
\* itself, unreserved, when its store failed (cacheline.c:341-350, :422): an entry that
\* Claim has reserved, or that was chosen in this attempt, is never taken away by what
\* the other SPUs claim, split, retry and give back, as long as none of them has used a
\* kept entry that was no longer free.
OnlyKeepersAreStale == spoilt \/ \A p \in Spus : StaleEntry(p) => p \in kept
=============================================================================
