------------------------------ MODULE TlsPool ------------------------------
(***************************************************************************)
(* CLockFreeTlsPoolA of src/cpp-project/2DGame/Lib/LockFreeTlsPoolA.h:     *)
(* each thread takes blocks from a chunk of its own, and any thread may    *)
(* give a block back; a chunk returns to the chunk pool with its last      *)
(* block.  A call of the chunk pool is one step (LockFreePool.tla).        *)
(***************************************************************************)
EXTENDS Naturals, FiniteSets

CONSTANTS TlsThread, Chunk,
          ChunkSize          \* m_chunkSize

ASSUME ChunkAssumption == ChunkSize \in Nat \ {0} /\ "none" \notin Chunk

VARIABLES chunkPool,     \* chunks nobody uses
          tls,           \* the chunk of each thread, or "none"
          left,          \* m_allocCount: blocks not taken from a chunk yet
          owed,          \* m_freeCount: blocks a chunk has not got back yet
          tlsStep,       \* where each thread is
          taken,         \* the block of an Alloc that goes on, or the chunk of a Free
          lent,          \* blocks handed out and not given back
          lost           \* blocks taken by an Alloc that returned nullptr

tlsVars == <<chunkPool, tls, left, owed, tlsStep, taken, lent, lost>>

TlsInit == /\ chunkPool = Chunk
           /\ tls = [t \in TlsThread |-> "none"]
           /\ left = [c \in Chunk |-> 0]
           /\ owed = [c \in Chunk |-> 0]
           /\ tlsStep = [t \in TlsThread |-> "idle"]
           /\ taken = [t \in TlsThread |-> <<>>]
           /\ lent = {} /\ lost = {}

Move(t, from, to) == tlsStep[t] = from /\ tlsStep' = [tlsStep EXCEPT ![t] = to]

(* The thread goes on with a whole chunk of the pool. *)
TakeChunk(t) ==
  \E c \in chunkPool :
    /\ chunkPool' = chunkPool \ {c}
    /\ tls' = [tls EXCEPT ![t] = c]
    /\ left' = [left EXCEPT ![c] = ChunkSize]
    /\ owed' = [owed EXCEPT ![c] = ChunkSize]

(* With no chunk in the pool Alloc returns nullptr and nothing changes. *)
FirstChunk(t) == /\ tls[t] = "none"
                 /\ Move(t, "idle", "take")
                 /\ TakeChunk(t)
                 /\ UNCHANGED <<taken, lent, lost>>

(* Blocks are taken from the end of the chunk. *)
TakeBlock(t) ==
  LET c == tls[t]
      n == left[c] - 1
  IN /\ tls[t] # "none"
     /\ tlsStep[t] \in {"idle", "take"}
     /\ left' = [left EXCEPT ![c] = n]
     /\ IF n = 0
          THEN /\ tlsStep' = [tlsStep EXCEPT ![t] = "next"]
               /\ taken' = [taken EXCEPT ![t] = <<c, n>>]
               /\ UNCHANGED lent
          ELSE /\ tlsStep' = [tlsStep EXCEPT ![t] = "idle"]
               /\ lent' = lent \cup {<<c, n>>}
               /\ UNCHANGED taken
     /\ UNCHANGED <<chunkPool, tls, owed, lost>>

(* The chunk is used up: the next one, or else the block goes nowhere.        *)
NextChunk(t) ==
  /\ Move(t, "next", "idle")
  /\ taken' = [taken EXCEPT ![t] = <<>>]
  /\ \/ /\ TakeChunk(t)
        /\ lent' = lent \cup {taken[t]}
        /\ UNCHANGED lost
     \/ /\ chunkPool = {}
        /\ tls' = [tls EXCEPT ![t] = "none"]
        /\ lost' = lost \cup {taken[t]}
        /\ UNCHANGED <<chunkPool, left, owed, lent>>

(* Faulty variant: the chunk goes back with one block outstanding. *)
GiveBackEarly(t, b) ==
  /\ b \in lent
  /\ lent' = lent \ {b}
  /\ owed' = [owed EXCEPT ![b[1]] = @ - 1]
  /\ Move(t, "idle", IF owed[b[1]] = 2 THEN "return" ELSE "idle")
  /\ taken' = [taken EXCEPT ![t] = IF owed[b[1]] = 2 THEN b ELSE <<>>]
  /\ UNCHANGED <<chunkPool, tls, left, lost>>

GiveBack(t, b) ==
  /\ b \in lent
  /\ lent' = lent \ {b}
  /\ owed' = [owed EXCEPT ![b[1]] = @ - 1]
  /\ Move(t, "idle", IF owed[b[1]] = 1 THEN "return" ELSE "idle")
  /\ taken' = [taken EXCEPT ![t] = IF owed[b[1]] = 1 THEN b ELSE <<>>]
  /\ UNCHANGED <<chunkPool, tls, left, lost>>

ReturnChunk(t) ==
  /\ Move(t, "return", "idle")
  /\ chunkPool' = chunkPool \cup {taken[t][1]}
  /\ taken' = [taken EXCEPT ![t] = <<>>]
  /\ UNCHANGED <<tls, left, owed, lent, lost>>

TlsNext == \E t \in TlsThread :
  \/ FirstChunk(t) \/ TakeBlock(t) \/ NextChunk(t) \/ ReturnChunk(t)
  \/ \E b \in lent : GiveBack(t, b)

TlsSpec == TlsInit /\ [][TlsNext]_tlsVars
-----------------------------------------------------------------------------
Of(S, c) == {b \in S : b[1] = c}
Pending == {taken[t] : t \in {u \in TlsThread : tlsStep[u] = "next"}}

(* A chunk is back in the pool only when nobody has one of its blocks or will *)
(* take one, and otherwise it waits for exactly the blocks that are out, on   *)
(* their way out or lost: so no block is handed out twice, and a chunk one of *)
(* whose blocks was lost never comes back (LockFreeTlsPoolA.h:110-180).       *)
ChunksAccounted ==
  \A c \in Chunk :
    /\ c \in chunkPool =>
         /\ Of(lent \cup lost \cup Pending, c) = {}
         /\ \A t \in TlsThread : tls[t] # c
    /\ c \notin chunkPool =>
         owed[c] = left[c] + Cardinality(Of(lent, c)) + Cardinality(Of(lost, c))
                     + Cardinality(Of(Pending, c))
    /\ \A t, u \in TlsThread : tls[t] = c /\ tls[u] = c => t = u
=============================================================================
