---------------------------- MODULE ThreadMemory ----------------------------
(***************************************************************************)
(* The last turn of each conversation, an OrderedDict used as an LRU cache *)
(* by request threads that share it without a lock.  A call of get_turn or *)
(* save_turn is several operations on the dictionary, and other threads    *)
(* run between them.                                                       *)
(***************************************************************************)
EXTENDS Integers, Sequences, FiniteSets

CONSTANTS
    Requests,   \* the requests, one thread each
    Threads,    \* conversations (thread ids)
    Idle,       \* conversations held at the start, least recently used first
    MaxThreads  \* _MAX_THREADS

\* Two entries for every request at work, so that the requests alone never
\* fill the store: the code's bound is 5000, its thread pools have dozens.
ASSUME MemoryAssumption ==
    /\ IsFiniteSet(Requests)
    /\ Idle \in Seq(Threads) /\ Len(Idle) <= MaxThreads
    /\ \A i, k \in 1..Len(Idle) : Idle[i] = Idle[k] => i = k
    /\ MaxThreads \in Nat /\ MaxThreads >= 2 * Cardinality(Requests)

VARIABLES
    memory,     \* conversations whose turn is held
    newer,      \* for each of them, those used more recently
    turn        \* where a request is inside get_turn or save_turn

memoryVars == <<memory, newer, turn>>

\* get_turn: "found" between the look-up and move_to_end.  save_turn: "stored"
\* after the assignment, "check" before the size is read, "pop" after it was
\* found too large.
Saving == {"stored", "check", "pop"}
TurnState == {"idle", "found"} \cup Saving

MemoryInit ==
    /\ memory = {Idle[i] : i \in 1..Len(Idle)}
    /\ newer = [t \in Threads |->
                   {Idle[k] : k \in {k \in 1..Len(Idle) : \E i \in 1..(k - 1) : Idle[i] = t}}]
    /\ turn = [r \in Requests |-> "idle"]

\* The order after t was moved to, or added at, the end of a dictionary that
\* holds the conversations in held.
MovedToEnd(held, t) ==
    [u \in Threads |-> IF u \in held \ {t} THEN newer[u] \cup {t} ELSE {}]

Removed(t) == [u \in Threads |-> IF u = t THEN {} ELSE newer[u] \ {t}]

Goes(r, state) == turn' = [turn EXCEPT ![r] = state]

----------------------------------------------------------------------------
(* get_turn(t) *)

FindsNothing(r, t) ==
    /\ turn[r] = "idle" /\ t \notin memory
    /\ UNCHANGED memoryVars

Finds(r, t) ==
    /\ turn[r] = "idle" /\ t \in memory
    /\ Goes(r, "found")
    /\ UNCHANGED <<memory, newer>>

\* Mutant of Touches: a read that does not count as a use.
TouchesWithoutMove(r, t) ==
    /\ turn[r] = "found" /\ t \in memory
    /\ Goes(r, "idle")
    /\ UNCHANGED <<memory, newer>>

Touches(r, t) ==
    /\ turn[r] = "found" /\ t \in memory
    /\ newer' = MovedToEnd(memory, t)
    /\ Goes(r, "idle")
    /\ UNCHANGED memory

----------------------------------------------------------------------------
(* save_turn(t), when there is a snapshot to save *)

Stores(r, t) ==
    /\ turn[r] = "idle"
    /\ memory' = memory \cup {t}
    /\ newer' = IF t \in memory THEN newer ELSE MovedToEnd(memory', t)
    /\ Goes(r, "stored")

Promotes(r, t) ==
    /\ turn[r] = "stored" /\ t \in memory
    /\ newer' = MovedToEnd(memory, t)
    /\ Goes(r, "check")
    /\ UNCHANGED memory

\* Mutant of TooMany: the bound missed by one.
TooManyByOne == Cardinality(memory) > MaxThreads + 1

TooMany == Cardinality(memory) > MaxThreads

FindsTooMany(r) ==
    /\ turn[r] = "check" /\ TooMany
    /\ Goes(r, "pop")
    /\ UNCHANGED <<memory, newer>>

Oldest == CHOOSE t \in memory : newer[t] = memory \ {t}

\* popitem, of whatever is the oldest entry by then.
Evicts(r) ==
    /\ turn[r] = "pop"
    /\ memory' = memory \ {Oldest}
    /\ newer' = Removed(Oldest)
    /\ Goes(r, "check")

Saved(r) ==
    /\ turn[r] = "check" /\ ~TooMany
    /\ Goes(r, "idle")
    /\ UNCHANGED <<memory, newer>>

\* move_to_end raises KeyError: the entry was removed by another thread.
LosesEntry(r, t) ==
    /\ turn[r] \in {"found", "stored"} /\ t \notin memory
    /\ Goes(r, "idle")
    /\ UNCHANGED <<memory, newer>>

----------------------------------------------------------------------------
\* clear_turn, from POST /chat/clear.
Clears(t) ==
    /\ t \in memory
    /\ memory' = memory \ {t}
    /\ newer' = Removed(t)
    /\ UNCHANGED turn

Savers == {r \in Requests : turn[r] \in Saving}

\* "Bounded, and an LRU": the store is larger than its bound only by what
\* requests have added whose eviction loop is still running, however the
\* loops of several requests interleave.
MemoryIsBounded == Cardinality(memory) <= MaxThreads + Cardinality(Savers)
=============================================================================
