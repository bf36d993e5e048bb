---------------------- MODULE QuestionAnswering_proofs ----------------------
(***************************************************************************)
(* Proofs about QuestionAnswering, for every set of requests,              *)
(* conversations, profiles and pool threads and every bound: the bound of  *)
(* the conversation memory, where the text of an answer comes from, and    *)
(* whose telemetry an answer carries.                                      *)
(***************************************************************************)
EXTENDS QuestionAnswering, FiniteSetTheorems, WellFoundedInduction, TLAPS

\* A request is inside get_turn or save_turn only at the places that call it.
CallsNest ==
    \A r \in Requests :
        \/ turn[r] = "idle"
        \/ pc[r] \in {"resolve", "prior"} /\ turn[r] = "found"
        \/ pc[r] \in {"save", "saveDenial"} /\ turn[r] \in Saving

\* Requests in their eviction loop.
Evicting == {r \in Requests : turn[r] \in {"check", "pop"}}

\* Requests that have just stored a turn, and the turns of nobody who has.
Storing == {r \in Requests : turn[r] = "stored"}
Settled == {t \in memory : \A r \in Storing : Thread(r) # t}

\* What is inductive: an entry counts against the bound from the moment its
\* request begins its eviction loop.  A request that loses its entry before
\* that leaves without a loop, and without an entry to count.
MemoryInvariant ==
    /\ DOMAIN pc = Requests /\ DOMAIN turn = Requests /\ DOMAIN asked = Requests
    /\ CallsNest
    /\ IsFiniteSet(memory)
    /\ Cardinality(Settled) <= MaxThreads + Cardinality(Evicting)

----------------------------------------------------------------------------
(* What a step may do to the memory. *)

\* No entry settles and no eviction loop begins or ends.
Quiet ==
    /\ \E t : memory' \subseteq memory \cup {t}
    /\ Settled' \subseteq Settled
    /\ Evicting' = Evicting

\* Request r enters its eviction loop, and only its own entry settles.
Enters(r) ==
    /\ memory' = memory
    /\ r \notin Evicting /\ Evicting' = Evicting \cup {r}
    /\ Settled' \subseteq Settled \cup {Thread(r)}

\* Request r leaves its loop, having found the memory small enough.
Exits(r) ==
    /\ memory' = memory
    /\ Cardinality(memory) <= MaxThreads

\* The sets that are counted are finite.
LEMMA SetsAreFinite ==
  ASSUME MemoryAssumption, IsFiniteSet(memory)
  PROVE  /\ IsFiniteSet(Settled) /\ Cardinality(Settled) \in Nat
         /\ IsFiniteSet(Evicting) /\ Cardinality(Evicting) \in Nat
         /\ IsFiniteSet(Storing) /\ Cardinality(Storing) \in Nat
  <1>1. IsFiniteSet(Settled)
    BY FS_Subset DEF Settled
  <1>2. IsFiniteSet(Evicting) /\ IsFiniteSet(Storing)
    BY FS_Subset DEF Evicting, Storing, MemoryAssumption
  <1> QED
    BY <1>1, <1>2, FS_CardinalityType

\* Whichever of the three a step is, the bound survives it.
LEMMA BoundSurvives ==
  ASSUME MemoryAssumption, MemoryInvariant,
         Quiet \/ (\E r \in Requests : Enters(r)) \/ (\E r \in Requests : Exits(r))
  PROVE  /\ IsFiniteSet(memory')
         /\ Cardinality(Settled') <= MaxThreads + Cardinality(Evicting')
  <1>1. IsFiniteSet(memory')
    <2>1. CASE Quiet
      <3>1. PICK t : memory' \subseteq memory \cup {t}
        BY <2>1 DEF Quiet
      <3> QED
        BY <3>1, FS_AddElement, FS_Subset DEF MemoryInvariant
    <2>2. CASE \E r \in Requests : Enters(r) \/ Exits(r)
      BY <2>2 DEF MemoryInvariant, Enters, Exits
    <2> QED
      BY <2>1, <2>2
  <1>2. /\ IsFiniteSet(Settled) /\ Cardinality(Settled) \in Nat
        /\ IsFiniteSet(Evicting) /\ Cardinality(Evicting) \in Nat
    BY SetsAreFinite DEF MemoryInvariant
  <1>b. /\ MaxThreads \in Nat
        /\ Cardinality(Settled) <= MaxThreads + Cardinality(Evicting)
    BY DEF MemoryInvariant, MemoryAssumption
  <1>3. IsFiniteSet(Evicting') /\ Cardinality(Evicting') \in Nat
    BY FS_Subset, FS_CardinalityType DEF Evicting, MemoryAssumption
  <1>4. IsFiniteSet(Settled') /\ Cardinality(Settled') \in Nat
    BY <1>1, FS_Subset, FS_CardinalityType DEF Settled
  <1>5. CASE Quiet
    <2>1. Cardinality(Settled') <= Cardinality(Settled)
      BY <1>2, <1>5, FS_Subset DEF Quiet
    <2> QED
      BY <2>1, <1>1, <1>2, <1>b, <1>4, <1>5 DEF Quiet
  <1>6. ASSUME NEW r \in Requests, Enters(r)
        PROVE  Cardinality(Settled') <= MaxThreads + Cardinality(Evicting')
    <2>1. Cardinality(Evicting') = Cardinality(Evicting) + 1
      BY <1>2, <1>6, FS_AddElement DEF Enters
    <2>2. /\ IsFiniteSet(Settled \cup {Thread(r)})
          /\ Cardinality(Settled \cup {Thread(r)}) \in Nat
          /\ Cardinality(Settled \cup {Thread(r)}) <= Cardinality(Settled) + 1
      <3> DEFINE t == Thread(r)
      <3>1. IsFiniteSet(Settled \cup {t})
            /\ Cardinality(Settled \cup {t}) =
                 IF t \in Settled THEN Cardinality(Settled) ELSE Cardinality(Settled) + 1
        <4> HIDE DEF t
        <4> QED
          BY <1>2, FS_AddElement
      <3> QED
        BY <3>1, <1>2
    <2>3. Cardinality(Settled') <= Cardinality(Settled \cup {Thread(r)})
      BY <2>2, <1>6, FS_Subset DEF Enters
    <2> QED
      BY <2>1, <2>2, <2>3, <1>2, <1>b, <1>4
  <1>7. ASSUME NEW r \in Requests, Exits(r)
        PROVE  Cardinality(Settled') <= MaxThreads + Cardinality(Evicting')
    <2>1. Settled' \subseteq memory
      BY <1>7 DEF Exits, Settled
    <2>2. Cardinality(Settled') <= Cardinality(memory) /\ Cardinality(memory) \in Nat
      BY <2>1, FS_Subset, FS_CardinalityType DEF MemoryInvariant
    <2> QED
      BY <2>2, <1>3, <1>b, <1>4, <1>7 DEF Exits
  <1> QED
    BY <1>1, <1>5, <1>6, <1>7

----------------------------------------------------------------------------
(* The steps. *)

Typed == DOMAIN pc = Requests /\ DOMAIN turn = Requests /\ DOMAIN asked = Requests

\* The calls of a request at a place that calls neither get_turn nor save_turn.
LEMMA IdleElsewhere ==
  ASSUME CallsNest, NEW r \in Requests,
         pc[r] \notin {"resolve", "prior", "save", "saveDenial"}
  PROVE  turn[r] = "idle"
  BY DEF CallsNest

\* Request r, inside no call, goes to another place.
Moves(r) ==
    /\ pc[r] \notin {"resolve", "prior", "save", "saveDenial"} \/ turn[r] = "idle"
    /\ \E place : To(r, place)
    /\ asked' = asked \/ \E x : asked' = [asked EXCEPT ![r] = x]
    /\ UNCHANGED memoryVars

\* Such a move leaves the memory alone.
LEMMA MovesAreQuiet ==
  ASSUME Typed, CallsNest, NEW r \in Requests, Moves(r)
  PROVE  Typed' /\ CallsNest' /\ Quiet
  <1>1. turn[r] = "idle"
    BY IdleElsewhere DEF Moves
  <1>2. /\ DOMAIN pc' = Requests /\ DOMAIN asked' = Requests
        /\ \A q \in Requests \ {r} : pc'[q] = pc[q] /\ asked'[q] = asked[q]
    BY DEF Moves, To, Typed
  <1>3. memory' = memory /\ turn' = turn
    BY DEF Moves, memoryVars
  <1>4. Typed' /\ CallsNest'
    BY <1>1, <1>2, <1>3 DEF Typed, CallsNest
  <1>5. Storing' = Storing /\ Evicting' = Evicting /\ r \notin Storing
    BY <1>1, <1>3 DEF Storing, Evicting
  <1>6. Settled' = Settled
    BY <1>2, <1>3, <1>5 DEF Settled, Storing, Thread
  <1> QED
    BY <1>3, <1>4, <1>5, <1>6 DEF Quiet

\* So does a step that moves nobody.
LEMMA OthersAreQuiet ==
  ASSUME Typed, CallsNest, UNCHANGED <<memoryVars, pc, asked>>
  PROVE  Typed' /\ CallsNest' /\ Quiet
  BY DEF Typed, CallsNest, memoryVars, Quiet, Settled, Storing, Evicting, Thread

\* The operations on the dictionary, of a request at work on its own thread.
LEMMA Operations ==
  ASSUME DOMAIN turn = Requests, asked' = asked, NEW r \in Requests,
         MaxThreads \in Nat, Cardinality(memory) \in Nat
  PROVE  /\ FindsNothing(r, Thread(r)) => Quiet
         /\ Finds(r, Thread(r)) => Quiet
         /\ Touches(r, Thread(r)) => Quiet
         /\ Stores(r, Thread(r)) => Quiet
         /\ Promotes(r, Thread(r)) => Enters(r)
         /\ FindsTooMany(r) => Quiet
         /\ Evicts(r) => Quiet
         /\ Saved(r) => Exits(r)
         /\ LosesEntry(r, Thread(r)) => Quiet
  <1> DEFINE t == Thread(r)
  <1>1. ASSUME FindsNothing(r, t) PROVE Quiet
    BY <1>1 DEF FindsNothing, memoryVars, Quiet, Settled, Storing, Evicting, Thread
  <1>2. ASSUME Finds(r, t) PROVE Quiet
    BY <1>2 DEF Finds, Goes, Quiet, Settled, Storing, Evicting, Thread
  <1>3. ASSUME Touches(r, t) PROVE Quiet
    BY <1>3 DEF Touches, Goes, Quiet, Settled, Storing, Evicting, Thread
  <1>4. ASSUME Stores(r, t) PROVE Quiet
    BY <1>4 DEF Stores, Goes, Quiet, Settled, Storing, Evicting, Thread
  <1>5. ASSUME Promotes(r, t) PROVE Enters(r)
    BY <1>5 DEF Promotes, Goes, Enters, Settled, Storing, Evicting, Thread
  <1>6. ASSUME FindsTooMany(r) PROVE Quiet
    BY <1>6 DEF FindsTooMany, Goes, Quiet, Settled, Storing, Evicting, Thread
  <1>7. ASSUME Evicts(r) PROVE Quiet
    BY <1>7 DEF Evicts, Goes, Quiet, Settled, Storing, Evicting, Thread
  <1>8. ASSUME Saved(r) PROVE Exits(r)
    BY <1>8 DEF Saved, TooMany, Exits
  <1>9. ASSUME LosesEntry(r, t) PROVE Quiet
    BY <1>9 DEF LosesEntry, Goes, Quiet, Settled, Storing, Evicting, Thread
  <1> QED
    BY <1>1, <1>2, <1>3, <1>4, <1>5, <1>6, <1>7, <1>8, <1>9

\* The steps of the agents, the streams and the pools are moves.
LEMMA AgentsMove ==
  ASSUME NEW r \in Requests
  PROVE  /\ Asks(r) => Moves(r)
         /\ Takes(r) => Moves(r)
         /\ Denies(r) => Moves(r)
         /\ TriesDocumentsFirst(r) => Moves(r)
         /\ Dispatches(r) => Moves(r)
         /\ DocumentsAnswer(r) => Moves(r)
         /\ DataAnswers(r) => Moves(r)
         /\ Joins(r) => Moves(r)
         /\ JoinFails(r) => Moves(r)
         /\ FallsBackToDocuments(r) => Moves(r)
         /\ Answers(r) => Moves(r)
  <1> USE DEF Moves, At
  <1>1. Asks(r) => Moves(r)
    BY DEF Asks
  <1>2. Takes(r) => Moves(r)
    BY DEF Takes
  <1>3. Denies(r) => Moves(r)
    BY DEF Denies
  <1>4. TriesDocumentsFirst(r) => Moves(r)
    BY DEF TriesDocumentsFirst
  <1>5. Dispatches(r) => Moves(r)
    BY DEF Dispatches
  <1>6. DocumentsAnswer(r) => Moves(r)
    BY DEF DocumentsAnswer, Concludes
  <1>7. DataAnswers(r) => Moves(r)
    BY DEF DataAnswers, Concludes
  <1>8. Joins(r) => Moves(r)
    BY DEF Joins
  <1>9. JoinFails(r) => Moves(r)
    BY DEF JoinFails, Raises
  <1>10. FallsBackToDocuments(r) => Moves(r)
    BY DEF FallsBackToDocuments
  <1>11. Answers(r) => Moves(r)
    BY DEF Answers
  <1> QED
    BY <1>1, <1>2, <1>3, <1>4, <1>5, <1>6, <1>7, <1>8, <1>9, <1>10, <1>11

\* The steps of the stream move the request only.
LEMMA StreamsMove ==
  ASSUME NEW r \in Requests
  PROVE  /\ StreamsDocuments(r) => Moves(r)
         /\ NothingToStream(r) => Moves(r)
         /\ ReroutesToData(r) => Moves(r)
         /\ StreamsData(r) => Moves(r)
         /\ ReroutesToDocuments(r) => Moves(r)
         /\ StreamsHybrid(r) => Moves(r)
         /\ Speaks(r) => Moves(r)
         /\ Rescues(r) => Moves(r)
         /\ Emits(r) => Moves(r)
         /\ Disconnects(r) => Moves(r)
         /\ Fails(r) => Moves(r)
  <1> USE DEF Moves, At
  <1>1. StreamsDocuments(r) => Moves(r)
    BY DEF StreamsDocuments, Drafts
  <1>2. NothingToStream(r) => Moves(r)
    BY DEF NothingToStream, Drafts
  <1>3. ReroutesToData(r) => Moves(r)
    BY DEF ReroutesToData
  <1>4. StreamsData(r) => Moves(r)
    BY DEF StreamsData, Drafts
  <1>5. ReroutesToDocuments(r) => Moves(r)
    BY DEF ReroutesToDocuments, Drafts
  <1>6. StreamsHybrid(r) => Moves(r)
    BY DEF StreamsHybrid, Drafts
  <1>7. Speaks(r) => Moves(r)
    BY DEF Speaks
  <1>8. Rescues(r) => Moves(r)
    BY DEF Rescues
  <1>9. Emits(r) => Moves(r)
    BY DEF Emits
  <1>10. Disconnects(r) => Moves(r)
    BY DEF Disconnects
  <1>11. Fails(r) => Moves(r)
    BY DEF Fails, Raises
  <1> QED
    BY <1>1, <1>2, <1>3, <1>4, <1>5, <1>6, <1>7, <1>8, <1>9, <1>10, <1>11

\* The steps of a request inside a call of get_turn or save_turn, or that
\* begin or end one.
Calls(r) == LooksUp(r) \/ Saves(r) \/ LosesTurn(r)

\* A step inside get_turn or save_turn leaves its caller where it is.
LEMMA CallsStayNested ==
  ASSUME Typed, CallsNest, NEW r \in Requests, Calls(r)
  PROVE  Typed' /\ CallsNest' /\ asked' = asked
  <1>1. SUFFICES /\ DOMAIN pc' = Requests /\ DOMAIN turn' = Requests /\ asked' = asked
                 /\ \A q \in Requests \ {r} : pc'[q] = pc[q] /\ turn'[q] = turn[q]
                 /\ \/ turn'[r] = "idle"
                    \/ pc'[r] \in {"resolve", "prior"} /\ turn'[r] = "found"
                    \/ pc'[r] \in {"save", "saveDenial"} /\ turn'[r] \in Saving
    BY DEF Typed, CallsNest
  <1>2. CASE LooksUp(r)
    BY <1>2 DEF LooksUp, FindsNothing, Finds, Touches, Goes, To, Typed, CallsNest, memoryVars
  <1>3. CASE Saves(r)
    <2>1. CASE turn[r] = "idle" /\ UNCHANGED memoryVars /\ AfterSave(r)
      BY <1>3, <2>1 DEF Saves, AfterSave, At, To, Typed, CallsNest, memoryVars, Saving
    <2>2. CASE Stores(r, Thread(r)) /\ UNCHANGED <<pc, run>>
      BY <1>3, <2>2 DEF Saves, Stores, Goes, Typed, CallsNest, Saving
    <2>3. CASE (Promotes(r, Thread(r)) \/ FindsTooMany(r) \/ Evicts(r)) /\ UNCHANGED <<pc, run>>
      BY <1>3, <2>3 DEF Saves, Promotes, FindsTooMany, Evicts, Goes, Typed, CallsNest, Saving
    <2>4. CASE Saved(r) /\ AfterSave(r)
      BY <1>3, <2>4 DEF Saves, Saved, AfterSave, Goes, At, To, Typed, CallsNest, Saving
    <2> QED
      BY <1>3, <2>1, <2>2, <2>3, <2>4 DEF Saves
  <1>4. CASE LosesTurn(r)
    BY <1>4 DEF LosesTurn, LosesEntry, Raises, Goes, To, Typed, CallsNest
  <1> QED
    BY <1>2, <1>3, <1>4 DEF Calls

\* Such a step stores, evicts, or leaves the memory alone.
LEMMA CallsKeepTheBound ==
  ASSUME Typed, CallsNest, NEW r \in Requests, Calls(r),
         MaxThreads \in Nat, Cardinality(memory) \in Nat
  PROVE  Quiet \/ Enters(r) \/ Exits(r)
  <1>1. asked' = asked
    BY CallsStayNested
  <1>2. CASE LooksUp(r)
    BY <1>1, <1>2, Operations DEF LooksUp, Typed
  <1>3. CASE Saves(r)
    <2>1. CASE UNCHANGED memoryVars
      BY <1>1, <2>1 DEF memoryVars, Quiet, Settled, Storing, Evicting, Thread
    <2> QED
      BY <1>1, <1>3, <2>1, Operations DEF Saves, Typed
  <1>4. CASE LosesTurn(r)
    BY <1>1, <1>4, Operations DEF LosesTurn, Typed
  <1> QED
    BY <1>2, <1>3, <1>4 DEF Calls

\* Clearing a thread only makes room.
LEMMA ClearsIsQuiet ==
  ASSUME Typed, CallsNest, NEW t \in OpenThreads, ClearsThread(t)
  PROVE  Typed' /\ CallsNest' /\ Quiet
  BY DEF ClearsThread, Clears, Typed, CallsNest, Quiet, Settled, Storing, Evicting, Thread

----------------------------------------------------------------------------
(* The invariant. *)

\* At first the memory is empty.
LEMMA InitiallyBounded ==
  ASSUME MemoryAssumption, Init
  PROVE  MemoryInvariant
  <1>1. DOMAIN pc = Requests /\ DOMAIN turn = Requests /\ DOMAIN asked = Requests /\ CallsNest
    BY DEF Init, MemoryInit, CallsNest
  <1>2. IsFiniteSet(memory) /\ Cardinality(memory) <= Len(Idle)
    <2> DEFINE f == [i \in 1..Len(Idle) |-> Idle[i]]
    <2>1. Len(Idle) \in Nat
      BY DEF MemoryAssumption
    <2>2. ASSUME NEW n \in Nat
          PROVE  IsFiniteSet(1..n) /\ Cardinality(1..n) = n
      <3>0. 1 \in Int /\ n \in Int
        OBVIOUS
      <3>1. IsFiniteSet(1..n) /\ Cardinality(1..n) = IF 1 > n THEN 0 ELSE n - 1 + 1
        BY <3>0, FS_Interval, Zenon
      <3> QED
        BY <3>1
    <2>3. f \in Surjection(1..Len(Idle), memory)
      BY DEF Surjection, Init, MemoryInit
    <2> QED
      BY <2>1, <2>2, <2>3, FS_Surjection
  <1>3. Cardinality(Settled) <= Cardinality(memory) /\ Cardinality(Settled) \in Nat
    BY <1>2, FS_Subset, FS_CardinalityType DEF Settled
  <1>4. Cardinality(Evicting) \in Nat /\ Cardinality(memory) \in Nat /\ Len(Idle) \in Nat
    BY <1>2, SetsAreFinite, FS_CardinalityType DEF MemoryAssumption
  <1>5. Cardinality(Settled) <= MaxThreads + Cardinality(Evicting)
    BY <1>2, <1>3, <1>4 DEF MemoryAssumption
  <1> QED
    BY <1>1, <1>2, <1>5 DEF MemoryInvariant

\* Every step keeps the bound.
LEMMA StepsKeepTheBound ==
  ASSUME MemoryAssumption, MemoryInvariant, [Next]_vars
  PROVE  MemoryInvariant'
  <1>1. /\ Typed /\ CallsNest /\ MaxThreads \in Nat
        /\ Cardinality(memory) \in Nat
    BY FS_CardinalityType DEF MemoryInvariant, Typed, MemoryAssumption
  <1>2. SUFFICES /\ Typed' /\ CallsNest'
                 /\ Quiet \/ (\E r \in Requests : Enters(r)) \/ (\E r \in Requests : Exits(r))
    BY BoundSurvives DEF MemoryInvariant, Typed
  <1>3. ASSUME NEW r \in Requests, Moves(r)
        PROVE  Typed' /\ CallsNest' /\ Quiet
    BY <1>1, <1>3, MovesAreQuiet
  <1>4. ASSUME NEW r \in Requests, Calls(r)
        PROVE  Typed' /\ CallsNest' /\ (Quiet \/ Enters(r) \/ Exits(r))
    BY <1>1, <1>4, CallsStayNested, CallsKeepTheBound
  <1>5. ASSUME NEW r \in Requests, Asks(r) \/ Step(r) \/ Fails(r) \/ Disconnects(r)
        PROVE  Moves(r) \/ Calls(r)
    BY <1>5, AgentsMove, StreamsMove DEF Step, Calls
  <1>6. ASSUME NEW r \in Requests, NEW s \in Sources, HybridStep(r, s) \/ FailsPart(r, s)
        PROVE  Typed' /\ CallsNest' /\ Quiet
    BY <1>1, <1>6, OthersAreQuiet
       DEF HybridStep, StartsPart, EndsPart, FailsPart, PartBecomes
  <1>7. ASSUME NEW t \in OpenThreads, ClearsThread(t)
        PROVE  Typed' /\ CallsNest' /\ Quiet
    BY <1>1, <1>7, ClearsIsQuiet
  <1>8. ASSUME UNCHANGED vars
        PROVE  Typed' /\ CallsNest' /\ Quiet
    BY <1>1, <1>8, OthersAreQuiet DEF vars
  <1> QED
    BY <1>3, <1>4, <1>5, <1>6, <1>7, <1>8 DEF Next, Rests

\* The invariant implies the bound: what is held is settled, or was stored by
\* a request that is still about to evict.
LEMMA BoundFollows ==
  ASSUME MemoryAssumption, MemoryInvariant
  PROVE  MemoryIsBounded
  <1> DEFINE Active == {r \in Storing : Thread(r) \in memory}
             Fresh == {Thread(r) : r \in Active}
             f == [r \in Active |-> Thread(r)]
  <1>1. /\ IsFiniteSet(Settled) /\ Cardinality(Settled) \in Nat
        /\ IsFiniteSet(Evicting) /\ Cardinality(Evicting) \in Nat
        /\ IsFiniteSet(Storing) /\ Cardinality(Storing) \in Nat
        /\ Cardinality(memory) \in Nat /\ MaxThreads \in Nat
        /\ Cardinality(Settled) <= MaxThreads + Cardinality(Evicting)
    BY SetsAreFinite, FS_CardinalityType DEF MemoryInvariant, MemoryAssumption
  <1>2. IsFiniteSet(Active) /\ Cardinality(Active) <= Cardinality(Storing)
    BY <1>1, FS_Subset
  <1>3. IsFiniteSet(Fresh) /\ Cardinality(Fresh) <= Cardinality(Active)
    <2>1. f \in Surjection(Active, Fresh)
      BY DEF Surjection
    <2> QED
      BY <1>2, <2>1, FS_Surjection
  <1>4. Cardinality(memory) <= Cardinality(Settled) + Cardinality(Fresh)
    <2>1. memory = Settled \cup Fresh /\ Settled \cap Fresh = {}
      BY DEF Settled
    <2> HIDE DEF Fresh
    <2>2. Cardinality(Settled \cup Fresh) = Cardinality(Settled) + Cardinality(Fresh) - 0
      BY <1>1, <1>3, <2>1, FS_Union, FS_EmptySet
    <2> QED
      BY <1>1, <1>3, <2>1, <2>2, FS_CardinalityType
  <1>5. Cardinality(Savers) = Cardinality(Storing) + Cardinality(Evicting)
    <2>1. Savers = Storing \cup Evicting /\ Storing \cap Evicting = {}
      BY DEF Savers, Storing, Evicting, Saving
    <2>2. Cardinality(Storing \cup Evicting) = Cardinality(Storing) + Cardinality(Evicting) - 0
      BY <1>1, <2>1, FS_Union, FS_EmptySet
    <2> QED
      BY <1>1, <2>1, <2>2
  <1>6. Cardinality(Active) \in Nat /\ Cardinality(Fresh) \in Nat
    BY <1>2, <1>3, FS_CardinalityType
  <1> HIDE DEF Active, Fresh, f
  <1> QED
    BY <1>1, <1>2, <1>3, <1>4, <1>5, <1>6 DEF MemoryIsBounded

\* The strengthening: entries of the memory are paid for by requests that are
\* still in their eviction loop, and calls of its operations nest in their places.
THEOREM MemoryInvariance == Spec => []MemoryInvariant
  <1>1. Init => MemoryInvariant
    BY MemoryAssumption, InitiallyBounded
  <1>2. MemoryInvariant /\ [Next]_vars => MemoryInvariant'
    BY MemoryAssumption, StepsKeepTheBound
  <1> QED
    BY <1>1, <1>2, PTL DEF Spec

\* The conversation memory is larger than its bound only by what requests
\* have added whose eviction loop is still running, for any number of request
\* threads, conversations and failures and however their loops interleave.
THEOREM BoundedMemory == Spec => []MemoryIsBounded
  <1>1. MemoryInvariant => MemoryIsBounded
    BY MemoryAssumption, BoundFollows
  <1> QED
    BY <1>1, MemoryInvariance, PTL

----------------------------------------------------------------------------
(* Where the text of an answer comes from. *)

\* The local variables of ask() and of iter_query_stream().
Locals == {"tool", "worker", "prior", "locked", "result", "steps"}

\* What holds of the local variables v of a request at a place of the code.
WellFormed(place, v) ==
    /\ place \in PC
    /\ DOMAIN v = Locals /\ v.tool \in Modes /\ v.result \in Result
    /\ place = "new" => v.result = NoResult

\* Until its request is dispatched, a question of POST /query goes to the
\* agent of its mode; from then on the lock stands, an answer of one agent is
\* from that agent's source, and the denial at the gate is the data agent's.
KeepsToMode(place, mode, v) ==
    /\ place # "emit"
    /\ place # "new" => v.locked
    /\ place \in {"queued", "resolve", "gate"} => v.tool = mode
    /\ v.result.agent \in Sources => v.result.from \subseteq {v.result.agent}
    /\ place = "saveDenial" => mode = "data" /\ v.result = Denial
    /\ place = "answered" => v.result.agent = mode

Sound(place, profile, v) ==
    /\ WellFormed(place, v)
    /\ profile \in Profile
    /\ v.result.from \subseteq profile.areas
    /\ profile.via # "stream" /\ profile.mode \in Sources => KeepsToMode(place, profile.mode, v)

SourcesInvariant ==
    /\ pc = [r \in Requests |-> pc[r]] /\ asked = [r \in Requests |-> asked[r]]
    /\ run = [r \in Requests |-> run[r]]
    /\ \A r \in Requests : /\ asked[r] = [thread |-> asked[r].thread, profile |-> asked[r].profile]
                           /\ Sound(pc[r], asked[r].profile, run[r])

----------------------------------------------------------------------------
(* One request moves. *)

\* It is enough to look at the request that takes the step.
LEMMA OneMoves ==
  ASSUME SourcesInvariant, NEW r \in Requests, NEW place, NEW v,
         pc' = [pc EXCEPT ![r] = place], run' = [run EXCEPT ![r] = v], UNCHANGED asked,
         Sound(place, asked[r].profile, v)
  PROVE  SourcesInvariant'
PROOF
  <1>1. /\ pc' = [q \in Requests |-> IF q = r THEN place ELSE pc[q]]
        /\ run' = [q \in Requests |-> IF q = r THEN v ELSE run[q]]
    BY DEF SourcesInvariant
  <1>2. pc' = [q \in Requests |-> pc'[q]] /\ run' = [q \in Requests |-> run'[q]]
    BY <1>1
  <1>3. ASSUME NEW q \in Requests PROVE Sound(pc'[q], asked'[q].profile, run'[q])
    BY <1>1 DEF SourcesInvariant
  <1> QED BY <1>2, <1>3 DEF SourcesInvariant

\* A request that moves on with its local variables as they are.
LEMMA OnlyMoves ==
  ASSUME SourcesInvariant, NEW r \in Requests, NEW place,
         pc' = [pc EXCEPT ![r] = place], UNCHANGED <<run, asked>>,
         Sound(place, asked[r].profile, run[r])
  PROVE  SourcesInvariant'
PROOF
  <1>1. run' = [run EXCEPT ![r] = run[r]]
    BY DEF SourcesInvariant
  <1> QED BY <1>1, OneMoves

\* Nothing of a request changes.
LEMMA NothingMoves ==
  ASSUME SourcesInvariant, UNCHANGED <<pc, asked, run>>
  PROVE  SourcesInvariant'
  BY DEF SourcesInvariant

\* Places that no clause of KeepsToMode speaks of.
Inner == {"prior", "docs", "data", "hybrid", "rescue", "speak", "save", "route", "failed", "gone"}

\* Moving on inside, with a result that is permitted and of one source.
LEMMA InnerIsSound ==
  ASSUME NEW r \in Requests, SourcesInvariant, pc[r] # "new", NEW place \in Inner,
         NEW v, DOMAIN v = Locals, v.tool \in Modes, v.result \in Result,
         v.result.from \subseteq asked[r].profile.areas,
         ~Streams(r) => (v.result.agent \in Sources => v.result.from \subseteq {v.result.agent}),
         ~Streams(r) => v.locked = run[r].locked
  PROVE  Sound(place, asked[r].profile, v)
PROOF
  <1>1. Sound(pc[r], asked[r].profile, run[r])
    BY DEF SourcesInvariant
  <1>2. WellFormed(place, v)
    BY DEF WellFormed, Inner, PC, Ended
  <1>3. ASSUME ~Streams(r), asked[r].profile.mode \in Sources
        PROVE  KeepsToMode(place, asked[r].profile.mode, v)
    BY <1>1, <1>3 DEF Sound, KeepsToMode, Inner, Streams
  <1> QED BY <1>1, <1>2, <1>3 DEF Sound, Streams

\* ... with the local variables as they are.
LEMMA InnerStaysSound ==
  ASSUME NEW r \in Requests, SourcesInvariant, pc[r] # "new", NEW place \in Inner
  PROVE  Sound(place, asked[r].profile, run[r])
PROOF
  <1>1. Sound(pc[r], asked[r].profile, run[r])
    BY DEF SourcesInvariant
  <1>2. WellFormed(place, run[r])
    BY <1>1 DEF Sound, WellFormed, Inner, PC, Ended
  <1>3. ASSUME ~Streams(r), asked[r].profile.mode \in Sources
        PROVE  KeepsToMode(place, asked[r].profile.mode, run[r])
    BY <1>1, <1>3 DEF Sound, KeepsToMode, Inner, Streams
  <1> QED BY <1>1, <1>2, <1>3 DEF Sound, Streams

----------------------------------------------------------------------------
(* What the agents give. *)

\* Texts of the documents are from the documents, a denial has none.
LEMMA DocumentResults ==
  /\ Found \in Result /\ NotFound \in Result /\ Denial \in Result
  /\ [Found EXCEPT !.kept = FALSE] \in Result /\ [NotFound EXCEPT !.kept = FALSE] \in Result
  /\ [Denial EXCEPT !.kept = FALSE] \in Result
  /\ Found.agent = "docs" /\ Found.from = {"docs"} /\ NotFound.from = {}
  /\ Denial.from = {} /\ Denial.agent = "data"
  BY DEF Found, NotFound, Denial, Result, Modes, Sources

\* Text of the data agent is from the data, and only if they may be queried.
LEMMA DataResults ==
  ASSUME NEW r, NEW d \in DataAgent(r)
  PROVE  /\ d \in Result /\ [d EXCEPT !.kept = TRUE] \in Result
         /\ d.agent = "data" /\ d.from \subseteq {"data"} /\ (d.from # {} => May(r, "data"))
         /\ [d EXCEPT !.kept = TRUE].agent = d.agent /\ [d EXCEPT !.kept = TRUE].from = d.from
PROOF
  <1>1. PICK from \in SUBSET {"data"}, denied \in BOOLEAN :
          d = DataResult(from, denied) /\ (from # {} => May(r, "data"))
    <2>1. CASE d = DataResult({}, FALSE)
      BY <2>1
    <2>2. CASE d = DataResult({}, TRUE)
      BY <2>2
    <2>3. CASE d = DataResult({"data"}, FALSE) /\ May(r, "data")
      BY <2>3
    <2> QED BY <2>1, <2>2, <2>3 DEF DataAgent
  <1>2. d = [agent |-> "data", from |-> from, denied |-> denied, kept |-> FALSE]
    BY <1>1 DEF DataResult
  <1>3. d \in Result
    <2>1. from \subseteq Sources /\ "data" \in Modes
      BY DEF Modes, Sources
    <2> QED BY <1>2, <2>1 DEF Result
  <1>4. /\ [d EXCEPT !.kept = TRUE] \in Result
        /\ [d EXCEPT !.kept = TRUE].agent = d.agent
        /\ [d EXCEPT !.kept = TRUE].from = d.from
    BY <1>3 DEF Result
  <1>5. d.agent = "data" /\ d.from = from
    BY <1>2
  <1> QED BY <1>1, <1>3, <1>4, <1>5

\* The handler's fallback to the documents needs the lock to be off.
LEMMA HandlerResults ==
  ASSUME NEW r, NEW d \in DataHandler(r)
  PROVE  /\ d \in Result
         /\ d.from \subseteq asked[r].profile.areas
         /\ run[r].locked => d.agent = "data" /\ d.from \subseteq {"data"}
PROOF
  <1>1. CASE d \in DataAgent(r)
    BY <1>1, DataResults DEF May
  <1>2. CASE d = Clarification
    BY <1>2 DEF Clarification, DataResult, Result, Modes, Sources
  <1>3. CASE d = [Found EXCEPT !.agent = "data"] /\ May(r, "docs") /\ ~run[r].locked
    BY <1>3 DEF Found, Result, Modes, Sources, May
  <1> QED BY <1>1, <1>2, <1>3 DEF DataHandler

\* A handler that concludes with a permitted result of one source.
LEMMA ConcludesStep ==
  ASSUME SourcesInvariant, NEW r \in Requests, pc[r] # "new", NEW d \in Result,
         Concludes(r, d), d.from \subseteq asked[r].profile.areas,
         d.agent \in Sources => d.from \subseteq {d.agent}
  PROVE  SourcesInvariant'
PROOF
  <1> DEFINE v == [[run[r] EXCEPT !.result = d] EXCEPT !.steps = telemetry[Worker(r)]]
  <1>1. DOMAIN run[r] = Locals /\ run[r].tool \in Modes
    BY DEF SourcesInvariant, Sound, WellFormed
  <1>2. /\ run' = [run EXCEPT ![r] = v] /\ pc' = [pc EXCEPT ![r] = "save"] /\ UNCHANGED asked
    BY DEF Concludes, WithResult, To, SourcesInvariant
  <1>3. /\ DOMAIN v = Locals /\ v.tool = run[r].tool /\ v.locked = run[r].locked /\ v.result = d
    BY <1>1 DEF Locals
  <1>4. Sound("save", asked[r].profile, v)
    BY <1>1, <1>3, InnerIsSound DEF Inner
  <1> QED BY <1>2, <1>4, OneMoves

\* A stream that has drafted a permitted answer.
LEMMA DraftsStep ==
  ASSUME SourcesInvariant, NEW r \in Requests, Streams(r), pc[r] # "new", NEW d \in Result,
         NEW lines, Drafts(r, d, lines), d.from \subseteq asked[r].profile.areas
  PROVE  SourcesInvariant'
PROOF
  <1> DEFINE v == [run[r] EXCEPT !.result = d]
  <1>1. DOMAIN run[r] = Locals /\ run[r].tool \in Modes
    BY DEF SourcesInvariant, Sound, WellFormed
  <1>2. run' = [run EXCEPT ![r] = v] /\ UNCHANGED asked
    BY DEF Drafts, SourcesInvariant
  <1>3. DOMAIN v = Locals /\ v.tool = run[r].tool /\ v.result = d
    BY <1>1 DEF Locals
  <1>4. \A place \in Inner : Sound(place, asked[r].profile, v)
    BY <1>1, <1>3, InnerIsSound
  <1>5. \/ pc' = [pc EXCEPT ![r] = "speak"] \/ pc' = [pc EXCEPT ![r] = "save"]
    BY DEF Drafts, To
  <1> QED BY <1>2, <1>4, <1>5, OneMoves DEF Inner

----------------------------------------------------------------------------
(* The steps of a request. *)

\* Arrival: the profile is new, the mode is locked, nothing has been found.
LEMMA AsksStep ==
  ASSUME SourcesInvariant, NEW r \in Requests, Asks(r)
  PROVE  SourcesInvariant'
PROOF
  <1>1. PICK t \in OpenThreads, p \in Profiles :
          /\ asked' = [asked EXCEPT ![r] = [thread |-> t, profile |-> p]]
          /\ run' = [run EXCEPT ![r].tool = p.mode, ![r].locked = Locked(p.mode)]
          /\ pc' = [pc EXCEPT ![r] = IF p.via = "stream" THEN "resolve" ELSE "queued"]
    BY DEF Asks, To
  <1> DEFINE v == [[run[r] EXCEPT !.tool = p.mode] EXCEPT !.locked = Locked(p.mode)]
             place == IF p.via = "stream" THEN "resolve" ELSE "queued"
  <1>2. /\ pc[r] = "new" /\ DOMAIN run[r] = Locals /\ run[r].result = NoResult
        /\ run[r].result \in Result
    BY DEF Asks, At, SourcesInvariant, Sound, WellFormed
  <1>3. p \in Profile /\ p.mode \in Modes
    BY QuestionsAssumption DEF Profile
  <1>4. /\ DOMAIN v = Locals /\ v.tool = p.mode /\ v.result = NoResult /\ v.locked = TRUE
        /\ v.result \in Result
    BY <1>2, <1>3 DEF Locals, Locked
  <1>5. WellFormed(place, v)
    BY <1>3, <1>4 DEF WellFormed, PC
  <1>6. NoResult.from = {} /\ NoResult.agent \notin Sources
    BY DEF NoResult, Sources
  <1>7. Sound(place, p, v)
    BY <1>3, <1>4, <1>5, <1>6 DEF Sound, KeepsToMode
  <1>8. /\ pc' = [q \in Requests |-> IF q = r THEN place ELSE pc[q]]
        /\ run' = [q \in Requests |-> IF q = r THEN v ELSE run[q]]
        /\ asked' = [q \in Requests |-> IF q = r THEN [thread |-> t, profile |-> p] ELSE asked[q]]
    BY <1>1 DEF SourcesInvariant
  <1>9. /\ pc' = [q \in Requests |-> pc'[q]] /\ run' = [q \in Requests |-> run'[q]]
        /\ asked' = [q \in Requests |-> asked'[q]]
    BY <1>8
  <1>10. ASSUME NEW q \in Requests
         PROVE  /\ asked'[q] = [thread |-> asked'[q].thread, profile |-> asked'[q].profile]
                /\ Sound(pc'[q], asked'[q].profile, run'[q])
    BY <1>7, <1>8 DEF SourcesInvariant
  <1> QED BY <1>9, <1>10 DEF SourcesInvariant

\* The way to the gate keeps the tool.
LEMMA BeforeTheGate ==
  ASSUME SourcesInvariant, NEW r \in Requests, Takes(r) \/ LooksUp(r)
  PROVE  SourcesInvariant'
PROOF
  <1>1. Sound(pc[r], asked[r].profile, run[r]) /\ DOMAIN run[r] = Locals /\ run[r].tool \in Modes
    BY DEF SourcesInvariant, Sound, WellFormed
  <1>2. CASE Takes(r)
    <2>1. PICK p \in PoolThreads : run' = [run EXCEPT ![r].worker = p]
      BY <1>2 DEF Takes
    <2> DEFINE v == [run[r] EXCEPT !.worker = p]
    <2>2. run' = [run EXCEPT ![r] = v] /\ pc' = [pc EXCEPT ![r] = "resolve"] /\ UNCHANGED asked
          /\ pc[r] = "queued"
      BY <1>2, <2>1 DEF Takes, To, At, SourcesInvariant
    <2>3. DOMAIN v = Locals /\ v.tool = run[r].tool /\ v.locked = run[r].locked /\ v.result = run[r].result
      BY <1>1 DEF Locals
    <2>4. Sound("resolve", asked[r].profile, v)
      BY <1>1, <2>2, <2>3 DEF Sound, WellFormed, KeepsToMode, PC
    <2> QED BY <2>2, <2>4, OneMoves
  <1>3. CASE LooksUp(r) /\ UNCHANGED <<pc, run>>
    BY <1>3, NothingMoves DEF LooksUp
  <1>4. ASSUME NEW found \in BOOLEAN, LooksUp(r), run' = [run EXCEPT ![r].prior = found],
               To(r, AfterLookUp(r))
        PROVE  SourcesInvariant'
    <2> DEFINE v == [run[r] EXCEPT !.prior = found]
               place == AfterLookUp(r)
    <2>1. run' = [run EXCEPT ![r] = v] /\ pc' = [pc EXCEPT ![r] = place] /\ UNCHANGED asked
      BY <1>4 DEF LooksUp, To, SourcesInvariant
    <2>2. DOMAIN v = Locals /\ v.tool = run[r].tool /\ v.locked = run[r].locked /\ v.result = run[r].result
      BY <1>1 DEF Locals
    <2>3. CASE pc[r] = "resolve"
      <3>1. place = "gate"
        BY <2>3 DEF AfterLookUp, At
      <3>2. Sound("gate", asked[r].profile, v)
        BY <1>1, <2>2, <2>3 DEF Sound, WellFormed, KeepsToMode, PC
      <3> QED BY <2>1, <3>1, <3>2, OneMoves
    <2>4. CASE pc[r] = "prior"
      <3>1. place = run[r].tool /\ place \in Inner
        BY <1>1, <2>4 DEF AfterLookUp, At, Inner, Modes, Sources
      <3>2. Sound(pc[r], asked[r].profile, v)
        BY <1>1, <2>2, <2>4 DEF Sound, WellFormed, KeepsToMode
      <3>3. Sound(place, asked[r].profile, v)
        BY <3>1, <3>2, <2>4 DEF Sound, WellFormed, KeepsToMode, Inner, PC, Ended
      <3> QED BY <2>1, <3>3, OneMoves
    <2> QED BY <1>4, <2>3, <2>4 DEF LooksUp
  <1> QED BY <1>2, <1>3, <1>4 DEF LooksUp

\* The gate.
LEMMA GateStep ==
  ASSUME SourcesInvariant, NEW r \in Requests,
         Denies(r) \/ TriesDocumentsFirst(r) \/ Dispatches(r)
  PROVE  SourcesInvariant'
PROOF
  <1>1. Sound(pc[r], asked[r].profile, run[r]) /\ DOMAIN run[r] = Locals /\ run[r].tool \in Modes
    BY DEF SourcesInvariant, Sound, WellFormed
  <1>2. CASE Denies(r)
    <2> DEFINE v == [[run[r] EXCEPT !.result = Denial] EXCEPT !.steps = telemetry[Worker(r)]]
    <2>1. /\ run' = [run EXCEPT ![r] = v] /\ pc' = [pc EXCEPT ![r] = "saveDenial"] /\ UNCHANGED asked
          /\ pc[r] = "gate" /\ ~Streams(r) /\ run[r].tool = "data"
      BY <1>2 DEF Denies, WithResult, To, At, DeniedAtGate, SourcesInvariant
    <2>2. DOMAIN v = Locals /\ v.tool = run[r].tool /\ v.locked = run[r].locked /\ v.result = Denial
      BY <1>1 DEF Locals
    <2>3. Sound("saveDenial", asked[r].profile, v)
      <3>1. WellFormed("saveDenial", v)
        BY <1>1, <2>2, DocumentResults DEF WellFormed, PC
      <3>2. ASSUME asked[r].profile.mode \in Sources
            PROVE  KeepsToMode("saveDenial", asked[r].profile.mode, v)
        BY <1>1, <2>1, <2>2, <3>2, DocumentResults DEF Sound, KeepsToMode, Streams
      <3> QED BY <1>1, <2>2, <3>1, <3>2, DocumentResults DEF Sound
    <2> QED BY <2>1, <2>3, OneMoves
  <1>3. CASE TriesDocumentsFirst(r)
    <2>1. pc' = [pc EXCEPT ![r] = "rescue"] /\ UNCHANGED <<run, asked>> /\ pc[r] # "new"
      BY <1>3 DEF TriesDocumentsFirst, To, At
    <2> QED BY <2>1, InnerStaysSound, OnlyMoves DEF Inner
  <1>4. CASE Dispatches(r)
    <2>1. /\ UNCHANGED <<run, asked>> /\ pc[r] # "new"
          /\ \/ pc' = [pc EXCEPT ![r] = "hybrid"] \/ pc' = [pc EXCEPT ![r] = "prior"]
             \/ pc' = [pc EXCEPT ![r] = run[r].tool]
      BY <1>4 DEF Dispatches, To, At
    <2>2. {"hybrid", "prior", run[r].tool} \subseteq Inner
      BY <1>1 DEF Inner, Modes, Sources
    <2> QED BY <2>1, <2>2, InnerStaysSound, OnlyMoves
  <1> QED BY <1>2, <1>3, <1>4

\* The agents and the hybrid join of POST /query.
LEMMA HandlersStep ==
  ASSUME SourcesInvariant, NEW r \in Requests,
         DocumentsAnswer(r) \/ DataAnswers(r) \/ Joins(r)
  PROVE  SourcesInvariant'
PROOF
  <1>1. Sound(pc[r], asked[r].profile, run[r]) /\ DOMAIN run[r] = Locals /\ run[r].tool \in Modes
    BY DEF SourcesInvariant, Sound, WellFormed
  <1>2. CASE DocumentsAnswer(r)
    <2>1. pc[r] # "new"
      BY <1>2 DEF DocumentsAnswer, At
    <2>2. CASE May(r, "docs") /\ Concludes(r, Found)
      BY <2>1, <2>2, ConcludesStep, DocumentResults DEF May
    <2>3. CASE Concludes(r, NotFound)
      BY <2>1, <2>3, ConcludesStep, DocumentResults
    <2>4. ASSUME NEW d \in DataAgent(r), Concludes(r, [d EXCEPT !.kept = TRUE]) PROVE SourcesInvariant'
      BY <2>1, <2>4, ConcludesStep, DataResults, ZenonT(60) DEF May
    <2> QED BY <1>2, <2>2, <2>3, <2>4 DEF DocumentsAnswer
  <1>3. CASE DataAnswers(r)
    <2>1. /\ pc[r] # "new" /\ ~Streams(r)
          /\ \E d \in DataHandler(r) : Concludes(r, d)
      BY <1>3 DEF DataAnswers, At
    <2>2. PICK d \in DataHandler(r) : Concludes(r, d)
      BY <2>1
    <2>3. d \in Result /\ d.from \subseteq asked[r].profile.areas
      BY HandlerResults
    <2>4. CASE run[r].locked
      BY <2>1, <2>2, <2>3, <2>4, HandlerResults, ConcludesStep
    <2>5. CASE asked[r].profile.mode \in Sources
      BY <1>1, <2>1, <2>4, <2>5 DEF Sound, KeepsToMode, Streams
    <2>6. CASE asked[r].profile.mode \notin Sources
      <3> DEFINE v == [[run[r] EXCEPT !.result = d] EXCEPT !.steps = telemetry[Worker(r)]]
      <3>1. run' = [run EXCEPT ![r] = v] /\ pc' = [pc EXCEPT ![r] = "save"] /\ UNCHANGED asked
        BY <2>2 DEF Concludes, WithResult, To, SourcesInvariant
      <3>2. DOMAIN v = Locals /\ v.tool = run[r].tool /\ v.result = d
        BY <1>1 DEF Locals
      <3>3. Sound("save", asked[r].profile, v)
        BY <1>1, <2>3, <2>6, <3>2 DEF Sound, WellFormed, PC
      <3> QED BY <3>1, <3>3, OneMoves
    <2> QED BY <2>5, <2>6
  <1>4. CASE Joins(r)
    <2>1. PICK from \in SUBSET asked[r].profile.areas : run' = WithResult(r, HybridResult(from))
      BY <1>4 DEF Joins
    <2> DEFINE d == HybridResult(from)
               v == [[run[r] EXCEPT !.result = d] EXCEPT !.steps = telemetry[Worker(r)]]
    <2>2. /\ run' = [run EXCEPT ![r] = v] /\ pc' = [pc EXCEPT ![r] = "route"] /\ UNCHANGED asked
          /\ pc[r] # "new"
      BY <1>4, <2>1 DEF Joins, WithResult, To, At, SourcesInvariant
    <2>3. /\ d \in Result /\ d.from \subseteq asked[r].profile.areas /\ d.agent \notin Sources
      BY <1>1 DEF HybridResult, Result, Modes, Sources, Sound, Profile
    <2>4. DOMAIN v = Locals /\ v.tool = run[r].tool /\ v.locked = run[r].locked /\ v.result = d
      BY <1>1 DEF Locals
    <2>5. Sound("route", asked[r].profile, v)
      BY <1>1, <2>2, <2>3, <2>4, InnerIsSound DEF Inner
    <2> QED BY <2>2, <2>5, OneMoves
  <1> QED BY <1>2, <1>3, <1>4

\* The streams of the agents.
LEMMA StreamingStep ==
  ASSUME SourcesInvariant, NEW r \in Requests,
         \/ StreamsDocuments(r) \/ NothingToStream(r) \/ ReroutesToData(r) \/ StreamsData(r)
         \/ ReroutesToDocuments(r) \/ StreamsHybrid(r) \/ Rescues(r)
  PROVE  SourcesInvariant'
PROOF
  <1>1. Sound(pc[r], asked[r].profile, run[r]) /\ DOMAIN run[r] = Locals /\ run[r].tool \in Modes
    BY DEF SourcesInvariant, Sound, WellFormed
  <1>2. \A d \in DocumentDrafts(r) : d \in Result /\ d.from \subseteq asked[r].profile.areas
    BY DocumentResults DEF DocumentDrafts, May, Found, NotFound
  <1>3. CASE StreamsDocuments(r)
    BY <1>2, <1>3, DraftsStep DEF StreamsDocuments, At
  <1>4. CASE NothingToStream(r)
    <2>1. [NotFound EXCEPT !.kept = FALSE].from = {}
      BY DEF NotFound, Found
    <2> QED BY <1>4, <2>1, DocumentResults, DraftsStep DEF NothingToStream, At
  <1>5. CASE ReroutesToData(r)
    <2> DEFINE v == [run[r] EXCEPT !.locked = FALSE]
    <2>1. /\ run' = [run EXCEPT ![r] = v] /\ pc' = [pc EXCEPT ![r] = "data"] /\ UNCHANGED asked
          /\ pc[r] # "new" /\ Streams(r)
      BY <1>5 DEF ReroutesToData, To, At, SourcesInvariant
    <2>2. DOMAIN v = Locals /\ v.tool = run[r].tool /\ v.result = run[r].result
      BY <1>1 DEF Locals
    <2>3. v.result \in Result /\ v.result.from \subseteq asked[r].profile.areas
      BY <1>1, <2>2 DEF Sound, WellFormed
    <2>4. Sound("data", asked[r].profile, v)
      BY <1>1, <2>1, <2>2, <2>3, InnerIsSound DEF Inner
    <2> QED BY <2>1, <2>4, OneMoves
  <1>6. CASE StreamsData(r)
    <2>1. \A d \in DataAgent(r) : d \in Result /\ d.from \subseteq asked[r].profile.areas
      BY DataResults DEF May
    <2> QED BY <1>6, <2>1, DraftsStep DEF StreamsData, At
  <1>7. CASE ReroutesToDocuments(r)
    BY <1>2, <1>7, DraftsStep DEF ReroutesToDocuments, At
  <1>8. CASE StreamsHybrid(r)
    <2>1. \A from \in SUBSET asked[r].profile.areas :
             HybridResult(from) \in Result /\ HybridResult(from).from \subseteq asked[r].profile.areas
      BY <1>1 DEF HybridResult, Result, Modes, Sources, Sound, Profile
    <2> QED BY <1>8, <2>1, DraftsStep DEF StreamsHybrid, At
  <1>9. CASE Rescues(r)
    <2>1. PICK d \in {Denial} \cup IF May(r, "docs") THEN {Found} ELSE {} :
            run' = [run EXCEPT ![r].result = [d EXCEPT !.kept = FALSE]]
      BY <1>9 DEF Rescues
    <2> DEFINE e == [d EXCEPT !.kept = FALSE]
               v == [run[r] EXCEPT !.result = e]
    <2>2. d \in Result /\ d.from \subseteq asked[r].profile.areas
          /\ (d.agent \in Sources => d.from \subseteq {d.agent})
      BY <2>1, DocumentResults DEF May
    <2>3. e \in Result /\ e.from = d.from /\ e.agent = d.agent
      BY <2>2 DEF Result
    <2>4. /\ run' = [run EXCEPT ![r] = v] /\ pc' = [pc EXCEPT ![r] = "save"] /\ UNCHANGED asked
          /\ pc[r] # "new"
      BY <1>9, <2>1 DEF Rescues, To, At, SourcesInvariant
    <2>5. DOMAIN v = Locals /\ v.tool = run[r].tool /\ v.locked = run[r].locked /\ v.result = e
      BY <1>1 DEF Locals
    <2>6. Sound("save", asked[r].profile, v)
      BY <1>1, <2>2, <2>3, <2>4, <2>5, InnerIsSound DEF Inner
    <2> QED BY <2>4, <2>6, OneMoves
  <1> QED BY <1>3, <1>4, <1>5, <1>6, <1>7, <1>8, <1>9

\* A request leaves its pool thread: its other local variables stay.
LEMMA LeavingKeeps ==
  ASSUME SourcesInvariant, NEW r \in Requests
  PROVE  /\ Leaves(r) = [run EXCEPT ![r] = [run[r] EXCEPT !.worker = NoWorker]]
         /\ DOMAIN [run[r] EXCEPT !.worker = NoWorker] = Locals
         /\ \A f \in Locals \ {"worker"} : [run[r] EXCEPT !.worker = NoWorker][f] = run[r][f]
  BY DEF SourcesInvariant, Sound, WellFormed, Leaves, Locals

\* Saving, and the final event of a stream.
LEMMA SavesStep ==
  ASSUME SourcesInvariant, NEW r \in Requests, Saves(r) \/ Speaks(r) \/ Emits(r) \/ Disconnects(r)
  PROVE  SourcesInvariant'
PROOF
  <1>1. Sound(pc[r], asked[r].profile, run[r]) /\ DOMAIN run[r] = Locals /\ run[r].tool \in Modes
    BY DEF SourcesInvariant, Sound, WellFormed
  <1>2. CASE UNCHANGED <<pc, asked, run>>
    BY <1>2, NothingMoves
  <1>3. CASE At(r, "saveDenial") /\ To(r, "answered") /\ run' = Leaves(r) /\ UNCHANGED asked
    <2> DEFINE v == [run[r] EXCEPT !.worker = NoWorker]
    <2>1. DOMAIN v = Locals /\ v.tool = run[r].tool /\ v.locked = run[r].locked /\ v.result = run[r].result
      BY LeavingKeeps DEF Locals
    <2>2. WellFormed("answered", v)
      BY <1>1, <2>1 DEF Sound, WellFormed, PC, Ended
    <2>3. Sound("answered", asked[r].profile, v)
      BY <1>1, <1>3, <2>1, <2>2, DocumentResults DEF Sound, KeepsToMode, At
    <2> QED BY <1>3, <2>3, LeavingKeeps, OneMoves DEF To
  <1>4. CASE /\ pc[r] # "new" /\ UNCHANGED <<asked, run>>
             /\ \E place \in Inner : pc' = [pc EXCEPT ![r] = place]
    BY <1>4, InnerStaysSound, OnlyMoves
  <1>5. CASE /\ Streams(r) /\ pc[r] # "new" /\ UNCHANGED <<asked, run>>
             /\ \E place \in {"emit", "answered"} : pc' = [pc EXCEPT ![r] = place]
    <2>1. \A place \in {"emit", "answered"} : Sound(place, asked[r].profile, run[r])
      BY <1>1, <1>5 DEF Sound, WellFormed, Streams, PC, Ended
    <2> QED BY <1>5, <2>1, OnlyMoves
  <1>6. CASE At(r, "save") /\ To(r, IF Streams(r) THEN "emit" ELSE "route") /\ UNCHANGED <<asked, run>>
    BY <1>4, <1>5, <1>6 DEF At, To, Inner
  <1>7. CASE Saves(r)
    BY <1>2, <1>3, <1>6, <1>7 DEF Saves, AfterSave
  <1>8. CASE Speaks(r)
    BY <1>4, <1>8 DEF Speaks, At, To, Inner
  <1>9. CASE Emits(r)
    <2>1. pc[r] = "emit" /\ pc' = [pc EXCEPT ![r] = "answered"] /\ UNCHANGED <<asked, run>>
      BY <1>9 DEF Emits, At, To
    <2>2. Sound("answered", asked[r].profile, run[r])
      BY <1>1, <2>1 DEF Sound, WellFormed, KeepsToMode, PC, Ended
    <2> QED BY <2>1, <2>2, OnlyMoves
  <1>10. CASE Disconnects(r)
    BY <1>4, <1>10 DEF Disconnects, To, Inner
  <1> QED BY <1>7, <1>8, <1>9, <1>10

\* The fallback of POST /query, and the end: an answer of another agent than
\* the mode's is taken back, whatever it was made from.
LEMMA RouteStep ==
  ASSUME SourcesInvariant, NEW r \in Requests, FallsBackToDocuments(r) \/ Answers(r)
  PROVE  SourcesInvariant'
PROOF
  <1>1. Sound(pc[r], asked[r].profile, run[r]) /\ DOMAIN run[r] = Locals /\ run[r].tool \in Modes
        /\ run[r].result \in Result
    BY DEF SourcesInvariant, Sound, WellFormed
  <1>2. CASE FallsBackToDocuments(r)
    <2> DEFINE v == [run[r] EXCEPT !.tool = "docs"]
    <2>1. /\ run' = [run EXCEPT ![r] = v] /\ pc' = [pc EXCEPT ![r] = "prior"] /\ UNCHANGED asked
          /\ pc[r] = "route"
      BY <1>2 DEF FallsBackToDocuments, To, At, SourcesInvariant
    <2>2. DOMAIN v = Locals /\ v.tool = "docs" /\ v.locked = run[r].locked /\ v.result = run[r].result
      BY <1>1 DEF Locals
    <2>3. Sound("prior", asked[r].profile, v)
      BY <1>1, <2>1, <2>2 DEF Sound, WellFormed, KeepsToMode, PC, Modes, Sources
    <2> QED BY <2>1, <2>3, OneMoves
  <1>3. CASE Answers(r)
    <2> DEFINE left == [run[r] EXCEPT !.worker = NoWorker]
               result == Enforced(r, run[r].result)
               v == [left EXCEPT !.result = result]
               mode == asked[r].profile.mode
    <2>1. /\ DOMAIN left = Locals /\ left.tool = run[r].tool /\ left.locked = run[r].locked
          /\ left.result = run[r].result
          /\ Leaves(r) = [run EXCEPT ![r] = left]
      BY LeavingKeeps DEF Locals
    <2>2. run' = [run EXCEPT ![r] = v]
      <3>1. run' = [Leaves(r) EXCEPT ![r].result = Enforced(r, @)]
        BY <1>3 DEF Answers
      <3>2. Leaves(r)[r] = left
        BY <2>1 DEF SourcesInvariant
      <3>3. run' = [Leaves(r) EXCEPT ![r] = v]
        BY <3>1, <3>2, <2>1
      <3> QED BY <3>3, <2>1 DEF SourcesInvariant
    <2>3. pc' = [pc EXCEPT ![r] = "answered"] /\ UNCHANGED asked /\ pc[r] = "route"
      BY <1>3 DEF Answers, To, At
    <2>4. DOMAIN v = Locals /\ v.tool = run[r].tool /\ v.locked = run[r].locked /\ v.result = result
      BY <2>1 DEF Locals
    <2>5. mode \in Modes
      BY <1>1 DEF Sound, Profile
    <2>6. /\ result \in Result /\ result.from \subseteq run[r].result.from
          /\ result.agent = mode
          /\ result.agent = run[r].result.agent \/ result.from = {}
      <3>1. CASE run[r].result.agent = mode
        BY <1>1, <3>1 DEF Enforced
      <3>2. CASE run[r].result.agent # mode
        <4>1. result = [[run[r].result EXCEPT !.agent = mode] EXCEPT !.from = {}]
          BY <3>2 DEF Enforced
        <4> QED BY <4>1, <1>1, <2>5 DEF Result
      <3> QED BY <3>1, <3>2
    <2>7. WellFormed("answered", v)
      BY <1>1, <2>4, <2>6 DEF WellFormed, PC, Ended
    <2>8. Sound("answered", asked[r].profile, v)
      BY <1>1, <2>3, <2>4, <2>6, <2>7 DEF Sound, KeepsToMode
    <2> QED BY <2>2, <2>3, <2>8, OneMoves
  <1> QED BY <1>2, <1>3

\* A request that fails keeps what it has found.
LEMMA RaisesStep ==
  ASSUME SourcesInvariant, NEW r \in Requests, pc[r] # "new", Raises(r)
  PROVE  SourcesInvariant'
PROOF
  <1> DEFINE v == [run[r] EXCEPT !.worker = NoWorker]
  <1>1. Sound(pc[r], asked[r].profile, run[r])
    BY DEF SourcesInvariant
  <1>2. DOMAIN v = Locals /\ v.tool = run[r].tool /\ v.locked = run[r].locked /\ v.result = run[r].result
    BY LeavingKeeps DEF Locals
  <1>3. run' = [run EXCEPT ![r] = v] /\ pc' = [pc EXCEPT ![r] = "failed"] /\ UNCHANGED asked
    BY LeavingKeeps DEF Raises, To
  <1>4. Sound("failed", asked[r].profile, v)
    BY <1>1, <1>2 DEF Sound, WellFormed, KeepsToMode, PC, Ended
  <1> QED BY <1>3, <1>4, OneMoves

\* Nothing has been found when nothing has been asked.
LEMMA SourcesInit == Init => SourcesInvariant
PROOF
  <1> SUFFICES ASSUME Init PROVE SourcesInvariant
    OBVIOUS
  <1>1. /\ pc = [r \in Requests |-> "new"] /\ asked = [r \in Requests |-> NotAsked]
        /\ run = [r \in Requests |-> NewRun]
    BY DEF Init
  <1>2. NotAsked.profile \in Profile /\ NotAsked = [thread |-> NotAsked.thread, profile |-> NotAsked.profile]
    <2>1. (CHOOSE p \in Profiles : TRUE) \in Profiles
      BY QuestionsAssumption
    <2> QED BY <2>1, QuestionsAssumption DEF NotAsked
  <1>3. NoResult \in Result /\ NoResult.from = {} /\ NoResult.agent \notin Sources
    BY DEF NoResult, Result, Modes, Sources
  <1>4. WellFormed("new", NewRun)
    BY <1>3 DEF WellFormed, NewRun, Locals, PC, Modes, Sources
  <1>5. NewRun.result = NoResult
    BY DEF NewRun
  <1>6. Sound("new", NotAsked.profile, NewRun)
    BY <1>2, <1>3, <1>4, <1>5 DEF Sound, KeepsToMode
  <1> QED BY <1>1, <1>2, <1>6 DEF SourcesInvariant

\* A request that loses its turn is inside get_turn or save_turn (CallsNest),
\* and so it has been asked.
LEMMA SourcesStep ==
  ASSUME SourcesInvariant, CallsNest, [Next]_vars
  PROVE  SourcesInvariant'
PROOF
  <1>1. ASSUME NEW r \in Requests, Step(r) PROVE SourcesInvariant'
    <2>1. CASE LosesTurn(r) \/ JoinFails(r)
      <3>1. Raises(r)
        BY <2>1 DEF LosesTurn, JoinFails
      <3>2. pc[r] # "new"
        BY <2>1 DEF CallsNest, LosesTurn, LosesEntry, JoinFails, At
      <3> QED BY <3>1, <3>2, RaisesStep
    <2> QED BY <1>1, <2>1, BeforeTheGate, GateStep, HandlersStep, StreamingStep, SavesStep, RouteStep
            DEF Step
  <1>2. ASSUME NEW r \in Requests, Fails(r) PROVE SourcesInvariant'
    BY <1>2, RaisesStep DEF Fails, At
  <1>3. ASSUME NEW r \in Requests, NEW s \in Sources, HybridStep(r, s) \/ FailsPart(r, s)
        PROVE  SourcesInvariant'
    BY <1>3, NothingMoves DEF HybridStep, StartsPart, EndsPart, FailsPart, PartBecomes
  <1>4. ASSUME NEW t \in OpenThreads, ClearsThread(t) PROVE SourcesInvariant'
    BY <1>4, NothingMoves DEF ClearsThread
  <1>5. CASE UNCHANGED vars
    BY <1>5, NothingMoves DEF vars
  <1> QED BY <1>1, <1>2, <1>3, <1>4, <1>5, AsksStep, SavesStep DEF Next, Rests

\* No path, stream, reroute, fallback or failure gives text from a knowledge
\* area the user's role may not query.
THEOREM SourcesPermitted == Spec => []PermittedSourcesOnly
PROOF
  <1>1. SourcesInvariant => PermittedSourcesOnly
    BY DEF SourcesInvariant, Sound, PermittedSourcesOnly
  <1>2. SourcesInvariant /\ MemoryInvariant /\ [Next]_vars => SourcesInvariant'
    BY SourcesStep DEF MemoryInvariant
  <1> QED BY <1>1, <1>2, SourcesInit, MemoryInvariance, PTL DEF Spec

\* An answer of POST /query to a question with a selected source is that
\* agent's, and its text is from that source alone, whichever agents,
\* fallbacks and reroutes came in between.
THEOREM ModeIsKept == Spec => []AnswersComeFromTheChosenSource
PROOF
  <1>1. SourcesInvariant => AnswersComeFromTheChosenSource
    BY DEF SourcesInvariant, Sound, KeepsToMode, AnswersComeFromTheChosenSource, Answered, At, Streams
  <1>2. SourcesInvariant /\ MemoryInvariant /\ [Next]_vars => SourcesInvariant'
    BY SourcesStep DEF MemoryInvariant
  <1> QED BY <1>1, <1>2, SourcesInit, MemoryInvariance, PTL DEF Spec

----------------------------------------------------------------------------
(* The telemetry in an answer. *)

\* Places at which a request of POST /query has telemetry on its thread.
Traced == {"resolve", "gate", "prior", "docs", "data", "hybrid"}

\* Places at which it does not have a pool thread, or none any more.
Outside == {"new", "queued"} \cup Ended

Failures == {q \in Requests : At(q, "failed")}

\* A question of POST /query has a pool thread as long as ask() runs; a stream
\* has none, and only a stream sends a final event after its turn is saved.
Placed(place, streams, v) ==
    /\ v.worker \in PoolThreads \cup {NoWorker}
    /\ v.worker # NoWorker <=> ~streams /\ place \notin Outside
    /\ place \in {"queued", "route", "saveDenial"} => ~streams
    /\ place = "emit" => streams

\* What a thread's Telemetry object holds was left there by failures, or
\* belongs to the one request that has the thread.
TelemetryInvariant ==
    /\ telemetry = [p \in PoolThreads |-> telemetry[p]]
    /\ \A r \in Requests : /\ Placed(pc[r], Streams(r), run[r])
                           /\ run[r].steps \subseteq {r} \cup Failures
    /\ \A q, r \in Requests : Worker(q) = Worker(r) /\ q # r => Worker(r) = NoWorker
    /\ \A p \in PoolThreads : \A q \in telemetry[p] :
            /\ q \in Requests
            /\ At(q, "failed") \/ (Worker(q) = p /\ pc[q] \in Traced)

\* Request r goes to a place with local variables v, and what is on the
\* threads of the pool stays in order.
Proceeds(r, place, v) ==
    /\ pc' = [pc EXCEPT ![r] = place] /\ run' = [run EXCEPT ![r] = v]
    /\ \A q \in Requests \ {r} : asked'[q] = asked[q]
    /\ pc[r] = "failed" => place = "failed"
    /\ Placed(place, asked'[r].profile.via = "stream", v)
    /\ v.worker # NoWorker => \A q \in Requests \ {r} : Worker(q) # v.worker
    /\ v.steps \subseteq {r} \cup Failures
    /\ telemetry' = [p \in PoolThreads |-> telemetry'[p]]
    /\ \A p \in PoolThreads : telemetry'[p] \subseteq telemetry[p] \cup {r}
    /\ \A p \in PoolThreads : r \in telemetry'[p] =>
            place = "failed" \/ (place \in Traced /\ v.worker = p)

\* It is enough to look at the request that takes the step.
LEMMA OneProceeds ==
  ASSUME SourcesInvariant, TelemetryInvariant, NEW r \in Requests, NEW place, NEW v,
         Proceeds(r, place, v)
  PROVE  TelemetryInvariant'
PROOF
  <1>1. /\ pc' = [q \in Requests |-> IF q = r THEN place ELSE pc[q]]
        /\ run' = [q \in Requests |-> IF q = r THEN v ELSE run[q]]
    BY DEF SourcesInvariant, Proceeds
  <1>2. Failures \subseteq Failures'
    BY <1>1 DEF Failures, At, Proceeds
  <1>3. ASSUME NEW q \in Requests
        PROVE  Placed(pc'[q], Streams(q)', run'[q]) /\ run'[q].steps \subseteq {q} \cup Failures'
    <2>1. CASE q = r
      BY <1>1, <1>2, <2>1 DEF Streams, Proceeds
    <2>2. CASE q # r
      <3>1. Streams(q)' = Streams(q) /\ pc'[q] = pc[q] /\ run'[q] = run[q]
        BY <1>1, <2>2 DEF Streams, Proceeds
      <3> QED BY <1>2, <3>1 DEF TelemetryInvariant
    <2> QED BY <2>1, <2>2
  <1>4. ASSUME NEW q \in Requests, NEW s \in Requests, Worker(q)' = Worker(s)', q # s
        PROVE  Worker(s)' = NoWorker
    BY <1>1, <1>4 DEF TelemetryInvariant, Worker, Proceeds
  <1>5. ASSUME NEW p \in PoolThreads, NEW q \in telemetry'[p]
        PROVE  q \in Requests /\ (At(q, "failed")' \/ (Worker(q)' = p /\ pc'[q] \in Traced))
    BY <1>1 DEF TelemetryInvariant, Worker, At, Proceeds
  <1> HIDE DEF Placed
  <1> QED BY <1>3, <1>4, <1>5 DEF TelemetryInvariant, Proceeds

\* A request that moves on inside ask() or its generator, keeping its thread
\* and leaving the telemetry alone.
LEMMA GoesOn ==
  ASSUME SourcesInvariant, TelemetryInvariant, NEW r \in Requests, NEW place, NEW v,
         pc' = [pc EXCEPT ![r] = place], run' = [run EXCEPT ![r] = v],
         UNCHANGED <<asked, telemetry>>,
         v.worker = run[r].worker, v.steps = run[r].steps,
         pc[r] \notin Outside,
         \/ place \in Traced \cup {"rescue", "speak", "save"}
         \/ place \in {"emit", "gone", "answered"} /\ Streams(r)
         \/ place = "route" /\ ~Streams(r),
         pc[r] \in Traced => place \in Traced \/ Streams(r)
  PROVE  TelemetryInvariant'
PROOF
  <1>1. /\ Placed(pc[r], Streams(r), run[r]) /\ run[r].steps \subseteq {r} \cup Failures
        /\ \A q \in Requests \ {r} : Worker(q) = Worker(r) => Worker(r) = NoWorker
    BY DEF TelemetryInvariant
  <1>2. Streams(r) \in BOOLEAN /\ Streams(r)' = Streams(r)
        /\ Streams(r)' = (asked'[r].profile.via = "stream")
    BY DEF Streams
  <1>3. Placed(place, asked'[r].profile.via = "stream", v)
    BY <1>1, <1>2 DEF Placed, Outside, Traced, Ended
  <1>4. \A p \in PoolThreads : r \in telemetry'[p] =>
            place = "failed" \/ (place \in Traced /\ v.worker = p)
    BY <1>1, QuestionsAssumption DEF TelemetryInvariant, Placed, At, Outside, Ended, Worker
  <1>5. pc[r] = "failed" => place = "failed"
    BY DEF Outside, Ended
  <1>6. /\ telemetry' = [p \in PoolThreads |-> telemetry'[p]]
        /\ \A p \in PoolThreads : telemetry'[p] \subseteq telemetry[p] \cup {r}
        /\ \A q \in Requests \ {r} : asked'[q] = asked[q]
    BY DEF TelemetryInvariant
  <1>7. /\ v.worker # NoWorker => \A q \in Requests \ {r} : Worker(q) # v.worker
        /\ v.steps \subseteq {r} \cup Failures
    BY <1>1 DEF Worker
  <1>8. Proceeds(r, place, v)
    BY <1>3, <1>4, <1>5, <1>6, <1>7 DEF Proceeds
  <1> QED BY <1>8, OneProceeds

\* A request that ends: it leaves its thread, and what it leaves there belongs
\* to a failure.
LEMMA GoesOut ==
  ASSUME SourcesInvariant, TelemetryInvariant, NEW r \in Requests, NEW place \in Ended, NEW v,
         pc' = [pc EXCEPT ![r] = place], run' = [run EXCEPT ![r] = v],
         v.worker = NoWorker, v.steps = run[r].steps, UNCHANGED <<asked, telemetry>>,
         pc[r] \notin Outside,
         pc[r] \in Traced => place = "failed"
  PROVE  TelemetryInvariant'
PROOF
  <1>1. run[r].steps \subseteq {r} \cup Failures
    BY DEF TelemetryInvariant
  <1>2. Placed(place, asked'[r].profile.via = "stream", v)
    BY DEF Placed, Outside, Ended
  <1>3. \A p \in PoolThreads : r \in telemetry'[p] => place = "failed"
    BY DEF TelemetryInvariant, At, Outside, Ended
  <1>4. Proceeds(r, place, v)
    BY <1>1, <1>2, <1>3 DEF Proceeds, TelemetryInvariant, Outside, Ended
  <1> QED BY <1>4, OneProceeds

\* What a result takes from the thread's object is the request's own or a
\* failure's.
LEMMA OwnSteps ==
  ASSUME TelemetryInvariant, NEW r \in Requests, ~Streams(r), pc[r] \notin Outside
  PROVE  Worker(r) \in PoolThreads /\ telemetry[Worker(r)] \subseteq {r} \cup Failures
PROOF
  <1>1. Worker(r) \in PoolThreads /\ Worker(r) # NoWorker
    BY DEF TelemetryInvariant, Placed, Worker
  <1> QED BY <1>1 DEF TelemetryInvariant, Failures

\* A request of POST /query has its result x and goes on to a place.
HasResult(r, place, x) ==
    /\ pc[r] \in Traced /\ ~Streams(r)
    /\ pc' = [pc EXCEPT ![r] = place] /\ place \in {"save", "route", "saveDenial"}
    /\ run' = WithResult(r, x) /\ telemetry' = Cleared(r) /\ UNCHANGED asked

\* Its thread is left without a Telemetry object.
LEMMA Concluded ==
  ASSUME SourcesInvariant, TelemetryInvariant, NEW r \in Requests, NEW place, NEW x,
         HasResult(r, place, x)
  PROVE  TelemetryInvariant'
PROOF
  <1> USE DEF HasResult
  <1> DEFINE v == [[run[r] EXCEPT !.result = x] EXCEPT !.steps = telemetry[Worker(r)]]
  <1>1. pc[r] \notin Outside /\ DOMAIN run[r] = Locals
    BY DEF Outside, Ended, Traced, SourcesInvariant, Sound, WellFormed
  <1>2. run' = [run EXCEPT ![r] = v] /\ v.worker = Worker(r) /\ v.steps = telemetry[Worker(r)]
    BY <1>1 DEF WithResult, SourcesInvariant, Locals, Worker
  <1>3. Worker(r) \in PoolThreads /\ v.steps \subseteq {r} \cup Failures
    BY <1>1, <1>2, OwnSteps
  <1>4. /\ telemetry' = [p \in PoolThreads |-> telemetry'[p]]
        /\ \A p \in PoolThreads : telemetry'[p] \subseteq telemetry[p] \cup {r}
        /\ \A p \in PoolThreads : r \notin telemetry'[p]
    <2>1. telemetry' = [p \in PoolThreads |-> IF p = Worker(r) THEN {} ELSE telemetry[p]]
      BY <1>3 DEF Cleared, TelemetryInvariant
    <2>2. \A p \in PoolThreads : r \in telemetry[p] => p = Worker(r)
      BY <1>1 DEF TelemetryInvariant, At, Outside, Ended
    <2> QED BY <2>1, <2>2
  <1>5. Placed(place, asked'[r].profile.via = "stream", v)
    BY <1>2, <1>3, QuestionsAssumption DEF Placed, Outside, Ended, Streams
  <1>6. \A q \in Requests \ {r} : Worker(q) # v.worker
    BY <1>2, <1>3, QuestionsAssumption DEF TelemetryInvariant
  <1> HIDE DEF v
  <1>7. Proceeds(r, place, v)
    BY <1>1, <1>2, <1>3, <1>4, <1>5, <1>6 DEF Proceeds, Outside, Ended
  <1> QED BY <1>7, OneProceeds

\* Nothing of a request or a thread changes.
LEMMA NothingGoes ==
  ASSUME TelemetryInvariant, UNCHANGED <<pc, asked, run, telemetry>>
  PROVE  TelemetryInvariant'
  BY DEF TelemetryInvariant, Failures, At, Streams, Worker

\* Arrival, and the pool thread that takes a question of POST /query: a thread
\* that no other request has, with whatever telemetry failures left on it.
LEMMA ArrivalTelemetry ==
  ASSUME SourcesInvariant, TelemetryInvariant, NEW r \in Requests, Asks(r) \/ Takes(r)
  PROVE  TelemetryInvariant'
PROOF
  <1>1. /\ DOMAIN run[r] = Locals /\ Placed(pc[r], Streams(r), run[r])
        /\ run[r].steps \subseteq {r} \cup Failures
    BY DEF SourcesInvariant, Sound, WellFormed, TelemetryInvariant
  <1>2. pc[r] \in {"new", "queued"} /\ Worker(r) = NoWorker
        /\ \A p \in PoolThreads : r \notin telemetry[p]
    <2>1. pc[r] \in {"new", "queued"}
      BY DEF Asks, Takes, At
    <2> QED BY <1>1, <2>1 DEF Placed, Outside, Traced, TelemetryInvariant, At, Worker
  <1>3. CASE Asks(r)
    <2>1. PICK t \in OpenThreads, p \in Profiles :
            /\ asked' = [asked EXCEPT ![r] = [thread |-> t, profile |-> p]]
            /\ run' = [run EXCEPT ![r].tool = p.mode, ![r].locked = Locked(p.mode)]
            /\ pc' = [pc EXCEPT ![r] = IF p.via = "stream" THEN "resolve" ELSE "queued"]
      BY <1>3 DEF Asks, To
    <2> DEFINE v == [[run[r] EXCEPT !.tool = p.mode] EXCEPT !.locked = Locked(p.mode)]
               place == IF p.via = "stream" THEN "resolve" ELSE "queued"
    <2>2. run' = [run EXCEPT ![r] = v] /\ v.worker = NoWorker /\ v.steps = run[r].steps
      BY <1>1, <1>2, <2>1 DEF SourcesInvariant, Locals, Worker
    <2>3. /\ \A q \in Requests \ {r} : asked'[q] = asked[q]
          /\ asked'[r].profile = p
      BY <2>1 DEF SourcesInvariant
    <2>4. Placed(place, asked'[r].profile.via = "stream", v)
      BY <2>2, <2>3 DEF Placed, Outside, Ended
    <2>5. UNCHANGED telemetry
      BY <1>3 DEF Asks
    <2> HIDE DEF v
    <2>6. Proceeds(r, place, v)
      BY <1>1, <1>2, <2>1, <2>2, <2>3, <2>4, <2>5 DEF Proceeds, TelemetryInvariant
    <2> QED BY <2>6, OneProceeds
  <1>4. CASE Takes(r)
    <2>1. PICK p \in PoolThreads \ Busy :
            /\ run' = [run EXCEPT ![r].worker = p]
            /\ telemetry' = [telemetry EXCEPT ![p] = @ \cup {r}]
      BY <1>4 DEF Takes
    <2>2. pc[r] = "queued" /\ pc' = [pc EXCEPT ![r] = "resolve"] /\ UNCHANGED asked
      BY <1>4 DEF Takes, At, To
    <2> DEFINE v == [run[r] EXCEPT !.worker = p]
    <2>3. run' = [run EXCEPT ![r] = v] /\ v.worker = p /\ v.steps = run[r].steps
      BY <1>1, <2>1 DEF SourcesInvariant, Locals
    <2>4. p # NoWorker /\ \A q \in Requests \ {r} : Worker(q) # p
      BY <2>1, QuestionsAssumption DEF Busy
    <2>5. ~Streams(r)
      BY <1>1, <2>2 DEF Placed
    <2>6. Placed("resolve", asked'[r].profile.via = "stream", v)
      BY <2>2, <2>3, <2>4, <2>5 DEF Placed, Outside, Ended, Streams
    <2>7. telemetry' = [t \in PoolThreads |-> IF t = p THEN telemetry[p] \cup {r} ELSE telemetry[t]]
      BY <2>1 DEF TelemetryInvariant
    <2>8. /\ telemetry' = [t \in PoolThreads |-> telemetry'[t]]
          /\ \A t \in PoolThreads : telemetry'[t] \subseteq telemetry[t] \cup {r}
          /\ \A t \in PoolThreads : r \in telemetry'[t] => t = p
      BY <1>2, <2>7
    <2> HIDE DEF v
    <2>9. Proceeds(r, "resolve", v)
      BY <1>1, <2>2, <2>3, <2>4, <2>6, <2>8 DEF Proceeds, Traced
    <2> QED BY <2>9, OneProceeds
  <1> QED BY <1>3, <1>4

\* The fallback of POST /query starts telemetry anew on the same thread.
LEMMA FallbackTelemetry ==
  ASSUME SourcesInvariant, TelemetryInvariant, NEW r \in Requests, FallsBackToDocuments(r)
  PROVE  TelemetryInvariant'
PROOF
  <1> DEFINE v == [run[r] EXCEPT !.tool = "docs"]
  <1>1. /\ run' = [run EXCEPT ![r] = v] /\ pc' = [pc EXCEPT ![r] = "prior"] /\ UNCHANGED asked
        /\ pc[r] = "route" /\ telemetry' = [telemetry EXCEPT ![Worker(r)] = @ \cup {r}]
    BY DEF FallsBackToDocuments, To, At, SourcesInvariant
  <1>2. DOMAIN run[r] = Locals /\ Placed(pc[r], Streams(r), run[r])
    BY DEF SourcesInvariant, Sound, WellFormed, TelemetryInvariant
  <1>3. v.worker = Worker(r) /\ v.steps = run[r].steps
    BY <1>2 DEF Locals, Worker
  <1>4. ~Streams(r) /\ Worker(r) \in PoolThreads /\ Worker(r) # NoWorker
    BY <1>1, <1>2 DEF Placed, Outside, Ended, Worker
  <1>5. /\ telemetry' = [t \in PoolThreads |-> telemetry'[t]]
        /\ \A t \in PoolThreads : telemetry'[t] \subseteq telemetry[t] \cup {r}
        /\ \A t \in PoolThreads : r \in telemetry'[t] => t = Worker(r)
    <2>1. telemetry' = [t \in PoolThreads |->
                          IF t = Worker(r) THEN telemetry[Worker(r)] \cup {r} ELSE telemetry[t]]
      BY <1>1, <1>4 DEF TelemetryInvariant
    <2>2. \A t \in PoolThreads : r \notin telemetry[t]
      BY <1>1 DEF TelemetryInvariant, At, Traced
    <2> QED BY <2>1, <2>2
  <1>6. Placed("prior", asked'[r].profile.via = "stream", v)
    BY <1>1, <1>3, <1>4 DEF Placed, Outside, Ended, Streams
  <1>7. /\ \A q \in Requests \ {r} : Worker(q) # v.worker
        /\ v.steps \subseteq {r} \cup Failures
    BY <1>3, <1>4 DEF TelemetryInvariant
  <1> HIDE DEF v
  <1>8. Proceeds(r, "prior", v)
    BY <1>1, <1>3, <1>5, <1>6, <1>7 DEF Proceeds, Traced
  <1> QED BY <1>8, OneProceeds

\* The way to an agent keeps the telemetry, and the denial at the gate takes
\* it into its result.
LEMMA GateTelemetry ==
  ASSUME SourcesInvariant, TelemetryInvariant, NEW r \in Requests,
         LooksUp(r) \/ Denies(r) \/ TriesDocumentsFirst(r) \/ Dispatches(r)
  PROVE  TelemetryInvariant'
PROOF
  <1>1. /\ DOMAIN run[r] = Locals /\ run[r].tool \in Traced
        /\ run = [run EXCEPT ![r] = run[r]]
    BY DEF SourcesInvariant, Sound, WellFormed, Modes, Sources, Traced
  <1>2. CASE LooksUp(r)
    <2>1. /\ pc[r] \in Traced /\ pc[r] \notin Outside /\ AfterLookUp(r) \in Traced
          /\ UNCHANGED <<asked, telemetry>>
      BY <1>1, <1>2 DEF LooksUp, AfterLookUp, Traced, Outside, Ended
    <2>2. ASSUME NEW found, run' = [run EXCEPT ![r].prior = found], To(r, AfterLookUp(r))
          PROVE  TelemetryInvariant'
      <3> DEFINE v == [run[r] EXCEPT !.prior = found]
      <3>1. /\ run' = [run EXCEPT ![r] = v] /\ v.worker = run[r].worker /\ v.steps = run[r].steps
            /\ pc' = [pc EXCEPT ![r] = AfterLookUp(r)]
        BY <1>1, <2>2 DEF SourcesInvariant, Locals, To
      <3> HIDE DEF v
      <3> QED BY <2>1, <3>1, GoesOn
    <2> QED BY <1>2, <2>1, <2>2, NothingGoes DEF LooksUp
  <1>3. CASE Denies(r)
    <2>1. HasResult(r, "saveDenial", Denial)
      BY <1>3 DEF Denies, At, To, Traced, HasResult
    <2> QED BY <2>1, Concluded
  <1>4. CASE TriesDocumentsFirst(r)
    <2>1. /\ pc[r] = "gate" /\ pc' = [pc EXCEPT ![r] = "rescue"] /\ Streams(r)
          /\ UNCHANGED <<run, asked, telemetry>> /\ pc[r] \notin Outside
      BY <1>4 DEF TriesDocumentsFirst, At, To, Outside, Ended
    <2> QED BY <1>1, <2>1, GoesOn
  <1>5. CASE Dispatches(r)
    <2>1. PICK place \in Traced : pc' = [pc EXCEPT ![r] = place]
      BY <1>1, <1>5 DEF Dispatches, To, Traced
    <2>2. UNCHANGED <<run, asked, telemetry>> /\ pc[r] \notin Outside
      BY <1>5 DEF Dispatches, At, Outside, Ended
    <2> QED BY <1>1, <2>1, <2>2, GoesOn
  <1> QED BY <1>2, <1>3, <1>4, <1>5

\* The handlers of POST /query conclude.
LEMMA HandlersTelemetry ==
  ASSUME SourcesInvariant, TelemetryInvariant, NEW r \in Requests,
         DocumentsAnswer(r) \/ DataAnswers(r) \/ Joins(r)
  PROVE  TelemetryInvariant'
PROOF
  <1>1. pc[r] \in Traced /\ ~Streams(r)
    BY DEF DocumentsAnswer, DataAnswers, Joins, At, Traced
  <1>2. ASSUME NEW x, Concludes(r, x) PROVE TelemetryInvariant'
    <2>1. HasResult(r, "save", x)
      BY <1>1, <1>2 DEF Concludes, To, HasResult
    <2> QED BY <2>1, Concluded
  <1>3. ASSUME NEW x, run' = WithResult(r, x), Joins(r) PROVE TelemetryInvariant'
    <2>1. HasResult(r, "route", x)
      BY <1>1, <1>3 DEF Joins, To, HasResult
    <2> QED BY <2>1, Concluded
  <1> QED BY <1>2, <1>3 DEF DocumentsAnswer, DataAnswers, Joins

\* A stream has no pool thread, whatever it does.
LEMMA StreamTelemetry ==
  ASSUME SourcesInvariant, TelemetryInvariant, NEW r \in Requests,
         \/ StreamsDocuments(r) \/ NothingToStream(r) \/ ReroutesToData(r) \/ StreamsData(r)
         \/ ReroutesToDocuments(r) \/ StreamsHybrid(r) \/ Speaks(r) \/ Rescues(r) \/ Emits(r)
         \/ Disconnects(r)
  PROVE  TelemetryInvariant'
PROOF
  <1>1. /\ DOMAIN run[r] = Locals /\ Placed(pc[r], Streams(r), run[r])
        /\ run = [run EXCEPT ![r] = run[r]]
    BY DEF SourcesInvariant, Sound, WellFormed, TelemetryInvariant
  <1>2. ASSUME NEW x, NEW lines, Drafts(r, x, lines), Streams(r), pc[r] \notin Outside
        PROVE  TelemetryInvariant'
    <2> DEFINE v == [run[r] EXCEPT !.result = x]
    <2>1. /\ run' = [run EXCEPT ![r] = v] /\ v.worker = run[r].worker /\ v.steps = run[r].steps
          /\ UNCHANGED <<asked, telemetry>>
      BY <1>1, <1>2 DEF Drafts, SourcesInvariant, Locals
    <2>2. PICK place \in {"speak", "save"} : pc' = [pc EXCEPT ![r] = place]
      BY <1>2 DEF Drafts, To
    <2> HIDE DEF v
    <2> QED BY <1>2, <2>1, <2>2, GoesOn
  <1>3. CASE StreamsDocuments(r) \/ NothingToStream(r) \/ StreamsData(r) \/ ReroutesToDocuments(r)
             \/ StreamsHybrid(r)
    <2>1. Streams(r) /\ pc[r] \notin Outside
      BY <1>3 DEF StreamsDocuments, NothingToStream, StreamsData, ReroutesToDocuments,
         StreamsHybrid, At, Outside, Ended
    <2>2. \E x, lines : Drafts(r, x, lines)
      BY <1>3 DEF StreamsDocuments, NothingToStream, StreamsData, ReroutesToDocuments, StreamsHybrid
    <2> QED BY <1>2, <2>1, <2>2
  <1>4. CASE ReroutesToData(r)
    <2> DEFINE v == [run[r] EXCEPT !.locked = FALSE]
    <2>1. /\ run' = [run EXCEPT ![r] = v] /\ v.worker = run[r].worker /\ v.steps = run[r].steps
          /\ UNCHANGED <<asked, telemetry>> /\ pc' = [pc EXCEPT ![r] = "data"]
          /\ pc[r] \notin Outside
      BY <1>1, <1>4 DEF ReroutesToData, SourcesInvariant, Locals, To, At, Outside, Ended
    <2> HIDE DEF v
    <2> QED BY <2>1, GoesOn DEF Traced
  <1>5. CASE Rescues(r)
    <2>1. PICK x : run' = [run EXCEPT ![r].result = x]
      BY <1>5 DEF Rescues
    <2> DEFINE v == [run[r] EXCEPT !.result = x]
    <2>2. /\ run' = [run EXCEPT ![r] = v] /\ v.worker = run[r].worker /\ v.steps = run[r].steps
          /\ UNCHANGED <<asked, telemetry>> /\ pc' = [pc EXCEPT ![r] = "save"]
          /\ pc[r] \notin Outside /\ pc[r] \notin Traced
      BY <1>1, <1>5, <2>1 DEF Rescues, SourcesInvariant, Locals, To, At, Outside, Ended, Traced
    <2> HIDE DEF v
    <2> QED BY <2>2, GoesOn
  <1>6. CASE Speaks(r)
    <2>1. /\ UNCHANGED <<run, asked, telemetry>> /\ pc' = [pc EXCEPT ![r] = "save"]
          /\ pc[r] \notin Outside /\ pc[r] \notin Traced
      BY <1>6 DEF Speaks, To, At, Outside, Ended, Traced
    <2> QED BY <1>1, <2>1, GoesOn
  <1>7. CASE Emits(r) \/ Disconnects(r)
    <2>1. /\ UNCHANGED <<run, asked, telemetry>>
          /\ \E place \in {"answered", "gone"} : pc' = [pc EXCEPT ![r] = place]
          /\ pc[r] \notin Outside
      BY <1>7 DEF Emits, Disconnects, To, At, Outside, Ended
    <2>2. Streams(r)
      BY <1>1, <1>7 DEF Emits, Disconnects, At, Placed
    <2> QED BY <1>1, <2>1, <2>2, GoesOn
  <1> QED BY <1>3, <1>4, <1>5, <1>6, <1>7

\* Saving, and the end of POST /query: the request leaves its thread.
LEMMA EndTelemetry ==
  ASSUME SourcesInvariant, TelemetryInvariant, NEW r \in Requests, Saves(r) \/ Answers(r)
  PROVE  TelemetryInvariant'
PROOF
  <1>1. /\ DOMAIN run[r] = Locals /\ run = [run EXCEPT ![r] = run[r]]
        /\ pc[r] \in {"save", "saveDenial", "route"}
        /\ pc[r] \notin Outside /\ pc[r] \notin Traced
        /\ UNCHANGED <<asked, telemetry>>
    BY DEF SourcesInvariant, Sound, WellFormed, Saves, Answers, At, Outside, Ended, Traced
  <1> DEFINE left == [run[r] EXCEPT !.worker = NoWorker]
  <1>2. Leaves(r) = [run EXCEPT ![r] = left] /\ left.worker = NoWorker /\ left.steps = run[r].steps
        /\ DOMAIN left = Locals
    BY <1>1, LeavingKeeps DEF Locals
  <1>3. CASE UNCHANGED <<pc, run>>
    BY <1>1, <1>3, NothingGoes
  <1>4. CASE AfterSave(r) /\ At(r, "saveDenial") /\ run' = Leaves(r)
    <2>1. pc' = [pc EXCEPT ![r] = "answered"] /\ "answered" \in Ended
      BY <1>4 DEF AfterSave, At, To, Ended
    <2> HIDE DEF left
    <2> QED BY <1>1, <1>2, <1>4, <2>1, GoesOut
  <1>5. CASE UNCHANGED run /\ To(r, IF Streams(r) THEN "emit" ELSE "route")
    <2>1. PICK place : /\ pc' = [pc EXCEPT ![r] = place]
                       /\ \/ place = "emit" /\ Streams(r)
                          \/ place = "route" /\ ~Streams(r)
      BY <1>5 DEF To
    <2> QED BY <1>1, <1>5, <2>1, GoesOn
  <1>6. CASE Saves(r)
    BY <1>3, <1>4, <1>5, <1>6 DEF Saves, AfterSave
  <1>7. CASE Answers(r)
    <2>1. run' = [Leaves(r) EXCEPT ![r].result = Enforced(r, @)]
          /\ pc' = [pc EXCEPT ![r] = "answered"] /\ "answered" \in Ended
      BY <1>7 DEF Answers, To, Ended
    <2> DEFINE v == [left EXCEPT !.result = Enforced(r, left.result)]
    <2>2. v.worker = NoWorker /\ v.steps = run[r].steps
      BY <1>2 DEF Locals
    <2>3. Leaves(r)[r] = left /\ Leaves(r) = [q \in Requests |-> IF q = r THEN left ELSE run[q]]
      BY <1>2 DEF SourcesInvariant
    <2>4. run' = [run EXCEPT ![r] = v]
      <3>1. run' = [Leaves(r) EXCEPT ![r] = v]
        BY <2>1, <2>3, <1>2
      <3> QED BY <3>1, <1>2, ZenonT(60) DEF SourcesInvariant
    <2> HIDE DEF v
    <2> QED BY <1>1, <2>1, <2>2, <2>4, GoesOut
  <1> QED BY <1>6, <1>7

\* A failing request leaves its thread, and its telemetry on it.
LEMMA FailureTelemetry ==
  ASSUME SourcesInvariant, TelemetryInvariant, NEW r \in Requests, pc[r] \notin Outside, Raises(r)
  PROVE  TelemetryInvariant'
PROOF
  <1> DEFINE v == [run[r] EXCEPT !.worker = NoWorker]
  <1>1. run' = [run EXCEPT ![r] = v] /\ v.worker = NoWorker /\ v.steps = run[r].steps
    <2>1. DOMAIN run[r] = Locals
      BY DEF SourcesInvariant, Sound, WellFormed
    <2> QED BY <2>1, LeavingKeeps DEF Raises, Locals
  <1>2. pc' = [pc EXCEPT ![r] = "failed"] /\ "failed" \in Ended /\ UNCHANGED <<asked, telemetry>>
    BY DEF Raises, To, Ended
  <1> HIDE DEF v
  <1> QED BY <1>1, <1>2, GoesOut

\* Every step keeps the telemetry of the threads in order.
LEMMA TelemetryStep ==
  ASSUME SourcesInvariant, TelemetryInvariant, CallsNest, [Next]_vars
  PROVE  TelemetryInvariant'
PROOF
  <1>1. ASSUME NEW r \in Requests, Step(r) PROVE TelemetryInvariant'
    <2>1. CASE LosesTurn(r) \/ JoinFails(r)
      <3>1. Raises(r)
        BY <2>1 DEF LosesTurn, JoinFails
      <3>2. pc[r] \notin Outside
        BY <2>1 DEF CallsNest, LosesTurn, LosesEntry, JoinFails, At, Outside, Ended
      <3> QED BY <3>1, <3>2, FailureTelemetry
    <2> QED BY <1>1, <2>1, ArrivalTelemetry, GateTelemetry, HandlersTelemetry, StreamTelemetry,
            EndTelemetry, FallbackTelemetry DEF Step
  <1>2. ASSUME NEW r \in Requests, Fails(r) PROVE TelemetryInvariant'
    BY <1>2, FailureTelemetry DEF Fails, At, Outside, Ended
  <1>3. ASSUME NEW r \in Requests, NEW s \in Sources, HybridStep(r, s) \/ FailsPart(r, s)
        PROVE  TelemetryInvariant'
    BY <1>3, NothingGoes DEF HybridStep, StartsPart, EndsPart, FailsPart, PartBecomes
  <1>4. ASSUME NEW t \in OpenThreads, ClearsThread(t) PROVE TelemetryInvariant'
    BY <1>4, NothingGoes DEF ClearsThread
  <1>5. CASE UNCHANGED vars
    BY <1>5, NothingGoes DEF vars
  <1> QED BY <1>1, <1>2, <1>3, <1>4, <1>5, ArrivalTelemetry, StreamTelemetry DEF Next, Rests

\* Nothing is on the threads when nothing has been asked.
LEMMA TelemetryInit == Init => TelemetryInvariant
PROOF
  <1> SUFFICES ASSUME Init PROVE TelemetryInvariant
    OBVIOUS
  <1>1. \A r \in Requests : pc[r] = "new" /\ run[r].worker = NoWorker /\ run[r].steps = {}
    BY DEF Init, NewRun
  <1>2. \A r \in Requests : Placed(pc[r], Streams(r), run[r])
    BY <1>1, QuestionsAssumption DEF Placed, Outside
  <1> QED BY <1>1, <1>2 DEF Init, TelemetryInvariant, Worker

\* An answer never carries the telemetry of a question that another request
\* had answered, or is still working on, on the same pool thread.
THEOREM TelemetryIsOwn == Spec => []TelemetryIsOwnOrOfFailures
PROOF
  <1>1. TelemetryInvariant => TelemetryIsOwnOrOfFailures
    BY DEF TelemetryInvariant, TelemetryIsOwnOrOfFailures, Answered, Failures
  <1>2. SourcesInvariant /\ TelemetryInvariant /\ MemoryInvariant /\ [Next]_vars
            => SourcesInvariant' /\ TelemetryInvariant'
    BY SourcesStep, TelemetryStep DEF MemoryInvariant
  <1> QED BY <1>1, <1>2, SourcesInit, TelemetryInit, MemoryInvariance, PTL DEF Spec
----------------------------------------------------------------------------
(* What a stream sends. *)

\* Where a line of a type stands in a story.
Where(story, type) == {i \in 1..Len(story) : story[i].type = type}

\* What a request has sent when it is at a place: nothing but reroutes before
\* its agent has an answer, then tokens of the agent whose answer it is, and
\* the final event as the last of all.
Told(place, streams, agent, story) ==
    /\ story \in Seq(Event)
    /\ ~streams \/ place = "new" => story = <<>>
    /\ place \in {"speak", "emit"} => streams
    /\ \A i \in Where(story, "token"), k \in Where(story, "reroute") : k < i
    /\ place # "answered" => Where(story, "done") = {}
    /\ place \notin {"save", "emit"} \cup Ended => Where(story, "token") = {}
    /\ place \in {"save", "emit"} => \A i \in Where(story, "token") : story[i].agent = agent
    /\ streams /\ place = "answered" =>
            /\ Where(story, "done") = {Len(story)}
            /\ \A i \in Where(story, "token") : story[i].agent = story[Len(story)].agent

StoryInvariant ==
    /\ events = [q \in Requests |-> events[q]]
    /\ \A r \in Requests : Told(pc[r], Streams(r), run[r].result.agent, events[r])

\* Request r goes to a place with local variables v, having sent a story.
Tells(r, place, v, story) ==
    /\ pc' = [pc EXCEPT ![r] = place] /\ run' = [run EXCEPT ![r] = v]
    /\ events' = [events EXCEPT ![r] = story]
    /\ \A q \in Requests \ {r} : asked'[q] = asked[q]
    /\ Told(place, asked'[r].profile.via = "stream", v.result.agent, story)

\* It is enough to look at the request that takes the step.
LEMMA OneTells ==
  ASSUME SourcesInvariant, StoryInvariant, NEW r \in Requests, NEW place, NEW v, NEW story,
         Tells(r, place, v, story)
  PROVE  StoryInvariant'
PROOF
  <1>1. /\ pc' = [q \in Requests |-> IF q = r THEN place ELSE pc[q]]
        /\ run' = [q \in Requests |-> IF q = r THEN v ELSE run[q]]
        /\ events' = [q \in Requests |-> IF q = r THEN story ELSE events[q]]
    BY DEF SourcesInvariant, StoryInvariant, Tells
  <1>2. ASSUME NEW q \in Requests
        PROVE  Told(pc'[q], Streams(q)', run'[q].result.agent, events'[q])
    <2>1. CASE q = r
      BY <1>1, <2>1 DEF Streams, Tells
    <2>2. CASE q # r
      BY <1>1, <2>2 DEF Streams, Tells, StoryInvariant
    <2> QED BY <2>1, <2>2
  <1>3. events' = [q \in Requests |-> events'[q]]
    BY <1>1
  <1> QED BY <1>2, <1>3 DEF StoryInvariant

\* A request moves on without sending anything; what it has said already is
\* about the answer that it has.
SaysNothing(r, place, v) ==
    /\ pc' = [pc EXCEPT ![r] = place] /\ run' = [run EXCEPT ![r] = v]
    /\ UNCHANGED <<asked, events>>
    /\ place \notin {"new", "speak"} /\ pc[r] \notin Ended
    /\ \/ ~Streams(r) /\ place # "emit"
       \/ place = "gone"
       \/ pc[r] \notin {"save", "emit"} /\ place \notin {"emit", "answered"}
       \/ pc[r] = "save" /\ place = "emit" /\ Streams(r) /\ v.result.agent = run[r].result.agent

LEMMA TellsNothing ==
  ASSUME SourcesInvariant, StoryInvariant, NEW r \in Requests, NEW place, NEW v,
         SaysNothing(r, place, v)
  PROVE  StoryInvariant'
PROOF
  <1> USE DEF SaysNothing
  <1> DEFINE e == events[r]
  <1>1. Told(pc[r], Streams(r), run[r].result.agent, e) /\ events' = [events EXCEPT ![r] = e]
    BY DEF StoryInvariant
  <1>2. Streams(r) = (asked'[r].profile.via = "stream")
    BY DEF Streams
  <1>3. Where(<<>>, "token") = {} /\ Where(<<>>, "done") = {}
    BY DEF Where
  <1>4. Told(place, Streams(r), v.result.agent, e)
    <2>1. CASE ~Streams(r) /\ place # "emit"
      BY <1>1, <1>3, <2>1 DEF Told
    <2>2. CASE Streams(r) /\ place = "gone"
      BY <1>1, <2>2 DEF Told, Ended
    <2>3. CASE Streams(r) /\ pc[r] \notin {"save", "emit"} /\ place \notin {"emit", "answered"}
      BY <1>1, <2>3 DEF Told, Ended
    <2>4. CASE pc[r] = "save" /\ place = "emit" /\ Streams(r) /\ v.result.agent = run[r].result.agent
      BY <1>1, <2>4 DEF Told, Ended
    <2> QED BY <2>1, <2>2, <2>3, <2>4
  <1> QED BY <1>1, <1>2, <1>4, OneTells, ZenonT(60) DEF Tells

\* Nothing of a request changes.
LEMMA NothingTold ==
  ASSUME StoryInvariant, UNCHANGED <<pc, asked, run, events>>
  PROVE  StoryInvariant'
  BY DEF StoryInvariant, Streams

\* One more line: the others stay where they were.
LEMMA OneMoreLine ==
  ASSUME NEW story \in Seq(Event), NEW line \in Event
  PROVE  /\ Append(story, line) \in Seq(Event)
         /\ Len(Append(story, line)) = Len(story) + 1
         /\ \A i \in 1..Len(story) : Append(story, line)[i] = story[i]
         /\ Append(story, line)[Len(story) + 1] = line
         /\ \A type : Where(Append(story, line), type) =
                Where(story, type) \cup (IF line.type = type THEN {Len(story) + 1} ELSE {})
PROOF
  <1> DEFINE longer == Append(story, line)
  <1>1. /\ longer \in Seq(Event) /\ Len(longer) = Len(story) + 1 /\ Len(story) \in Nat
        /\ \A i \in 1..Len(story) : longer[i] = story[i]
        /\ longer[Len(story) + 1] = line
    OBVIOUS
  <1>2. 1..Len(longer) = 1..Len(story) \cup {Len(story) + 1}
    BY <1>1
  <1>3. ASSUME NEW type
        PROVE  Where(longer, type) = Where(story, type) \cup (IF line.type = type THEN {Len(story) + 1} ELSE {})
    <2> HIDE DEF longer
    <2>1. Where(longer, type) = {i \in 1..Len(story) \cup {Len(story) + 1} : longer[i].type = type}
      BY <1>2 DEF Where
    <2> QED BY <1>1, <2>1 DEF Where
  <1> QED BY <1>1, <1>3

\* One more line of a type: only the places of that type are one more.
LEMMA OneMoreOfAType ==
  ASSUME NEW story \in Seq(Event), NEW line \in Event
  PROVE  /\ Where(Append(story, line), line.type) = Where(story, line.type) \cup {Len(story) + 1}
         /\ \A type : type # line.type => Where(Append(story, line), type) = Where(story, type)
PROOF
  <1>1. \A type : Where(Append(story, line), type) =
                Where(story, type) \cup (IF line.type = type THEN {Len(story) + 1} ELSE {})
    BY OneMoreLine
  <1>2. ASSUME NEW type, type # line.type PROVE Where(Append(story, line), type) = Where(story, type)
    <2>1. Where(Append(story, line), type) = Where(story, type) \cup {}
      BY <1>1, <1>2, Zenon
    <2> QED BY <2>1
  <1>3. Where(Append(story, line), line.type) = Where(story, line.type) \cup {Len(story) + 1}
    BY <1>1, Zenon
  <1> QED BY <1>2, <1>3

\* The lines that are sent are events, and an agent's own final event is not
\* passed on.
LEMMA LinesAreEvents ==
  ASSUME NEW agent \in Modes
  PROVE  /\ \A type \in {"reroute", "token", "done", "error"} :
                Line(type, agent) \in Event /\ Line(type, agent).type = type
                /\ Line(type, agent).agent = agent
         /\ \A lines : Concluding(lines, agent) = lines
  BY DEF Line, Event, Concluding, Forwarded
\* Questions of POST /query send nothing, and a stream on its way to an agent
\* has nothing to say yet.
LEMMA ArrivalStory ==
  ASSUME SourcesInvariant, StoryInvariant, NEW r \in Requests,
         Asks(r) \/ Takes(r) \/ LooksUp(r) \/ Denies(r) \/ TriesDocumentsFirst(r) \/ Dispatches(r)
  PROVE  StoryInvariant'
PROOF
  <1>1. /\ run[r].tool \in Modes /\ run = [run EXCEPT ![r] = run[r]]
        /\ Told(pc[r], Streams(r), run[r].result.agent, events[r])
    BY DEF SourcesInvariant, Sound, WellFormed, StoryInvariant
  <1>2. CASE Asks(r)
    <2>1. PICK t \in OpenThreads, p \in Profiles :
            /\ asked' = [asked EXCEPT ![r] = [thread |-> t, profile |-> p]]
            /\ run' = [run EXCEPT ![r].tool = p.mode, ![r].locked = Locked(p.mode)]
            /\ pc' = [pc EXCEPT ![r] = IF p.via = "stream" THEN "resolve" ELSE "queued"]
      BY <1>2 DEF Asks, To
    <2> DEFINE v == [[run[r] EXCEPT !.tool = p.mode] EXCEPT !.locked = Locked(p.mode)]
               place == IF p.via = "stream" THEN "resolve" ELSE "queued"
    <2>2. /\ run' = [run EXCEPT ![r] = v]
          /\ \A q \in Requests \ {r} : asked'[q] = asked[q]
          /\ events[r] = <<>> /\ events' = [events EXCEPT ![r] = events[r]]
      BY <1>1, <1>2, <2>1 DEF Asks, At, SourcesInvariant, StoryInvariant, Told
    <2>3. \A type : Where(<<>>, type) = {}
      BY DEF Where
    <2> HIDE DEF v
    <2>4. \A streams \in BOOLEAN : Told(place, streams, v.result.agent, events[r])
      BY <1>1, <2>2, <2>3 DEF Told
    <2>5. Tells(r, place, v, events[r])
      BY <2>1, <2>2, <2>4 DEF Tells
    <2> QED BY <2>5, OneTells
  <1>3. CASE Takes(r)
    <2>1. PICK p \in PoolThreads : run' = [run EXCEPT ![r].worker = p]
      BY <1>3 DEF Takes
    <2> DEFINE v == [run[r] EXCEPT !.worker = p]
    <2>2. /\ run' = [run EXCEPT ![r] = v] /\ pc[r] = "queued" /\ pc' = [pc EXCEPT ![r] = "resolve"]
          /\ UNCHANGED <<asked, events>>
      BY <1>3, <2>1 DEF Takes, At, To, SourcesInvariant
    <2>3. pc[r] \notin Ended /\ pc[r] \notin {"save", "emit"}
      BY <2>2 DEF Ended
    <2> HIDE DEF v
    <2>4. SaysNothing(r, "resolve", v)
      BY <2>2, <2>3 DEF SaysNothing
    <2> QED BY <2>4, TellsNothing
  <1>4. CASE LooksUp(r)
    <2>1. /\ pc[r] \in {"resolve", "prior"} /\ UNCHANGED <<asked, events>>
          /\ AfterLookUp(r) \in Modes \cup {"gate"}
      BY <1>1, <1>4 DEF LooksUp, AfterLookUp
    <2>2. ASSUME NEW found, run' = [run EXCEPT ![r].prior = found], To(r, AfterLookUp(r))
          PROVE  StoryInvariant'
      <3> DEFINE v == [run[r] EXCEPT !.prior = found]
      <3>1. run' = [run EXCEPT ![r] = v] /\ pc' = [pc EXCEPT ![r] = AfterLookUp(r)]
        BY <2>2 DEF SourcesInvariant, To
      <3> HIDE DEF v
      <3>2. SaysNothing(r, AfterLookUp(r), v)
        BY <2>1, <3>1 DEF SaysNothing, Modes, Sources, Ended
      <3> QED BY <3>2, TellsNothing
    <2> QED BY <1>4, <2>1, <2>2, NothingTold DEF LooksUp
  <1>5. CASE Denies(r)
    <2> DEFINE v == [[run[r] EXCEPT !.result = Denial] EXCEPT !.steps = telemetry[Worker(r)]]
    <2>1. /\ run' = [run EXCEPT ![r] = v] /\ pc' = [pc EXCEPT ![r] = "saveDenial"]
          /\ UNCHANGED <<asked, events>> /\ pc[r] = "gate" /\ ~Streams(r)
      BY <1>5 DEF Denies, WithResult, To, At, SourcesInvariant
    <2> HIDE DEF v
    <2>2. SaysNothing(r, "saveDenial", v)
      BY <2>1 DEF SaysNothing, Ended
    <2> QED BY <2>2, TellsNothing
  <1>6. CASE TriesDocumentsFirst(r) \/ Dispatches(r)
    <2>1. PICK place \in Modes \cup {"prior", "rescue"} : pc' = [pc EXCEPT ![r] = place]
      BY <1>1, <1>6 DEF TriesDocumentsFirst, Dispatches, To, Modes
    <2>2. run' = [run EXCEPT ![r] = run[r]] /\ UNCHANGED <<asked, events>> /\ pc[r] = "gate"
      BY <1>1, <1>6 DEF TriesDocumentsFirst, Dispatches, At
    <2>3. SaysNothing(r, place, run[r])
      BY <2>1, <2>2 DEF SaysNothing, Modes, Sources, Ended
    <2> QED BY <2>3, TellsNothing
  <1> QED BY <1>2, <1>3, <1>4, <1>5, <1>6

\* The handlers of POST /query and what follows them.
LEMMA QueryStory ==
  ASSUME SourcesInvariant, TelemetryInvariant, StoryInvariant, NEW r \in Requests,
         \/ DocumentsAnswer(r) \/ DataAnswers(r) \/ Joins(r) \/ FallsBackToDocuments(r) \/ Answers(r)
  PROVE  StoryInvariant'
PROOF
  <1>1. /\ ~Streams(r) /\ pc[r] \notin Ended /\ UNCHANGED <<asked, events>>
    <2>1. CASE FallsBackToDocuments(r) \/ Answers(r)
      BY <2>1 DEF FallsBackToDocuments, Answers, At, Ended, TelemetryInvariant, Placed
    <2>2. CASE DocumentsAnswer(r) \/ DataAnswers(r) \/ Joins(r)
      BY <2>2 DEF DocumentsAnswer, DataAnswers, Joins, Concludes, At, Ended
    <2> QED BY <2>1, <2>2
  <1>2. PICK place \in {"save", "route", "prior", "answered"} : pc' = [pc EXCEPT ![r] = place]
    BY DEF DocumentsAnswer, DataAnswers, Joins, FallsBackToDocuments, Answers, Concludes, To
  <1>3. \E v : run' = [run EXCEPT ![r] = v]
    <2>1. CASE Answers(r)
      <3>1. run' = [Leaves(r) EXCEPT ![r].result = Enforced(r, @)]
        BY <2>1 DEF Answers
      <3>2. Leaves(r) = [q \in Requests |-> IF q = r THEN Leaves(r)[r] ELSE run[q]]
        BY DEF Leaves, SourcesInvariant
      <3> DEFINE v == [Leaves(r)[r] EXCEPT !.result = Enforced(r, Leaves(r)[r].result)]
      <3>3. run' = [q \in Requests |-> IF q = r THEN v ELSE run[q]]
        BY <3>1, <3>2
      <3>4. run' = [run EXCEPT ![r] = v]
        BY <3>3 DEF SourcesInvariant
      <3> QED BY <3>4
    <2>2. CASE FallsBackToDocuments(r)
      BY <2>2 DEF FallsBackToDocuments, SourcesInvariant
    <2>3. ASSUME NEW x, run' = WithResult(r, x) PROVE \E v : run' = [run EXCEPT ![r] = v]
      BY <2>3 DEF WithResult, SourcesInvariant
    <2> QED BY <2>1, <2>2, <2>3 DEF DocumentsAnswer, DataAnswers, Joins, Concludes
  <1>4. PICK v : run' = [run EXCEPT ![r] = v]
    BY <1>3
  <1>5. SaysNothing(r, place, v)
    BY <1>1, <1>2, <1>4 DEF SaysNothing
  <1> QED BY <1>5, TellsNothing

\* An agent that has drafted its answer has sent at most the reroute to it.
LEMMA DraftsStory ==
  ASSUME SourcesInvariant, StoryInvariant, NEW r \in Requests, Streams(r),
         pc[r] \in Modes, NEW d \in Result,
         NEW lines \in {<<>>, <<Line("reroute", "docs")>>}, Drafts(r, d, lines)
  PROVE  StoryInvariant'
PROOF
  <1> DEFINE v == [run[r] EXCEPT !.result = d]
             story == events[r] \o lines
  <1>1. /\ Told(pc[r], TRUE, run[r].result.agent, events[r]) /\ events[r] \in Seq(Event)
        /\ Where(events[r], "done") = {} /\ Where(events[r], "token") = {}
    BY DEF StoryInvariant, Told, Modes, Sources, Ended, Streams
  <1>2. d.agent \in Modes /\ "docs" \in Modes
    BY DEF Result, Modes, Sources
  <1>3. events' = [events EXCEPT ![r] = story]
    <2>1. Concluding(lines, d.agent) = lines
      BY <1>2, LinesAreEvents
    <2> QED BY <2>1 DEF Drafts, Relays, StoryInvariant
  <1>4. story \in Seq(Event) /\ Where(story, "done") = {} /\ Where(story, "token") = {}
    <2>1. CASE lines = <<>>
      BY <1>1, <2>1
    <2>2. CASE lines = <<Line("reroute", "docs")>>
      <3>1. story = Append(events[r], Line("reroute", "docs"))
        BY <1>1, <1>2, <2>2, LinesAreEvents
      <3> QED BY <1>1, <1>2, <3>1, LinesAreEvents, OneMoreLine
    <2> QED BY <2>1, <2>2
  <1>5. /\ run' = [run EXCEPT ![r] = v] /\ UNCHANGED asked
    BY DEF Drafts, SourcesInvariant
  <1>6. \A place \in {"speak", "save"} : Told(place, TRUE, v.result.agent, story)
    <2> HIDE DEF story, v
    <2> QED BY <1>4 DEF Told, Ended
  <1>7. PICK place \in {"speak", "save"} : pc' = [pc EXCEPT ![r] = place]
    BY DEF Drafts, To
  <1>8. asked'[r].profile.via = "stream"
    BY <1>5 DEF Streams
  <1> HIDE DEF v, story
  <1>9. Told(place, asked'[r].profile.via = "stream", v.result.agent, story)
    BY <1>6, <1>8
  <1>10. Tells(r, place, v, story)
    BY <1>3, <1>5, <1>7, <1>9 DEF Tells
  <1> QED BY <1>10, OneTells

\* The streams: what they send before they save the turn.
LEMMA StreamStory ==
  ASSUME SourcesInvariant, StoryInvariant, NEW r \in Requests,
         \/ StreamsDocuments(r) \/ NothingToStream(r) \/ ReroutesToData(r) \/ StreamsData(r)
         \/ ReroutesToDocuments(r) \/ StreamsHybrid(r) \/ Rescues(r) \/ Speaks(r)
  PROVE  StoryInvariant'
PROOF
  <1>1. /\ Told(pc[r], Streams(r), run[r].result.agent, events[r]) /\ events[r] \in Seq(Event)
        /\ run[r].result.agent \in Modes /\ asked[r].profile.areas \subseteq Sources
    BY DEF StoryInvariant, Told, SourcesInvariant, Sound, WellFormed, Result, Profile
  <1>2. CASE StreamsDocuments(r) \/ NothingToStream(r) \/ StreamsData(r) \/ ReroutesToDocuments(r)
             \/ StreamsHybrid(r)
    <2>1. Streams(r) /\ pc[r] \in Modes
      BY <1>2 DEF StreamsDocuments, NothingToStream, StreamsData, ReroutesToDocuments,
         StreamsHybrid, At, Modes, Sources
    <2>2. /\ \A d \in DocumentDrafts(r) : d \in Result
          /\ \A d \in DataAgent(r) : d \in Result
          /\ [NotFound EXCEPT !.kept = FALSE] \in Result
      BY DocumentResults, DataResults DEF DocumentDrafts
    <2>3. \A from \in SUBSET asked[r].profile.areas : HybridResult(from) \in Result
      BY <1>1 DEF HybridResult, Result, Modes
    <2>4. \E d \in Result, lines \in {<<>>, <<Line("reroute", "docs")>>} : Drafts(r, d, lines)
      BY <1>2, <2>2, <2>3
         DEF StreamsDocuments, NothingToStream, StreamsData, ReroutesToDocuments, StreamsHybrid
    <2> QED BY <2>1, <2>4, DraftsStory
  <1>3. CASE ReroutesToData(r)
    <2> DEFINE v == [run[r] EXCEPT !.locked = FALSE]
               story == Append(events[r], Line("reroute", "data"))
    <2>1. /\ run' = [run EXCEPT ![r] = v] /\ UNCHANGED asked /\ Streams(r)
          /\ pc[r] = "docs" /\ pc' = [pc EXCEPT ![r] = "data"]
      BY <1>3 DEF ReroutesToData, SourcesInvariant, To, At
    <2>2. events' = [events EXCEPT ![r] = story]
      <3>1. events[r] \o <<Line("reroute", "data")>> = story
        BY <1>1, LinesAreEvents DEF Modes, Sources
      <3> QED BY <1>3, <3>1 DEF ReroutesToData, Relays, StoryInvariant
    <2>3. Where(events[r], "done") = {} /\ Where(events[r], "token") = {}
      BY <1>1, <2>1 DEF Told, Ended
    <2>4. story \in Seq(Event) /\ Where(story, "done") = {} /\ Where(story, "token") = {}
      <3>1. Line("reroute", "data") \in Event /\ Line("reroute", "data").type = "reroute"
        BY LinesAreEvents DEF Modes, Sources
      <3> QED BY <1>1, <2>3, <3>1, OneMoreLine, OneMoreOfAType
    <2>5. asked'[r].profile.via = "stream"
      BY <2>1 DEF Streams
    <2> HIDE DEF v, story
    <2>6. Told("data", TRUE, v.result.agent, story)
      BY <2>4 DEF Told
    <2>7. Tells(r, "data", v, story)
      BY <2>1, <2>2, <2>5, <2>6 DEF Tells
    <2> QED BY <2>7, OneTells
  <1>4. CASE Rescues(r)
    <2>1. PICK x : run' = [run EXCEPT ![r].result = x]
      BY <1>4 DEF Rescues
    <2> DEFINE v == [run[r] EXCEPT !.result = x]
    <2>2. /\ run' = [run EXCEPT ![r] = v] /\ pc[r] = "rescue" /\ pc' = [pc EXCEPT ![r] = "save"]
          /\ UNCHANGED <<asked, events>>
      BY <1>4, <2>1 DEF Rescues, At, To, SourcesInvariant
    <2>3. pc[r] \notin Ended /\ pc[r] \notin {"save", "emit"}
      BY <2>2 DEF Ended
    <2> HIDE DEF v
    <2>4. SaysNothing(r, "save", v)
      BY <2>2, <2>3 DEF SaysNothing
    <2> QED BY <2>4, TellsNothing
  <1>5. CASE Speaks(r)
    <2> DEFINE agent == run[r].result.agent
               story == Append(events[r], Line("token", agent))
    <2>1. /\ run' = [run EXCEPT ![r] = run[r]] /\ UNCHANGED asked
          /\ pc[r] = "speak" /\ pc' = [pc EXCEPT ![r] = "save"]
      BY <1>5 DEF Speaks, SourcesInvariant, To, At
    <2>2. events' = [events EXCEPT ![r] = story]
      <3>1. events[r] \o <<Line("token", agent)>> = story
        BY <1>1, LinesAreEvents
      <3>2. Concluding(<<Line("token", agent)>>, agent) = <<Line("token", agent)>>
        BY <1>1, LinesAreEvents
      <3> QED BY <1>5, <3>1, <3>2 DEF Speaks, Relays, StoryInvariant
    <2>3. Where(events[r], "done") = {} /\ Where(events[r], "token") = {} /\ Streams(r)
      BY <1>1, <2>1 DEF Told, Ended
    <2>4. /\ story \in Seq(Event) /\ Where(story, "done") = {}
          /\ Where(story, "token") = {Len(events[r]) + 1}
          /\ Where(story, "reroute") = Where(events[r], "reroute")
          /\ story[Len(events[r]) + 1].agent = agent
      <3>1. /\ Line("token", agent) \in Event /\ Line("token", agent).type = "token"
            /\ Line("token", agent).agent = agent
        BY <1>1, LinesAreEvents
      <3> QED BY <1>1, <2>3, <3>1, OneMoreLine, OneMoreOfAType
    <2>5. \A k \in Where(story, "reroute") : k < Len(events[r]) + 1
      BY <1>1, <2>4 DEF Where
    <2>6. asked'[r].profile.via = "stream"
      BY <2>1, <2>3 DEF Streams
    <2> HIDE DEF agent, story
    <2>7. Told("save", TRUE, agent, story)
      BY <2>4, <2>5 DEF Told
    <2>8. Tells(r, "save", run[r], story)
      BY <2>1, <2>2, <2>6, <2>7 DEF Tells, agent
    <2> QED BY <2>8, OneTells
  <1> QED BY <1>2, <1>3, <1>4, <1>5

\* The end of a stream: the turn is saved, the final event is sent, or the
\* client leaves; and the denial at the gate of POST /query.
LEMMA EndStory ==
  ASSUME SourcesInvariant, TelemetryInvariant, StoryInvariant, NEW r \in Requests,
         Saves(r) \/ Emits(r) \/ Disconnects(r)
  PROVE  StoryInvariant'
PROOF
  <1>1. /\ Told(pc[r], Streams(r), run[r].result.agent, events[r]) /\ events[r] \in Seq(Event)
        /\ run[r].result.agent \in Modes /\ Placed(pc[r], Streams(r), run[r])
        /\ run = [run EXCEPT ![r] = run[r]]
    BY DEF StoryInvariant, Told, SourcesInvariant, Sound, WellFormed, Result, TelemetryInvariant
  <1>2. CASE Saves(r)
    <2>1. UNCHANGED <<asked, events>> /\ pc[r] \notin Ended
      BY <1>2 DEF Saves, Ended
    <2>2. CASE At(r, "saveDenial") /\ To(r, "answered") /\ run' = Leaves(r)
      <3>1. ~Streams(r) /\ pc' = [pc EXCEPT ![r] = "answered"]
        BY <1>1, <2>2 DEF At, To, Placed
      <3>2. PICK v : run' = [run EXCEPT ![r] = v]
        BY <2>2, LeavingKeeps
      <3>3. SaysNothing(r, "answered", v)
        BY <2>1, <3>1, <3>2 DEF SaysNothing
      <3> QED BY <3>3, TellsNothing
    <2>3. CASE At(r, "save") /\ To(r, IF Streams(r) THEN "emit" ELSE "route") /\ run' = run
      <3>1. run' = [run EXCEPT ![r] = run[r]] /\ pc[r] = "save"
            /\ pc' = [pc EXCEPT ![r] = IF Streams(r) THEN "emit" ELSE "route"]
        BY <1>1, <2>3 DEF At, To
      <3>2. SaysNothing(r, IF Streams(r) THEN "emit" ELSE "route", run[r])
        BY <2>1, <3>1 DEF SaysNothing
      <3> QED BY <3>2, TellsNothing
    <2> QED BY <1>2, <2>1, <2>2, <2>3, NothingTold DEF Saves, AfterSave
  <1>3. CASE Emits(r)
    <2> DEFINE agent == run[r].result.agent
               story == Append(events[r], Line("done", agent))
    <2>1. /\ run' = [run EXCEPT ![r] = run[r]] /\ UNCHANGED asked
          /\ pc[r] = "emit" /\ pc' = [pc EXCEPT ![r] = "answered"]
          /\ events' = [events EXCEPT ![r] = story]
      BY <1>1, <1>3 DEF Emits, SourcesInvariant, StoryInvariant, To, At
    <2>2. Where(events[r], "done") = {} /\ Streams(r)
          /\ \A i \in Where(events[r], "token") :
                events[r][i].agent = agent /\ \A k \in Where(events[r], "reroute") : k < i
      BY <1>1, <2>1 DEF Told
    <2>3. /\ story \in Seq(Event) /\ Len(story) = Len(events[r]) + 1
          /\ Where(story, "done") = {Len(story)}
          /\ Where(story, "token") = Where(events[r], "token")
          /\ Where(story, "reroute") = Where(events[r], "reroute")
          /\ story[Len(story)].agent = agent
          /\ \A i \in 1..Len(events[r]) : story[i] = events[r][i]
      <3>1. /\ Line("done", agent) \in Event /\ Line("done", agent).type = "done"
            /\ Line("done", agent).agent = agent
        BY <1>1, LinesAreEvents
      <3> QED BY <1>1, <2>2, <3>1, OneMoreLine, OneMoreOfAType
    <2>4. \A i \in Where(story, "token") : story[i].agent = agent
      BY <2>2, <2>3 DEF Where
    <2>5. asked'[r].profile.via = "stream"
      BY <2>1, <2>2 DEF Streams
    <2> HIDE DEF agent, story
    <2>6. Told("answered", TRUE, agent, story)
      BY <2>2, <2>3, <2>4 DEF Told, Ended
    <2>7. Tells(r, "answered", run[r], story)
      BY <2>1, <2>5, <2>6 DEF Tells, agent
    <2> QED BY <2>7, OneTells
  <1>4. CASE Disconnects(r)
    <2>1. /\ run' = [run EXCEPT ![r] = run[r]] /\ UNCHANGED <<asked, events>> /\ pc[r] \notin Ended
          /\ pc' = [pc EXCEPT ![r] = "gone"]
      BY <1>1, <1>4 DEF Disconnects, To, Ended
    <2>2. SaysNothing(r, "gone", run[r])
      BY <2>1 DEF SaysNothing
    <2> QED BY <2>2, TellsNothing
  <1> QED BY <1>2, <1>3, <1>4

\* A stream that fails reports it twice and sends no final event.
LEMMA FailureStory ==
  ASSUME SourcesInvariant, StoryInvariant, NEW r \in Requests, pc[r] \notin Outside, Raises(r)
  PROVE  StoryInvariant'
PROOF
  <1> DEFINE v == [run[r] EXCEPT !.worker = NoWorker]
             line == Line("error", run[r].tool)
             e == events[r]
             story == IF Streams(r) THEN Append(Append(e, line), line) ELSE e
  <1>1. /\ Told(pc[r], Streams(r), run[r].result.agent, e) /\ e \in Seq(Event)
        /\ run[r].tool \in Modes
    BY DEF StoryInvariant, Told, SourcesInvariant, Sound, WellFormed
  <1>2. /\ run' = [run EXCEPT ![r] = v] /\ UNCHANGED asked
        /\ pc' = [pc EXCEPT ![r] = "failed"]
    BY LeavingKeeps DEF Raises, To
  <1>3. line \in Event /\ line.type = "error"
    BY <1>1, LinesAreEvents
  <1>4. events' = [events EXCEPT ![r] = story]
    <2>1. CASE Streams(r)
      <3>1. e \o <<line, line>> = Append(Append(e, line), line)
        BY <1>1, <1>3
      <3> QED BY <2>1, <3>1 DEF Raises, StoryInvariant
    <2>2. CASE ~Streams(r)
      BY <2>2 DEF Raises, StoryInvariant
    <2> QED BY <2>1, <2>2
  <1>5. /\ story \in Seq(Event)
        /\ \A type \in {"done", "token", "reroute"} : Where(story, type) = Where(e, type)
    <2> HIDE DEF line
    <2>1. CASE Streams(r)
      <3> DEFINE once == Append(e, line)
      <3>1. once \in Seq(Event)
            /\ \A type \in {"done", "token", "reroute"} : Where(once, type) = Where(e, type)
        BY <1>1, <1>3, OneMoreLine, OneMoreOfAType
      <3> HIDE DEF once
      <3>2. Append(once, line) \in Seq(Event)
            /\ \A type \in {"done", "token", "reroute"} : Where(Append(once, line), type) = Where(once, type)
        BY <1>3, <3>1, OneMoreLine, OneMoreOfAType
      <3> QED BY <2>1, <3>1, <3>2 DEF once
    <2>2. CASE ~Streams(r)
      BY <1>1, <2>2
    <2> QED BY <2>1, <2>2
  <1>6. ~Streams(r) => story = <<>>
    BY <1>1 DEF Told
  <1>7. Streams(r) = (asked'[r].profile.via = "stream")
    BY <1>2 DEF Streams
  <1> HIDE DEF v, story
  <1>8. Told("failed", Streams(r), v.result.agent, story)
    BY <1>1, <1>5, <1>6 DEF Told, Outside, Ended
  <1>9. Tells(r, "failed", v, story)
    BY <1>2, <1>4, <1>7, <1>8 DEF Tells
  <1> QED BY <1>9, OneTells

\* Every step keeps the streams to one story.
LEMMA StoryStep ==
  ASSUME SourcesInvariant, TelemetryInvariant, StoryInvariant, CallsNest, [Next]_vars
  PROVE  StoryInvariant'
PROOF
  <1>1. ASSUME NEW r \in Requests, Step(r) PROVE StoryInvariant'
    <2>1. CASE LosesTurn(r) \/ JoinFails(r)
      <3>1. Raises(r)
        BY <2>1 DEF LosesTurn, JoinFails
      <3>2. pc[r] \notin Outside
        BY <2>1 DEF CallsNest, LosesTurn, LosesEntry, JoinFails, At, Outside, Ended
      <3> QED BY <3>1, <3>2, FailureStory
    <2> QED BY <1>1, <2>1, ArrivalStory, QueryStory, StreamStory, EndStory DEF Step
  <1>2. ASSUME NEW r \in Requests, Fails(r) PROVE StoryInvariant'
    BY <1>2, FailureStory DEF Fails, At, Outside, Ended
  <1>3. ASSUME NEW r \in Requests, NEW s \in Sources, HybridStep(r, s) \/ FailsPart(r, s)
        PROVE  StoryInvariant'
    BY <1>3, NothingTold DEF HybridStep, StartsPart, EndsPart, FailsPart, PartBecomes
  <1>4. ASSUME NEW t \in OpenThreads, ClearsThread(t) PROVE StoryInvariant'
    BY <1>4, NothingTold DEF ClearsThread
  <1>5. CASE UNCHANGED vars
    BY <1>5, NothingTold DEF vars
  <1> QED BY <1>1, <1>2, <1>3, <1>4, <1>5, ArrivalStory, EndStory DEF Next, Rests

\* Nothing has been sent when nothing has been asked.
LEMMA StoryInit == Init => StoryInvariant
PROOF
  <1> SUFFICES ASSUME Init PROVE StoryInvariant
    OBVIOUS
  <1>1. \A type : Where(<<>>, type) = {}
    BY DEF Where
  <1>2. \A streams \in BOOLEAN : \A agent : Told("new", streams, agent, <<>>)
    BY <1>1 DEF Told
  <1>3. \A r \in Requests : pc[r] = "new" /\ events[r] = <<>> /\ Streams(r) \in BOOLEAN
    BY DEF Init, Streams
  <1>4. events = [q \in Requests |-> events[q]]
    BY DEF Init
  <1> QED BY <1>2, <1>3, <1>4 DEF StoryInvariant

\* Whatever reroutes, failures and departures of clients come in between, a
\* stream sends no reroute after a token, answers with tokens of one agent,
\* and ends with the one final event of that agent, or with none if it fails.
THEOREM OneStory == Spec => []StreamsEndInOneDone
PROOF
  <1>1. StoryInvariant => StreamsEndInOneDone
    <2> SUFFICES ASSUME StoryInvariant, NEW r \in Requests
                 PROVE  /\ \A i \in Positions(r, "token"), k \in Positions(r, "reroute") : k < i
                        /\ \A i \in Positions(r, "token"), k \in Positions(r, "done") :
                                events[r][i].agent = events[r][k].agent
                        /\ Streams(r) /\ At(r, "answered") => Positions(r, "done") = {Len(events[r])}
                        /\ At(r, "failed") => Positions(r, "done") = {}
      BY DEF StreamsEndInOneDone
    <2>1. /\ Told(pc[r], Streams(r), run[r].result.agent, events[r])
          /\ \A type : Positions(r, type) = Where(events[r], type)
      BY DEF StoryInvariant, Positions, Where
    <2>2. Where(<<>>, "done") = {}
      BY DEF Where
    <2> QED BY <2>1, <2>2 DEF Told, At
  <1>2. SourcesInvariant /\ TelemetryInvariant /\ MemoryInvariant /\ StoryInvariant /\ [Next]_vars
            => SourcesInvariant' /\ TelemetryInvariant' /\ StoryInvariant'
    BY SourcesStep, TelemetryStep, StoryStep DEF MemoryInvariant
  <1> QED BY <1>1, <1>2, SourcesInit, TelemetryInit, StoryInit, MemoryInvariance, PTL DEF Spec

----------------------------------------------------------------------------
(* Who is evicted. *)

\* Ranks that grow with every use: the dictionary keeps the conversations in
\* the order of their last use.
Ranks(rank, now) ==
    /\ \A t \in Threads : rank[t] < now
    /\ \A t, u \in memory : rank[t] = rank[u] => t = u
    /\ \A t \in memory : newer[t] = {u \in memory : rank[t] < rank[u]}

Ordered ==
    /\ memory \subseteq Threads /\ newer = [t \in Threads |-> newer[t]]
    /\ \E rank \in [Threads -> Nat], now \in Nat : Ranks(rank, now)

\* Requests that are about to evict, and how much there is left for them: each
\* found the store too large, and since then it has lost what clear_turn took
\* and at most one entry to each of the others.
Popping == {r \in Requests : turn[r] = "pop"}
RoomToEvict ==
    /\ clears \in Nat /\ clears <= MaxClears
    /\ Popping # {} =>
        Cardinality(memory) + Cardinality(Requests) + clears >= MaxThreads + 1 + Cardinality(Popping)

\* Conversations that requests have been about: only those were used more
\* recently than one whose turn a running request was resolved with.
Asked == {r \in Requests : pc[r] # "new"}
Talking == {Thread(r) : r \in Asked}
ResolvedAreRecent ==
    \A r \in Requests :
        /\ r \notin Asked => ~run[r].prior
        /\ r \in Asked => Thread(r) \in Threads
        /\ run[r].prior /\ pc[r] \notin Ended => newer[Thread(r)] \subseteq Talking

\* A use of t, whether it was held before or not, makes it the newest.
LEMMA UsesKeepOrder ==
  ASSUME Ordered, NEW t \in Threads, memory' = memory \cup {t}, newer' = MovedToEnd(memory', t)
  PROVE  Ordered'
PROOF
  <1>1. PICK rank \in [Threads -> Nat], now \in Nat : Ranks(rank, now)
    BY DEF Ordered
  <1>2. PICK later \in [Threads -> Nat] : later = [rank EXCEPT ![t] = now]
    OBVIOUS
  <1>3. /\ later[t] = now /\ \A u \in Threads : u # t => later[u] = rank[u] /\ rank[u] < now
        /\ \A u \in Threads : rank[u] \in Nat /\ later[u] \in Nat
    BY <1>1, <1>2 DEF Ranks
  <1>4. /\ memory' \subseteq Threads
        /\ newer' = [u \in Threads |-> IF u \in memory' \ {t} THEN newer[u] \cup {t} ELSE {}]
    BY DEF Ordered, MovedToEnd
  <1>5. \A u \in Threads : later[u] < now + 1
    BY <1>3
  <1>6. \A u, w \in memory' : later[u] = later[w] => u = w
    BY <1>1, <1>3, <1>4 DEF Ranks
  <1>7. ASSUME NEW u \in memory' PROVE newer'[u] = {w \in memory' : later[u] < later[w]}
    <2>1. CASE u = t
      <3>1. newer'[u] = {}
        BY <1>4, <2>1
      <3>2. \A w \in memory' : ~(later[u] < later[w])
        BY <1>3, <1>4, <2>1
      <3> QED BY <3>1, <3>2
    <2>2. CASE u # t
      <3>1. u \in memory /\ newer'[u] = newer[u] \cup {t}
        BY <1>4, <1>7, <2>2
      <3>2. newer[u] = {w \in memory : rank[u] < rank[w]}
        BY <1>1, <3>1 DEF Ranks
      <3>3. later[u] = rank[u] /\ rank[u] < now
        BY <1>3, <1>4, <1>7, <2>2
      <3>4. \A w \in memory' : later[u] < later[w] <=> (w = t \/ rank[u] < rank[w])
        BY <1>3, <1>4, <3>3
      <3>5. newer[u] \cup {t} = {w \in memory' : w = t \/ rank[u] < rank[w]}
        BY <3>2
      <3> QED BY <3>1, <3>4, <3>5
    <2> QED BY <2>1, <2>2
  <1>8. newer' = [u \in Threads |-> newer'[u]]
    BY <1>4
  <1>9. Ranks(later, now + 1)'
    BY <1>5, <1>6, <1>7 DEF Ranks
  <1>10. now + 1 \in Nat
    OBVIOUS
  <1> QED BY <1>4, <1>8, <1>9, <1>10 DEF Ordered

\* Taking an entry away keeps the order of the others.
LEMMA RemovalKeepsOrder ==
  ASSUME Ordered, NEW t, memory' = memory \ {t}, newer' = Removed(t)
  PROVE  Ordered'
PROOF
  <1>1. PICK rank \in [Threads -> Nat], now \in Nat : Ranks(rank, now)
    BY DEF Ordered
  <1>2. /\ memory' \subseteq Threads
        /\ newer' = [u \in Threads |-> IF u = t THEN {} ELSE newer[u] \ {t}]
    BY DEF Ordered, Removed
  <1>3. \A u \in memory' : newer'[u] = {w \in memory' : rank[u] < rank[w]}
    BY <1>1, <1>2 DEF Ranks
  <1>4. newer' = [u \in Threads |-> newer'[u]]
    BY <1>2
  <1>5. Ranks(rank, now)'
    BY <1>1, <1>3 DEF Ranks
  <1> QED BY <1>2, <1>4, <1>5 DEF Ordered

\* A dictionary that is not empty has an oldest entry, older than all others.
LEMMA OldestIsOldest ==
  ASSUME Ordered, memory # {}
  PROVE  Oldest \in memory /\ newer[Oldest] = memory \ {Oldest}
PROOF
  <1>1. PICK rank \in [Threads -> Nat], now \in Nat : Ranks(rank, now)
    BY DEF Ordered
  <1>2. PICK used : used = {rank[t] : t \in memory}
    OBVIOUS
  <1>3. used \subseteq Nat /\ used # {}
    BY <1>2 DEF Ordered
  <1>4. PICK R : R = OpToRel(<, Nat)
    OBVIOUS
  <1>5. IsWellFoundedOn(R, Nat)
    BY <1>4, NatLessThanWellFounded
  <1>6. PICK x \in used : \A y \in used : ~(<<y, x>> \in R)
    BY <1>3, <1>5, WFMin
  <1>7. PICK t \in memory : x = rank[t]
    BY <1>2
  <1>8. \A u \in memory : rank[u] \in Nat /\ rank[t] \in Nat /\ ~(rank[u] < rank[t])
    BY <1>2, <1>3, <1>4, <1>6, <1>7 DEF OpToRel
  <1>9. \A u \in memory : u # t => rank[t] < rank[u]
    BY <1>1, <1>8 DEF Ranks
  <1>10. newer[t] = memory \ {t}
    BY <1>1, <1>8, <1>9 DEF Ranks
  <1> QED BY <1>10 DEF Oldest

\* What the operations on the dictionary do to its order.
LEMMA OperationsKeepOrder ==
  ASSUME Ordered, NEW r \in Requests, NEW t \in Threads,
         \/ FindsNothing(r, t) \/ Finds(r, t) \/ Touches(r, t) \/ Stores(r, t) \/ Promotes(r, t)
         \/ FindsTooMany(r) \/ Evicts(r) \/ Saved(r) \/ LosesEntry(r, t) \/ Clears(t)
  PROVE  /\ Ordered'
         /\ \A u \in Threads : newer'[u] \subseteq newer[u] \cup {t}
         /\ Touches(r, t) => newer'[t] = {}
PROOF
  <1>1. CASE UNCHANGED <<memory, newer>>
    <2>1. Ordered'
      BY <1>1, SMTT(60) DEF Ordered, Ranks
    <2>2. Touches(r, t) => newer'[t] = {}
      BY DEF Touches, MovedToEnd
    <2> QED BY <1>1, <2>1, <2>2
  <1>2. CASE memory' = memory \cup {t} /\ newer' = MovedToEnd(memory', t)
    BY <1>2, UsesKeepOrder DEF MovedToEnd
  <1>3. ASSUME NEW u, memory' = memory \ {u}, newer' = Removed(u), ~Touches(r, t)
        PROVE  Ordered' /\ \A w \in Threads : newer'[w] \subseteq newer[w]
    BY <1>3, RemovalKeepsOrder DEF Removed
  <1>4. CASE FindsNothing(r, t) \/ Finds(r, t) \/ FindsTooMany(r) \/ Saved(r) \/ LosesEntry(r, t)
    BY <1>1, <1>4 DEF FindsNothing, Finds, FindsTooMany, Saved, LosesEntry, memoryVars
  <1>5. CASE Touches(r, t) \/ Promotes(r, t)
    <2>1. t \in memory /\ memory' = memory /\ newer' = MovedToEnd(memory, t)
      BY <1>5 DEF Touches, Promotes
    <2>2. memory' = memory \cup {t}
      BY <2>1
    <2> QED BY <1>2, <2>1, <2>2
  <1>6. CASE Stores(r, t)
    BY <1>1, <1>2, <1>6 DEF Stores
  <1>7. CASE Evicts(r)
    <2>1. ~Touches(r, t)
      BY <1>7 DEF Evicts, Touches
    <2> QED BY <1>3, <1>7, <2>1 DEF Evicts
  <1>8. CASE Clears(t)
    <2>1. Touches(r, t) => UNCHANGED <<memory, newer>>
      BY <1>8 DEF Clears, Touches
    <2> QED BY <1>1, <1>3, <1>8, <2>1 DEF Clears
  <1> QED BY <1>4, <1>5, <1>6, <1>7, <1>8

\* What is left for the requests that are about to evict.
LEMMA OperationsLeaveRoom ==
  ASSUME MemoryAssumption, Typed, IsFiniteSet(memory), RoomToEvict, clears' = clears,
         NEW r \in Requests, NEW t,
         \/ FindsNothing(r, t) \/ Finds(r, t) \/ Touches(r, t) \/ Stores(r, t) \/ Promotes(r, t)
         \/ FindsTooMany(r) \/ Evicts(r) \/ Saved(r) \/ LosesEntry(r, t)
  PROVE  RoomToEvict'
PROOF
  <1>1. /\ IsFiniteSet(Requests) /\ MaxThreads \in Nat
        /\ Cardinality(Requests) \in Nat /\ Cardinality(memory) \in Nat
    BY FS_CardinalityType DEF MemoryAssumption
  <1>2. /\ IsFiniteSet(Popping) /\ Cardinality(Popping) \in Nat
        /\ IsFiniteSet(Popping') /\ Cardinality(Popping') \in Nat
        /\ Cardinality(Popping') <= Cardinality(Requests)
    BY <1>1, FS_Subset, FS_CardinalityType DEF Popping
  <1>3. CASE memory' = memory /\ Popping' = Popping
    BY <1>3 DEF RoomToEvict
  <1>4. CASE FindsTooMany(r)
    BY <1>1, <1>2, <1>4 DEF FindsTooMany, TooMany, RoomToEvict
  <1>5. CASE Evicts(r)
    <2>1. turn' = [turn EXCEPT ![r] = "check"] /\ r \in Popping
      BY <1>5 DEF Evicts, Goes, Popping
    <2>2. Popping' = Popping \ {r}
      BY <2>1 DEF Popping, Typed
    <2>3. Cardinality(Popping') = Cardinality(Popping) - 1
      BY <1>2, <2>1, <2>2, FS_RemoveElement
    <2>4. PICK u : memory' = memory \ {u}
      BY <1>5 DEF Evicts
    <2>5. Cardinality(memory') \in {Cardinality(memory), Cardinality(memory) - 1}
      BY <2>4, FS_RemoveElement
    <2>6. PICK a, b, k, l, n : /\ a = Cardinality(memory) /\ b = Cardinality(memory') /\ n = Cardinality(Requests)
                               /\ k = Cardinality(Popping) /\ l = Cardinality(Popping')
      OBVIOUS
    <2>7. a \in Nat /\ n \in Nat /\ k \in Nat /\ l = k - 1 /\ b >= a - 1 /\ b \in Int
      BY <1>1, <1>2, <2>3, <2>5, <2>6
    <2>8. clears \in Nat /\ clears <= MaxClears /\ a + n + clears >= MaxThreads + 1 + k
      BY <2>1, <2>6 DEF RoomToEvict
    <2>9. b + n + clears >= MaxThreads + 1 + l
      BY <1>1, <2>7, <2>8
    <2> QED BY <2>6, <2>8, <2>9 DEF RoomToEvict
  <1>6. CASE Stores(r, t)
    <2>1. Popping' = Popping
      BY <1>6 DEF Stores, Goes, Popping, Typed
    <2>2. Cardinality(memory') \in {Cardinality(memory), Cardinality(memory) + 1}
      BY <1>6, FS_AddElement DEF Stores
    <2> QED BY <1>1, <1>2, <2>1, <2>2 DEF RoomToEvict
  <1>7. CASE FindsNothing(r, t) \/ Finds(r, t) \/ Touches(r, t) \/ Promotes(r, t) \/ Saved(r)
             \/ LosesEntry(r, t)
    <2>1. memory' = memory /\ Popping' = Popping
      BY <1>7 DEF FindsNothing, Finds, Touches, Promotes, Saved, LosesEntry, Goes, memoryVars,
         Popping, Typed
    <2> QED BY <1>3, <2>1
  <1> QED BY <1>4, <1>5, <1>6, <1>7

\* A conversation is cleared: it counts from now on.
LEMMA ClearsLeaveRoom ==
  ASSUME MemoryAssumption, IsFiniteSet(memory), RoomToEvict, MaxClears \in Nat,
         NEW t, ClearsThread(t)
  PROVE  RoomToEvict'
PROOF
  <1>1. /\ MaxThreads \in Nat /\ IsFiniteSet(Requests)
        /\ Cardinality(Requests) \in Nat /\ Cardinality(memory) \in Nat
    BY FS_CardinalityType DEF MemoryAssumption
  <1>2. Cardinality(memory') = Cardinality(memory) - 1 /\ Popping' = Popping
    BY FS_RemoveElement DEF ClearsThread, Clears, Popping
  <1>3. clears' = clears + 1 /\ clears' \in Nat /\ clears' <= MaxClears
    BY DEF ClearsThread, RoomToEvict
  <1>4. Cardinality(Popping) \in Nat
    BY <1>1, FS_Subset, FS_CardinalityType DEF Popping
  <1> QED BY <1>1, <1>2, <1>3, <1>4 DEF RoomToEvict

\* The conversation of a request that was resolved with it is not the oldest
\* while there is room.
LEMMA OldestIsNotResolved ==
  ASSUME MemoryAssumption, MaxThreads + 1 >= 2 * Cardinality(Requests) + MaxClears, MaxClears \in Nat,
         IsFiniteSet(memory), Ordered, RoomToEvict, ResolvedAreRecent, Popping # {}
  PROVE  \A r \in Requests : ResolvedWithTurn(r) => Thread(r) # Oldest
PROOF
  <1>1. /\ MaxThreads \in Nat /\ IsFiniteSet(Requests)
        /\ Cardinality(Requests) \in Nat /\ Cardinality(memory) \in Nat
    BY FS_CardinalityType DEF MemoryAssumption
  <1>2. IsFiniteSet(Popping) /\ Cardinality(Popping) \in Nat /\ Cardinality(Popping) # 0
    BY <1>1, FS_Subset, FS_CardinalityType, FS_EmptySet DEF Popping
  <1>3. Cardinality(memory) > Cardinality(Requests)
    BY <1>1, <1>2, SMTT(60) DEF RoomToEvict
  <1>4. memory # {}
    BY <1>1, <1>3, FS_EmptySet
  <1>5. Oldest \in memory /\ newer[Oldest] = memory \ {Oldest}
    BY <1>4, OldestIsOldest
  <1>6. IsFiniteSet(Talking) /\ Cardinality(Talking) <= Cardinality(Requests) /\ Cardinality(Talking) \in Nat
    <2>1. IsFiniteSet(Asked) /\ Cardinality(Asked) <= Cardinality(Requests) /\ Cardinality(Asked) \in Nat
      BY <1>1, FS_Subset, FS_CardinalityType DEF Asked
    <2>2. PICK f : f = [r \in Asked |-> Thread(r)]
      OBVIOUS
    <2>3. f \in Surjection(Asked, Talking)
      BY <2>2 DEF Surjection, Talking
    <2>4. IsFiniteSet(Talking) /\ Cardinality(Talking) <= Cardinality(Asked)
      BY <2>1, <2>3, FS_Surjection
    <2>5. Cardinality(Talking) \in Nat
      BY <2>4, FS_CardinalityType
    <2> QED BY <1>1, <2>1, <2>4, <2>5
  <1>7. ASSUME NEW r \in Requests, Thread(r) = Oldest, run[r].prior, pc[r] \notin Ended
        PROVE  FALSE
    <2>1. r \in Asked /\ newer[Oldest] \subseteq Talking
      BY <1>7 DEF ResolvedAreRecent
    <2>2. Oldest \in Talking
      BY <1>7, <2>1 DEF Talking
    <2>3. memory \subseteq Talking
      BY <1>5, <2>1, <2>2
    <2>4. Cardinality(memory) <= Cardinality(Talking)
      BY <1>6, <2>3, FS_Subset
    <2> QED BY <1>1, <1>3, <1>6, <2>4
  <1> QED BY <1>7 DEF ResolvedWithTurn

\* A request goes on outside the memory: it keeps its conversation, from the
\* time it has one, and what it knows of it.
Continues(r) ==
    /\ UNCHANGED <<memoryVars, clears>>
    /\ pc[r] \notin Ended /\ pc'[r] # "new"
    /\ \A q \in Requests : run'[q].prior = run[q].prior
    /\ \A q \in Requests \ {r} : pc'[q] = pc[q] /\ asked'[q] = asked[q]
    /\ \/ pc[r] = "new" /\ asked'[r].thread \in Threads
       \/ pc[r] # "new" /\ asked'[r] = asked[r]

LEMMA ContinuingStaysRecent ==
  ASSUME ResolvedAreRecent, NEW r \in Requests, Continues(r)
  PROVE  ResolvedAreRecent'
PROOF
  <1>1. newer' = newer /\ Asked' = Asked \cup {r}
    BY DEF Continues, memoryVars, Asked
  <1>2. \A q \in Asked : Thread(q)' = Thread(q)
    BY DEF Continues, Asked, Thread
  <1>3. Talking \subseteq Talking'
    BY <1>1, <1>2 DEF Talking
  <1>4. ASSUME NEW q \in Requests
        PROVE  /\ q \notin Asked' => ~run'[q].prior
               /\ q \in Asked' => Thread(q)' \in Threads
               /\ run'[q].prior /\ pc'[q] \notin Ended => newer'[Thread(q)'] \subseteq Talking'
    <2>1. run'[q].prior = run[q].prior
      BY DEF Continues
    <2>2. CASE q \in Asked
      <3>1. pc'[q] \notin Ended => pc[q] \notin Ended
        BY DEF Continues
      <3> QED BY <1>1, <1>2, <1>3, <2>1, <2>2, <3>1 DEF ResolvedAreRecent
    <2>3. CASE q \notin Asked
      BY <1>1, <2>1, <2>3 DEF ResolvedAreRecent, Continues, Asked, Thread
    <2> QED BY <2>2, <2>3
  <1> QED BY <1>4 DEF ResolvedAreRecent

\* All steps of the agents and of the streams are such.
LEMMA AgentsContinue ==
  ASSUME SourcesInvariant, QuestionsAssumption, NEW r \in Requests,
         \/ Asks(r) \/ Takes(r) \/ Denies(r) \/ TriesDocumentsFirst(r) \/ Dispatches(r)
         \/ DocumentsAnswer(r) \/ DataAnswers(r) \/ Joins(r) \/ JoinFails(r)
         \/ FallsBackToDocuments(r) \/ Answers(r) \/ StreamsDocuments(r) \/ NothingToStream(r)
         \/ ReroutesToData(r) \/ StreamsData(r) \/ ReroutesToDocuments(r) \/ StreamsHybrid(r)
         \/ Speaks(r) \/ Rescues(r) \/ Emits(r) \/ Disconnects(r) \/ Fails(r)
  PROVE  Continues(r)
PROOF
  <1>1. /\ pc = [q \in Requests |-> pc[q]] /\ asked = [q \in Requests |-> asked[q]]
        /\ run = [q \in Requests |-> run[q]] /\ DOMAIN run[r] = Locals
    BY DEF SourcesInvariant, Sound, WellFormed
  <1>2. ASSUME NEW place, place # "new", To(r, place)
        PROVE  pc'[r] # "new" /\ \A q \in Requests \ {r} : pc'[q] = pc[q]
    BY <1>1, <1>2 DEF To
  <1>3. ASSUME NEW v, run' = [run EXCEPT ![r] = v], v.prior = run[r].prior
        PROVE  \A q \in Requests : run'[q].prior = run[q].prior
    BY <1>1, <1>3
  <1>4. ASSUME NEW result, run' = WithResult(r, result)
        PROVE  \A q \in Requests : run'[q].prior = run[q].prior
    BY <1>1, <1>4 DEF WithResult, Locals
  <1>5. ASSUME run' = Leaves(r) PROVE \A q \in Requests : run'[q].prior = run[q].prior
    BY <1>1, <1>5 DEF Leaves, Locals
  <1> DEFINE Advances == /\ UNCHANGED <<memoryVars, clears, asked>>
                         /\ pc[r] \notin Ended \cup {"new"}
                         /\ \E place : place # "new" /\ To(r, place)
                         /\ \A q \in Requests : run'[q].prior = run[q].prior
  <1>6. Advances => Continues(r)
    BY <1>1, <1>2 DEF Continues
  <1>7. CASE Asks(r)
    <2>1. PICK t \in OpenThreads, p \in Profiles :
            /\ asked' = [asked EXCEPT ![r] = [thread |-> t, profile |-> p]]
            /\ run' = [run EXCEPT ![r].tool = p.mode, ![r].locked = Locked(p.mode)]
            /\ To(r, IF p.via = "stream" THEN "resolve" ELSE "queued")
      BY <1>7 DEF Asks
    <2>2. t \in Threads
      BY DEF QuestionsAssumption
    <2>3. \A q \in Requests : run'[q].prior = run[q].prior
      BY <1>1, <2>1 DEF Locals
    <2>4. pc'[r] # "new" /\ \A q \in Requests \ {r} : pc'[q] = pc[q]
      BY <1>2, <2>1
    <2>5. asked'[r].thread = t /\ \A q \in Requests \ {r} : asked'[q] = asked[q]
      BY <1>1, <2>1
    <2> QED BY <1>7, <2>2, <2>3, <2>4, <2>5 DEF Asks, At, Continues, Ended
  <1>8. CASE \/ TriesDocumentsFirst(r) \/ Dispatches(r) \/ Speaks(r) \/ Emits(r) \/ Disconnects(r)
    <2>1. UNCHANGED <<memoryVars, clears, asked, run>>
      BY <1>8 DEF TriesDocumentsFirst, Dispatches, Speaks, Emits, Disconnects
    <2>2. pc[r] \notin Ended \cup {"new"}
      BY <1>8 DEF TriesDocumentsFirst, Dispatches, Speaks, Emits, Disconnects, At, Ended
    <2>3. \E place : place # "new" /\ To(r, place)
      <3>1. CASE Dispatches(r)
        <4>1. run[r].tool # "new"
          BY DEF SourcesInvariant, Sound, WellFormed, Modes, Sources
        <4> QED BY <3>1, <4>1 DEF Dispatches
      <3> QED BY <1>8, <3>1 DEF TriesDocumentsFirst, Speaks, Emits, Disconnects
    <2> QED BY <1>6, <2>1, <2>2, <2>3
  <1>9. CASE Takes(r)
    BY <1>1, <1>6, <1>9 DEF Takes, At, Ended, Locals
  <1>10. CASE Denies(r) \/ Joins(r)
    BY <1>4, <1>6, <1>10 DEF Denies, Joins, At, Ended
  <1>11. CASE DocumentsAnswer(r) \/ DataAnswers(r)
    <2>1. PICK d : Concludes(r, d)
      BY <1>11 DEF DocumentsAnswer, DataAnswers
    <2> QED BY <1>4, <1>6, <1>11, <2>1 DEF Concludes, DocumentsAnswer, DataAnswers, At, Ended
  <1>12. CASE FallsBackToDocuments(r) \/ ReroutesToData(r) \/ Rescues(r)
    <2>1. \A q \in Requests : run'[q].prior = run[q].prior
      <3>1. CASE FallsBackToDocuments(r)
        BY <1>1, <3>1 DEF FallsBackToDocuments, Locals
      <3>2. CASE ReroutesToData(r)
        BY <1>1, <3>2 DEF ReroutesToData, Locals
      <3>3. CASE Rescues(r)
        <4>1. PICK d : run' = [run EXCEPT ![r].result = d]
          BY <3>3 DEF Rescues
        <4> QED BY <1>1, <4>1 DEF Locals
      <3> QED BY <1>12, <3>1, <3>2, <3>3
    <2> QED BY <1>6, <1>12, <2>1 DEF FallsBackToDocuments, ReroutesToData, Rescues, At, Ended
  <1>13. CASE Answers(r)
    <2>1. \A q \in Requests : run'[q].prior = run[q].prior
      BY <1>1, <1>13 DEF Answers, Leaves, Locals
    <2> QED BY <1>6, <1>13, <2>1 DEF Answers, At, Ended
  <1>14. CASE \/ StreamsDocuments(r) \/ NothingToStream(r) \/ StreamsData(r)
              \/ ReroutesToDocuments(r) \/ StreamsHybrid(r)
    <2>1. PICK d, lines : Drafts(r, d, lines)
      BY <1>14 DEF StreamsDocuments, NothingToStream, StreamsData, ReroutesToDocuments, StreamsHybrid
    <2>2. \A q \in Requests : run'[q].prior = run[q].prior
      BY <1>1, <2>1 DEF Drafts, Locals
    <2>3. UNCHANGED <<memoryVars, clears, asked>> /\ \E place : place # "new" /\ To(r, place)
      BY <2>1 DEF Drafts
    <2>4. pc[r] \notin Ended \cup {"new"}
      BY <1>14 DEF StreamsDocuments, NothingToStream, StreamsData, ReroutesToDocuments,
         StreamsHybrid, At, Ended
    <2> QED BY <1>6, <2>2, <2>3, <2>4
  <1>15. CASE JoinFails(r) \/ Fails(r)
    BY <1>5, <1>6, <1>15 DEF JoinFails, Fails, Raises, At, Ended
  <1> QED
    BY <1>7, <1>8, <1>9, <1>10, <1>11, <1>12, <1>13, <1>14, <1>15

\* A look-up makes its own conversation the newest, a save does so too; both
\* are of a conversation that a request is about.
LEMMA CallsStayRecent ==
  ASSUME SourcesInvariant, Typed, CallsNest, Ordered, ResolvedAreRecent, NEW r \in Requests, Calls(r)
  PROVE  ResolvedAreRecent' /\ Ordered' /\ asked' = asked /\ clears' = clears
PROOF
  <1>1. /\ pc = [q \in Requests |-> pc[q]] /\ run = [q \in Requests |-> run[q]]
        /\ DOMAIN run[r] = Locals
    BY DEF SourcesInvariant, Sound, WellFormed
  <1>2. asked' = asked /\ clears' = clears
    BY DEF Calls, LooksUp, Saves, LosesTurn, Raises
  <1>3. pc[r] \in {"resolve", "prior", "save", "saveDenial"}
    BY DEF Calls, LooksUp, Saves, LosesTurn, LosesEntry, CallsNest
  <1>4. PICK t \in Threads : t = Thread(r)
    BY <1>3 DEF ResolvedAreRecent, Asked
  <1>5. \/ UNCHANGED <<memory, newer>>
        \/ FindsNothing(r, t) \/ Finds(r, t) \/ Touches(r, t) \/ Stores(r, t) \/ Promotes(r, t)
        \/ FindsTooMany(r) \/ Evicts(r) \/ Saved(r) \/ LosesEntry(r, t)
    BY <1>4 DEF Calls, LooksUp, Saves, LosesTurn, memoryVars
  <1>6. /\ Ordered'
        /\ \A u \in Threads : newer'[u] \subseteq newer[u] \cup {t}
        /\ Touches(r, t) => newer'[t] = {}
    <2>1. CASE UNCHANGED <<memory, newer>>
      <3>1. Ordered'
        BY <2>1 DEF Ordered, Ranks
      <3>2. Touches(r, t) => newer'[t] = {}
        BY DEF Touches, MovedToEnd
      <3> QED BY <2>1, <3>1, <3>2
    <2> QED BY <1>5, <2>1, OperationsKeepOrder
  <1>7. /\ \A q \in Requests \ {r} : pc'[q] = pc[q] /\ run'[q] = run[q]
        /\ pc'[r] # "new"
    <2>1. CASE LooksUp(r)
      <3>1. AfterLookUp(r) # "new"
        BY DEF AfterLookUp, SourcesInvariant, Sound, WellFormed, Modes, Sources
      <3>2. pc' = pc \/ pc' = [pc EXCEPT ![r] = AfterLookUp(r)]
        BY <2>1 DEF LooksUp, To
      <3>3. run' = run \/ \E v : run' = [run EXCEPT ![r] = v]
        BY <2>1 DEF LooksUp
      <3> QED BY <1>1, <1>3, <3>1, <3>2, <3>3
    <2>2. CASE Saves(r)
      BY <1>1, <1>3, <2>2 DEF Saves, AfterSave, To, Leaves
    <2>3. CASE LosesTurn(r)
      BY <1>1, <2>3 DEF LosesTurn, Raises, To, Leaves
    <2> QED BY <2>1, <2>2, <2>3 DEF Calls
  <1>8. \/ pc'[r] \in Ended \/ ~run'[r].prior \/ newer'[t] = {}
        \/ run'[r].prior = run[r].prior
    <2>1. CASE LooksUp(r)
      <3>1. CASE FindsNothing(r, t) /\ run' = [run EXCEPT ![r].prior = FALSE]
        BY <1>1, <3>1 DEF Locals
      <3>2. CASE UNCHANGED run
        BY <3>2
      <3>3. CASE Touches(r, t)
        BY <1>6, <3>3
      <3> QED BY <1>4, <2>1, <3>1, <3>2, <3>3 DEF LooksUp
    <2>2. CASE Saves(r)
      <3>1. run' = run \/ run' = Leaves(r)
        BY <2>2 DEF Saves, AfterSave
      <3> QED BY <1>1, <3>1 DEF Leaves, Locals
    <2>3. CASE LosesTurn(r)
      BY <1>1, <2>3 DEF LosesTurn, Raises, To, Ended
    <2> QED BY <2>1, <2>2, <2>3 DEF Calls
  <1>9. /\ Asked' = Asked /\ \A q : Thread(q)' = Thread(q)
        /\ Talking' = Talking /\ t \in Talking
    <2>1. Asked' = Asked /\ r \in Asked
      BY <1>3, <1>7 DEF Asked
    <2>2. \A q : Thread(q)' = Thread(q)
      BY <1>2 DEF Thread
    <2> QED BY <1>4, <2>1, <2>2 DEF Talking
  <1>10. pc[r] \notin Ended
    BY <1>3 DEF Ended
  <1>11. ASSUME NEW q \in Requests
         PROVE  /\ q \notin Asked' => ~run'[q].prior
                /\ q \in Asked' => Thread(q)' \in Threads
                /\ run'[q].prior /\ pc'[q] \notin Ended => newer'[Thread(q)'] \subseteq Talking'
    <2>1. CASE q # r
      BY <1>6, <1>7, <1>9, <2>1 DEF ResolvedAreRecent
    <2>2. CASE q = r
      BY <1>3, <1>4, <1>6, <1>8, <1>9, <1>10, <2>2 DEF ResolvedAreRecent, Asked
    <2> QED BY <2>1, <2>2
  <1> QED BY <1>2, <1>6, <1>11 DEF ResolvedAreRecent

\* What is inductive for evictions.
LruInvariant == Ordered /\ RoomToEvict /\ ResolvedAreRecent

\* Every step keeps it.
LEMMA LruStep ==
  ASSUME MemoryAssumption, QuestionsAssumption, MemoryInvariant, SourcesInvariant, LruInvariant,
         [Next]_vars
  PROVE  LruInvariant'
PROOF
  <1>1. Typed /\ CallsNest /\ IsFiniteSet(memory) /\ MaxClears \in Nat
    BY DEF MemoryInvariant, Typed, QuestionsAssumption
  <1>0. Ordered /\ RoomToEvict /\ ResolvedAreRecent
    BY DEF LruInvariant
  <1>2. ASSUME UNCHANGED <<memoryVars, clears>> PROVE Ordered' /\ RoomToEvict'
    <2>1. memory' = memory /\ newer' = newer /\ turn' = turn /\ clears' = clears
      BY <1>2 DEF memoryVars
    <2>2. Ordered'
      <3>1. PICK rank \in [Threads -> Nat], now \in Nat : Ranks(rank, now)
        BY <1>0 DEF Ordered
      <3>2. Ranks(rank, now)'
        BY <2>1, <3>1 DEF Ranks
      <3>3. memory' \subseteq Threads /\ newer' = [t \in Threads |-> newer'[t]]
        BY <1>0, <2>1 DEF Ordered
      <3> QED BY <3>2, <3>3 DEF Ordered
    <2>3. RoomToEvict'
      BY <1>0, <2>1 DEF RoomToEvict, Popping
    <2> QED BY <2>2, <2>3
  <1>3. ASSUME UNCHANGED <<memoryVars, pc, asked, run, clears>> PROVE LruInvariant'
    <2>1. Ordered' /\ RoomToEvict'
      BY <1>2, <1>3
    <2>2. ResolvedAreRecent'
      BY <1>0, <1>3 DEF memoryVars, ResolvedAreRecent, Asked, Talking, Thread
    <2> QED BY <2>1, <2>2 DEF LruInvariant
  <1>4. ASSUME NEW r \in Requests, Continues(r) PROVE LruInvariant'
    BY <1>0, <1>2, <1>4, ContinuingStaysRecent DEF Continues, LruInvariant
  <1>5. ASSUME NEW r \in Requests, Calls(r) PROVE LruInvariant'
    <2>1. ResolvedAreRecent' /\ Ordered' /\ clears' = clears
      BY <1>0, <1>1, <1>5, CallsStayRecent
    <2>2. RoomToEvict'
      <3>1. CASE UNCHANGED memoryVars
        BY <1>2, <2>1, <3>1
      <3>2. CASE ~UNCHANGED memoryVars
        <4>1. \E t : \/ FindsNothing(r, t) \/ Finds(r, t) \/ Touches(r, t) \/ Stores(r, t)
                     \/ Promotes(r, t) \/ FindsTooMany(r) \/ Evicts(r) \/ Saved(r) \/ LosesEntry(r, t)
          BY <1>5, <3>2 DEF Calls, LooksUp, Saves, LosesTurn
        <4> QED BY <1>0, <1>1, <2>1, <4>1, OperationsLeaveRoom
      <3> QED BY <3>1, <3>2
    <2> QED BY <2>1, <2>2 DEF LruInvariant
  <1>6. ASSUME NEW t \in OpenThreads, ClearsThread(t) PROVE LruInvariant'
    <2>1. RoomToEvict'
      BY <1>0, <1>1, <1>6, ClearsLeaveRoom
    <2>2. memory' = memory \ {t} /\ newer' = Removed(t) /\ UNCHANGED <<pc, asked, run>>
      BY <1>6 DEF ClearsThread, Clears
    <2>3. Ordered'
      BY <1>0, <2>2, RemovalKeepsOrder
    <2>4. \A u \in Threads : newer'[u] \subseteq newer[u]
      BY <2>2 DEF Removed
    <2>5. \A q \in Requests : run[q].prior => Thread(q) \in Threads
      BY <1>0 DEF ResolvedAreRecent
    <2>6. ResolvedAreRecent'
      BY <1>0, <2>2, <2>4, <2>5 DEF ResolvedAreRecent, Asked, Talking, Thread
    <2> QED BY <2>1, <2>3, <2>6 DEF LruInvariant
  <1>7. ASSUME NEW r \in Requests, NEW s \in Sources, HybridStep(r, s) \/ FailsPart(r, s)
        PROVE  LruInvariant'
    BY <1>3, <1>7 DEF HybridStep, StartsPart, EndsPart, FailsPart, PartBecomes
  <1>8. CASE UNCHANGED vars
    BY <1>3, <1>8 DEF vars
  <1>9. ASSUME NEW r \in Requests, Asks(r) \/ Step(r) \/ Fails(r) \/ Disconnects(r)
        PROVE  Continues(r) \/ Calls(r)
    BY <1>9, AgentsContinue DEF Step, Calls
  <1> QED BY <1>4, <1>5, <1>6, <1>7, <1>8, <1>9 DEF Next, Rests

\* At first the conversations held are in the order given, and none is in use.
LEMMA LruInit ==
  ASSUME MemoryAssumption, QuestionsAssumption, Init
  PROVE  LruInvariant
PROOF
  <1>1. Len(Idle) \in Nat /\ \A i \in 1..Len(Idle) : Idle[i] \in Threads
    BY DEF MemoryAssumption
  <1>2. PICK rank : rank = [t \in Threads |-> IF t \in memory
                                                THEN CHOOSE i \in 1..Len(Idle) : Idle[i] = t ELSE 0]
    OBVIOUS
  <1>3. memory = {Idle[i] : i \in 1..Len(Idle)} /\ memory \subseteq Threads
    BY <1>1 DEF Init, MemoryInit
  <1>4. \A t \in memory : rank[t] \in 1..Len(Idle) /\ Idle[rank[t]] = t
    BY <1>2, <1>3
  <1>5. \A i \in 1..Len(Idle) : rank[Idle[i]] = i
    BY <1>3, <1>4 DEF MemoryAssumption
  <1>6. rank \in [Threads -> Nat] /\ \A t \in Threads : rank[t] < Len(Idle) + 1
    <2>1. \A t \in Threads : t \notin memory => rank[t] = 0
      BY <1>2
    <2>2. \A t \in Threads : rank[t] \in Nat /\ rank[t] < Len(Idle) + 1
      BY <1>1, <1>4, <2>1
    <2> QED BY <1>2, <2>2
  <1>7. /\ newer = [t \in Threads |->
                      {Idle[k] : k \in {k \in 1..Len(Idle) : \E i \in 1..(k - 1) : Idle[i] = t}}]
        /\ newer = [t \in Threads |-> newer[t]]
    BY DEF Init, MemoryInit
  <1>8. ASSUME NEW t \in memory PROVE newer[t] = {u \in memory : rank[t] < rank[u]}
    <2>1. \A k \in 1..Len(Idle) : (\E i \in 1..(k - 1) : Idle[i] = t) <=> rank[t] < k
      BY <1>1, <1>4, <1>5
    <2>2. newer[t] = {Idle[k] : k \in {k \in 1..Len(Idle) : rank[t] < k}}
      BY <1>3, <1>7, <2>1
    <2> QED BY <1>3, <1>4, <1>5, <2>2
  <1>9. Ranks(rank, Len(Idle) + 1)
    BY <1>4, <1>6, <1>8 DEF Ranks
  <1>10. Ordered
    BY <1>1, <1>3, <1>6, <1>7, <1>9 DEF Ordered
  <1>11. RoomToEvict
    BY DEF Init, MemoryInit, RoomToEvict, Popping, QuestionsAssumption
  <1>12. ResolvedAreRecent
    BY DEF Init, NewRun, ResolvedAreRecent, Asked
  <1> QED BY <1>10, <1>11, <1>12 DEF LruInvariant

\* An eviction never takes the conversation of a request that was resolved
\* with its turn, whatever several eviction loops pop at once, as long as the
\* bound of the store leaves room for two entries of every request and for
\* what is cleared meanwhile.
THEOREM ResolvedTurnIsKept ==
  ASSUME MaxThreads + 1 >= 2 * Cardinality(Requests) + MaxClears
  PROVE  Spec => ResolvedTurnsAreKept
PROOF
  <1> DEFINE Kept == clears' = clears =>
                       \A r \in Requests : ResolvedWithTurn(r) => Thread(r) \notin memory \ memory'
             Inv == MemoryInvariant /\ SourcesInvariant /\ LruInvariant
  <1>1. Inv /\ [Next]_vars => [Kept]_vars
    <2> SUFFICES ASSUME Inv, Next, clears' = clears, NEW t \in memory \ memory'
                 PROVE  \A r \in Requests : ResolvedWithTurn(r) => Thread(r) # t
      OBVIOUS
    <2>1. \E r \in Requests : Evicts(r)
      <3>1. ASSUME NEW r \in Requests, Continues(r) PROVE FALSE
        BY <3>1 DEF Continues, memoryVars
      <3>2. ASSUME NEW r \in Requests, Calls(r) PROVE Evicts(r)
        BY <3>2 DEF Calls, LooksUp, Saves, LosesTurn, FindsNothing, Finds, Touches, Stores, Promotes,
           FindsTooMany, Saved, LosesEntry, memoryVars
      <3>3. ASSUME NEW u \in OpenThreads, ClearsThread(u) PROVE FALSE
        BY <3>3 DEF ClearsThread, LruInvariant, RoomToEvict
      <3>4. ASSUME NEW r \in Requests, NEW s \in Sources, HybridStep(r, s) \/ FailsPart(r, s)
            PROVE  FALSE
        BY <3>4 DEF HybridStep, StartsPart, EndsPart, FailsPart, PartBecomes, memoryVars
      <3>5. ASSUME NEW r \in Requests, Asks(r) \/ Step(r) \/ Fails(r) \/ Disconnects(r)
            PROVE  Continues(r) \/ Calls(r)
        BY <3>5, QuestionsAssumption, AgentsContinue DEF Step, Calls
      <3>6. CASE Rests
        BY <3>6 DEF Rests, vars, memoryVars
      <3> QED BY <3>1, <3>2, <3>3, <3>4, <3>5, <3>6 DEF Next
    <2>2. t = Oldest /\ Popping # {}
      BY <2>1 DEF Evicts, Popping
    <2> QED
      BY <2>2, OldestIsNotResolved, MemoryAssumption, QuestionsAssumption
      DEF MemoryInvariant, LruInvariant, QuestionsAssumption
  <1>2. Inv /\ [Next]_vars => Inv'
    <2> SUFFICES ASSUME MemoryInvariant, SourcesInvariant, LruInvariant, [Next]_vars
                 PROVE  MemoryInvariant' /\ SourcesInvariant' /\ LruInvariant'
      OBVIOUS
    <2>1. CallsNest
      BY DEF MemoryInvariant
    <2>2. MemoryInvariant'
      BY MemoryAssumption, QuestionsAssumption, StepsKeepTheBound
    <2>3. SourcesInvariant'
      BY <2>1, MemoryAssumption, QuestionsAssumption, SourcesStep
    <2>4. LruInvariant'
      BY MemoryAssumption, QuestionsAssumption, LruStep
    <2> QED BY <2>2, <2>3, <2>4
  <1>3. Init => Inv
    BY MemoryAssumption, QuestionsAssumption, InitiallyBounded, SourcesInit, LruInit
  <1>4. ResolvedTurnsAreKept <=> [][Kept]_vars
    BY PTL DEF ResolvedTurnsAreKept
  <1> HIDE DEF Kept, Inv
  <1> QED BY <1>1, <1>2, <1>3, <1>4, PTL DEF Spec

=============================================================================
