------------------------ MODULE ProcessObjectProofs ------------------------
(***************************************************************************)
(* The handle table of a process and its exit, for every number of slots,   *)
(* objects, rights and callers.                                             *)
(***************************************************************************)
EXTENDS ProcessObject, FiniteSetTheorems, SequenceTheorems, WellFoundedInduction, TLAPS

(* The slots in use.                                                        *)
UsedSlots == {s \in HandleSlots : po_handles[s] # PoNone}

(* The inductive invariant: the types, the histories of the handles, and    *)
(* that a caller between the two locks of exit has stored a code.           *)
ProcessInv ==
    /\ ProcessObjectTypeOK
    /\ po_threads \in Seq(PoThreads)
    /\ po_held \in [HandleValues -> HandleEntry \cup {PoNone}]
    /\ \A h \in HandleValues : po_held[h] = po_handles[h - 1]
    /\ po_exits # {} => po_code # PoNone
    /\ ExitedHasCode

(* A non-empty set of naturals has a least element, and Min returns it: the *)
(* scan of alloc and the search for a thread both stop at the first hit.    *)
LEMMA MinOfNaturals ==
    ASSUME NEW T, T \subseteq Nat, T # {}
    PROVE  Min(T) \in T
<1>1. PICK x \in T : \A y \in T : ~ (<<y, x>> \in OpToRel(<, Nat))
  BY NatLessThanWellFounded, WFMin
<1>2. \A y \in T : x <= y
  <2>1. ASSUME NEW y \in T PROVE x <= y
    <3>1. <<y, x>> \in Nat \X Nat
      OBVIOUS
    <3>2. ~ (y < x)
      BY <1>1, <3>1 DEF OpToRel
    <3>3. QED
      BY <3>2
  <2>2. QED
    BY <2>1
<1>3. QED
  BY ZenonT(40), <1>2 DEF Min

(* The slots are finitely many.                                             *)
LEMMA UsedFinite == IsFiniteSet(UsedSlots) /\ Cardinality(UsedSlots) \in Nat
<1>1. IsFiniteSet(HandleSlots)
  BY ProcessObjectAssumption, FS_Interval DEF HandleSlots
<1>2. QED
  BY <1>1, FS_Subset, FS_CardinalityType DEF UsedSlots

(* The slot alloc takes exists and is free.                                 *)
LEMMA AllocSlotFree ==
    ASSUME ProcessInv, FreeAt # {}
    PROVE  LET idx == (po_next + Min(FreeAt)) % MAX_PROC_HANDLES
           IN  idx \in HandleSlots /\ po_handles[idx] = PoNone
<1>1. FreeAt \subseteq Nat
  BY ProcessObjectAssumption DEF FreeAt, HandleSlots
<1>2. Min(FreeAt) \in FreeAt
  BY ZenonT(40), <1>1, MinOfNaturals
<1>3. po_next \in Nat /\ Min(FreeAt) \in Nat
  BY <1>1, <1>2, ProcessObjectAssumption DEF ProcessInv, ProcessObjectTypeOK, HandleSlots
<1> DEFINE k == Min(FreeAt)
<1>4. po_handles[(po_next + k) % MAX_PROC_HANDLES] = PoNone
  BY ZenonT(40), <1>2 DEF FreeAt
<1>5. (po_next + k) % MAX_PROC_HANDLES \in HandleSlots
  <2> HIDE DEF k
  <2>1. po_next + k \in Nat
    BY <1>3 DEF k
  <2>2. QED
    BY <2>1, ProcessObjectAssumption DEF HandleSlots
<1>6. QED
  BY <1>4, <1>5

(* A new process holds nothing and has not exited.                          *)
LEMMA ProcessStarts == ProcessObjectInit => ProcessInv
<1>1. SUFFICES ASSUME ProcessObjectInit PROVE ProcessInv
  OBVIOUS
<1>2. UsedSlots = {}
  BY <1>1 DEF ProcessObjectInit, UsedSlots
<1>3. po_count = Cardinality(UsedSlots)
  BY <1>1, <1>2, FS_EmptySet DEF ProcessObjectInit
<1>4. /\ po_held \in [HandleValues -> HandleEntry \cup {PoNone}]
      /\ \A h \in HandleValues : po_held[h] = po_handles[h - 1]
  BY <1>1, ProcessObjectAssumption DEF ProcessObjectInit, HandleValues, HandleSlots
<1>5. po_threads \in Seq(PoThreads) /\ Len(po_threads) <= MAX_THREADS_PER_PROCESS
  BY <1>1, ProcessObjectAssumption DEF ProcessObjectInit
<1>6. po_next \in HandleSlots
  BY <1>1, ProcessObjectAssumption DEF ProcessObjectInit, HandleSlots
<1>7. QED
  BY SMTT(40), <1>1, <1>3, <1>4, <1>5, <1>6
  DEF ProcessObjectInit, ProcessInv, ProcessObjectTypeOK, UsedSlots, ExitedHasCode

(* alloc fills one free slot and counts it.                                 *)
LEMMA AllocStep ==
    ASSUME ProcessInv, NEW entry \in HandleEntry, alloc(entry)
    PROVE  ProcessInv'
<1> DEFINE idx == (po_next + Min(FreeAt)) % MAX_PROC_HANDLES
<1>1. idx \in HandleSlots /\ po_handles[idx] = PoNone
  BY AllocSlotFree DEF alloc
<1>2. /\ po_handles' = [po_handles EXCEPT ![idx] = entry]
      /\ po_next' = (idx + 1) % MAX_PROC_HANDLES
      /\ po_count' = po_count + 1
      /\ po_held' = [po_held EXCEPT ![idx + 1] = entry]
      /\ UNCHANGED <<po_threads, lifeVars>>
  BY DEF alloc
<1> HIDE DEF idx
<1>3. UsedSlots' = UsedSlots \cup {idx} /\ idx \notin UsedSlots
  BY <1>1, <1>2, ProcessObjectAssumption DEF UsedSlots, ProcessInv, ProcessObjectTypeOK
<1>4. po_count' = Cardinality(UsedSlots')
  BY ZenonT(40), <1>2, <1>3, UsedFinite, FS_AddElement DEF ProcessInv, ProcessObjectTypeOK, UsedSlots
<1>5. po_next' \in HandleSlots
  BY <1>1, <1>2, ProcessObjectAssumption DEF HandleSlots
<1>6. /\ po_held' \in [HandleValues -> HandleEntry \cup {PoNone}]
      /\ \A h \in HandleValues : po_held'[h] = po_handles'[h - 1]
  <2>1. idx + 1 \in HandleValues /\ idx \in Int
    BY <1>1, ProcessObjectAssumption DEF HandleValues, HandleSlots
  <2>2. ASSUME NEW h \in HandleValues PROVE po_held'[h] = po_handles'[h - 1]
    <3>1. h \in Int /\ h - 1 \in HandleSlots /\ (h = idx + 1 <=> h - 1 = idx)
      BY <2>1, ProcessObjectAssumption DEF HandleValues, HandleSlots
    <3>2. QED
      BY <1>1, <1>2, <2>1, <3>1 DEF ProcessInv, ProcessObjectTypeOK
  <2>3. QED
    BY <1>2, <2>1, <2>2 DEF ProcessInv
<1>7. po_handles' \in [HandleSlots -> HandleEntry \cup {PoNone}]
  BY ZenonT(40), <1>2 DEF ProcessInv, ProcessObjectTypeOK
<1>8. QED
  BY <1>2, <1>4, <1>5, <1>6, <1>7
  DEF ProcessInv, ProcessObjectTypeOK, UsedSlots, ExitedHasCode, lifeVars

(* free empties one slot in use and counts it off.                          *)
LEMMA FreeStep ==
    ASSUME ProcessInv, NEW h \in HandleValues, free(h)
    PROVE  ProcessInv'
<1>1. h - 1 \in HandleSlots /\ h \in Int
  BY ProcessObjectAssumption DEF HandleValues, HandleSlots
<1>2. UsedSlots' = UsedSlots \ {h - 1} /\ h - 1 \in UsedSlots
  BY <1>1 DEF free, handle_get, UsedSlots, ProcessInv, ProcessObjectTypeOK
<1>3. po_count' = Cardinality(UsedSlots')
  <2>1. Cardinality(UsedSlots \ {h - 1}) = Cardinality(UsedSlots) - 1
    BY SMTT(40), <1>2, UsedFinite, FS_RemoveElement
  <2>2. po_count = Cardinality(UsedSlots) /\ po_count' = po_count - 1
    BY DEF free, ProcessInv, ProcessObjectTypeOK, UsedSlots
  <2>3. QED
    BY <1>2, <2>1, <2>2
<1>4. /\ po_held' \in [HandleValues -> HandleEntry \cup {PoNone}]
      /\ \A k \in HandleValues : po_held'[k] = po_handles'[k - 1]
  <2>1. ASSUME NEW k \in HandleValues PROVE po_held'[k] = po_handles'[k - 1]
    <3>1. k \in Int /\ k - 1 \in HandleSlots /\ (k = h <=> k - 1 = h - 1)
      BY <1>1, ProcessObjectAssumption DEF HandleValues, HandleSlots
    <3>2. QED
      BY <1>1, <3>1 DEF free, ProcessInv, ProcessObjectTypeOK
  <2>2. QED
    BY <2>1 DEF free, ProcessInv
<1>5. po_handles' \in [HandleSlots -> HandleEntry \cup {PoNone}]
  BY ZenonT(40) DEF free, ProcessInv, ProcessObjectTypeOK
<1>6. QED
  BY <1>3, <1>4, <1>5
  DEF free, ProcessInv, ProcessObjectTypeOK, UsedSlots, ExitedHasCode, lifeVars

(* Removing a thread shortens the list by one.                              *)
LEMMA RemoveThreadStep ==
    ASSUME ProcessInv, NEW t \in PoThreads, remove_thread_of(t)
    PROVE  po_threads' \in Seq(PoThreads) /\ Len(po_threads') <= MAX_THREADS_PER_PROCESS
<1> DEFINE hits == {i \in 1 .. Len(po_threads) : po_threads[i] = t}
           k == Min(hits)
<1>1. po_threads \in Seq(PoThreads) /\ Len(po_threads) \in Nat
  BY LenProperties DEF ProcessInv
<1>2. hits # {} /\ hits \subseteq Nat
  BY <1>1 DEF remove_thread_of, Contains
<1>3. k \in 1 .. Len(po_threads)
  BY ZenonT(40), <1>2, MinOfNaturals
<1>4. po_threads' = SubSeq(po_threads, 1, k - 1) \o SubSeq(po_threads, k + 1, Len(po_threads))
  BY DEF remove_thread_of, RemoveAt
<1> HIDE DEF k, hits
<1>5. \A i \in 1 .. Len(po_threads) : po_threads[i] \in PoThreads
  BY <1>1, ElementOfSeq
<1>6. /\ SubSeq(po_threads, 1, k - 1) \in Seq(PoThreads)
      /\ Len(SubSeq(po_threads, 1, k - 1)) = k - 1
  BY <1>1, <1>3, <1>5, SubSeqProperties
<1>7. /\ SubSeq(po_threads, k + 1, Len(po_threads)) \in Seq(PoThreads)
      /\ Len(SubSeq(po_threads, k + 1, Len(po_threads))) = Len(po_threads) - k
  BY <1>1, <1>3, <1>5, SubSeqProperties
<1>8. po_threads' \in Seq(PoThreads) /\ Len(po_threads') = Len(po_threads) - 1
  <2> DEFINE front == SubSeq(po_threads, 1, k - 1)
             back  == SubSeq(po_threads, k + 1, Len(po_threads))
  <2>1. front \in Seq(PoThreads) /\ back \in Seq(PoThreads)
    BY <1>6, <1>7
  <2>2. Len(front) = k - 1 /\ Len(back) = Len(po_threads) - k
    BY <1>6, <1>7
  <2>3. po_threads' = front \o back
    BY <1>4
  <2> HIDE DEF front, back
  <2>4. front \o back \in Seq(PoThreads) /\ Len(front \o back) = Len(front) + Len(back)
    BY <2>1, ConcatProperties
  <2>5. QED
    BY <1>1, <1>3, <2>2, <2>3, <2>4
<1>9. QED
  BY <1>1, <1>8, ProcessObjectAssumption DEF ProcessInv, ProcessObjectTypeOK

(* Every operation keeps the invariant.                                     *)
LEMMA ProcessStep == ProcessInv /\ [ProcessObjectNext]_processVars => ProcessInv'
<1> SUFFICES ASSUME ProcessInv, [ProcessObjectNext]_processVars PROVE ProcessInv'
  OBVIOUS
<1>1. ASSUME NEW entry \in HandleEntry, alloc(entry) PROVE ProcessInv'
  BY <1>1, AllocStep
<1>2. ASSUME NEW h \in HandleValues, free(h) PROVE ProcessInv'
  BY <1>2, FreeStep
<1> USE DEF ProcessInv, ProcessObjectTypeOK, ExitedHasCode, handleVars, lifeVars
<1>3. ASSUME NEW t \in PoThreads, add_thread_of(t) PROVE ProcessInv'
  <2>1. po_threads' \in Seq(PoThreads) /\ Len(po_threads') = Len(po_threads) + 1
    BY <1>3, AppendProperties DEF add_thread_of
  <2>2. Len(po_threads') <= MAX_THREADS_PER_PROCESS
    BY <1>3, <2>1, LenProperties, ProcessObjectAssumption DEF add_thread_of
  <2>3. QED
    BY <1>3, <2>1, <2>2 DEF add_thread_of
<1>4. ASSUME NEW t \in PoThreads, remove_thread_of(t) PROVE ProcessInv'
  <2>1. po_threads' \in Seq(PoThreads) /\ Len(po_threads') <= MAX_THREADS_PER_PROCESS
    BY <1>4, RemoveThreadStep
  <2>2. QED
    BY <1>4, <2>1 DEF remove_thread_of
<1>5. ASSUME NEW state \in {"Running", "Dead"}, set_state_of(state) PROVE ProcessInv'
  BY <1>5 DEF set_state_of
<1>6. ASSUME NEW c \in PoCallers, NEW code \in Codes, exit(c, code) PROVE ProcessInv'
  BY <1>6, ProcessObjectAssumption DEF exit
<1>7. ASSUME NEW c \in PoCallers, exit_state(c) PROVE ProcessInv'
  BY <1>7 DEF exit_state
<1>8. CASE UNCHANGED processVars
  BY <1>8 DEF processVars
<1>9. QED
  BY ZenonT(40), <1>1, <1>2, <1>3, <1>4, <1>5, <1>6, <1>7, <1>8 DEF ProcessObjectNext

(* The handle table is well formed and its count exact: alloc never writes  *)
(* over a handle in use, wherever its rotating index stands.                *)
THEOREM HandlesAlwaysCounted == ProcessObjectSpec => []ProcessObjectTypeOK
<1>1. ProcessInv => ProcessObjectTypeOK
  BY DEF ProcessInv
<1>2. QED
  BY <1>1, ProcessStarts, ProcessStep, PTL DEF ProcessObjectSpec

(* A handle value resolves to what alloc gave it out for, and to nothing    *)
(* once it is freed; check_rights grants no right the entry does not have.  *)
THEOREM HandlesAlwaysResolve == ProcessObjectSpec => []HandlesResolve
<1>1. ProcessInv => HandlesResolve
  <2> SUFFICES ASSUME ProcessInv, NEW h \in HandleValues
               PROVE  /\ handle_get(h) = po_held[h]
                      /\ \A r \in PoRights : check_rights(h, {r}) =>
                            po_held[h] # PoNone /\ r \in po_held[h].rights
    BY DEF HandlesResolve
  <2>1. handle_get(h) = po_held[h]
    BY ProcessObjectAssumption DEF ProcessInv, handle_get, HandleValues, HandleSlots
  <2>2. ASSUME NEW r \in PoRights, check_rights(h, {r})
        PROVE  po_held[h] # PoNone /\ r \in po_held[h].rights
    BY <2>1, <2>2 DEF check_rights
  <2>3. QED
    BY <2>1, <2>2
<1>2. QED
  BY <1>1, ProcessStarts, ProcessStep, PTL DEF ProcessObjectSpec

(* A process that is exiting or dead has its return code, with any number   *)
(* of callers between the two locks of exit.                                *)
THEOREM ExitedAlwaysHasCode == ProcessObjectSpec => []ExitedHasCode
<1>1. ProcessInv => ExitedHasCode
  BY DEF ProcessInv
<1>2. QED
  BY <1>1, ProcessStarts, ProcessStep, PTL DEF ProcessObjectSpec
=============================================================================
