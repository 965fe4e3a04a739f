------------------------- MODULE DstcCallbacksProof -------------------------
(***************************************************************************)
(* Proofs about DstcCallbacks, for a table of any size, any functions and  *)
(* any number of activations, in a program with one thread. With two, an   *)
(* activation and another operation can meet in a slot, and two of them    *)
(* can move the index past the table: none of these theorems holds for     *)
(* more threads. The run callbacks_threads refutes NothingLost.            *)
(***************************************************************************)
EXTENDS DstcCallbacks, FiniteSetTheorems, WellFoundedInduction, TLAPS

USE SlotsAssumption, NilAssumption

\* Where a thread that activates a callback looks at its slot or has chosen it.
Using == {"look", "ref", "callback", "test", "load", "store"}

\* The slot is in the table, there is something to write, and nothing has moved the
\* index since the thread compared its slot with it.
InTable ==
    \A t \in Threads :
        /\ pc[t] \in Using => ind[t] < Slots
        /\ pc[t] # "idle" => func[t] \in Funcs
        /\ pc[t] \in {"load", "store"} => ind[t] = callback_ind
        /\ pc[t] = "store" => count[t] = callback_ind

TypeInv == TypeOK /\ InTable

---------------------------------------------------------------------------
(* The slots that lookups find.                                            *)

LEMMA LeastElement ==
    ASSUME NEW S, S \subseteq Nat, S # {}
    PROVE  \E i \in S : \A j \in S : i <= j
  <1>1. PICK i \in S : \A j \in S : ~ (<<j, i>> \in OpToRel(<, Nat))
    BY NatLessThanWellFounded, WFMin
  <1>2. \A j \in S : ~ (j < i)
    BY <1>1 DEF OpToRel
  <1> QED
    BY <1>2

LEMMA FirstType ==
    ASSUME NEW match, match \subseteq Nat, match # {}
    PROVE  First(match) \in match
  BY LeastElement DEF First

\* The slot that dstc_register_callback_server() takes is free, or there is none.
LEMMA FreeSlotFound ==
    ASSUME TypeOK, NEW slot \in 0..callback_ind, FreeSlot(slot)
    PROVE  /\ slot = Slots => \A i \in Index : callback[i] # Nil
           /\ slot # Slots => /\ slot \in Index
                              /\ slot < callback_ind => callback[slot] = Nil
  <1>1. callback_ind \in 0..Slots
    BY DEF TypeOK
  <1>2. ASSUME slot = Slots, NEW i \in Index
        PROVE  callback[i] # Nil
    <2>1. TRUE \in Found(i)
      BY <1>2 DEF FreeSlot, Index
    <2> QED
      BY <1>2, <2>1 DEF Found
  <1>3. ASSUME slot # Slots
        PROVE  slot \in Index /\ (slot < callback_ind => callback[slot] = Nil)
    <2>1. slot \in Index
      BY <1>1, <1>3 DEF Index
    <2>2. slot < callback_ind => FALSE \in Found(slot)
      BY DEF FreeSlot
    <2> QED
      BY <2>1, <2>2 DEF Found
  <1> QED
    BY <1>2, <1>3

---------------------------------------------------------------------------
(* Types.                                                                  *)

LEMMA TakeSlotType ==
    ASSUME TypeOK, NEW i \in Index, TakeSlot(i)
    PROVE  /\ ref' \in [Index -> Funcs \cup {Nil}]
           /\ callback' \in [Index -> Funcs \cup {Nil}]
           /\ taken' \in [Funcs -> Nat]
  <1>1. ref' \in [Index -> Funcs \cup {Nil}] /\ callback' \in [Index -> Funcs \cup {Nil}]
    BY DEF TypeOK, TakeSlot
  <1>2. taken' \in [Funcs -> Nat]
    <2>1. callback[i] = Nil \/ callback[i] \in Funcs
      BY DEF TypeOK
    <2> QED
      BY <2>1 DEF TypeOK, TakeSlot
  <1> QED
    BY <1>1, <1>2

\* A step that only moves a thread on keeps the types if its place does.
LEMMA ActivationType ==
    ASSUME NEW t, Threads = {t}, TypeInv,
           \/ \E f \in Funcs : Activate(t, f)
           \/ Scan(t) \/ Look(t) \/ ScanEnds(t) \/ WriteRef(t) \/ WriteCallback(t)
           \/ Reused(t) \/ Allocated(t) \/ LoadIndex(t) \/ StoreIndex(t)
    PROVE  TypeInv'
  <1> USE DEF TypeInv, TypeOK, InTable, Using, Goto, tableVars, historyVars
  <1>1. ASSUME NEW f \in Funcs, Activate(t, f)
        PROVE  TypeInv'
    BY <1>1 DEF Activate
  <1>2. CASE Scan(t)
    BY <1>2 DEF Scan
  <1>3. CASE Look(t)
    <2>1. pc[t] = "look" /\ ind[t] < Slots /\ ind[t] \in Index
      BY <1>3 DEF Look, Index
    <2>2. UNCHANGED <<tableVars, func, count, exited, historyVars>>
      BY <1>3 DEF Look
    <2>3. \/ ind' = [ind EXCEPT ![t] = @ + 1] /\ pc' = [pc EXCEPT ![t] = "scan"]
          \/ pc' = [pc EXCEPT ![t] = "ref"] /\ UNCHANGED ind
      BY <1>3 DEF Look
    <2> QED
      BY <2>1, <2>2, <2>3
  <1>4. CASE ScanEnds(t)
    <2>1. pc[t] = "scan" /\ UNCHANGED <<tableVars, func, ind, count, historyVars>>
      BY <1>4 DEF ScanEnds
    <2>2. CASE exited' = TRUE /\ UNCHANGED pc
      <3>1. exited' \in BOOLEAN
        BY <2>2
      <3> QED
        BY <2>1, <2>2, <3>1
    <2>3. CASE ind[t] # Slots /\ Goto(t, "ref") /\ UNCHANGED exited
      BY <2>1, <2>3
    <2> QED
      BY <1>4, <2>2, <2>3 DEF ScanEnds
  <1>5. CASE WriteRef(t)
    BY <1>5 DEF WriteRef, Index
  <1>6. CASE WriteCallback(t)
    BY <1>6 DEF WriteCallback, Index
  <1>7. CASE Reused(t)
    BY <1>7 DEF Reused, Returned
  <1>8. CASE Allocated(t)
    BY <1>8 DEF Allocated
  <1>9. CASE LoadIndex(t)
    BY <1>9 DEF LoadIndex
  <1>10. CASE StoreIndex(t)
    BY <1>10 DEF StoreIndex, Returned
  <1> QED
    BY <1>1, <1>2, <1>3, <1>4, <1>5, <1>6, <1>7, <1>8, <1>9, <1>10

LEMMA LockedType ==
    ASSUME NEW t, Threads = {t}, TypeInv, NEW f \in Funcs,
           \/ dstc_register_callback_server(t, f)
           \/ dstc_cancel_callback(t, f)
           \/ Reply(t, f)
    PROVE  TypeInv'
  <1>1. CASE dstc_register_callback_server(t, f)
    <2>1. PICK slot \in 0..callback_ind :
             /\ FreeSlot(slot) /\ pc[t] = "idle" /\ UNCHANGED threadVars
             /\ \/ exited' = TRUE /\ UNCHANGED <<tableVars, historyVars>>
                \/ /\ slot # Slots
                   /\ ref' = [ref EXCEPT ![slot] = f]
                   /\ callback' = [callback EXCEPT ![slot] = f]
                   /\ callback_ind' = IF slot = callback_ind THEN slot + 1 ELSE callback_ind
                   /\ activated' = [activated EXCEPT ![f] = @ + 1]
                   /\ UNCHANGED <<exited, taken>>
      BY <1>1 DEF dstc_register_callback_server
    <2>2. CASE exited' = TRUE /\ UNCHANGED <<tableVars, historyVars>>
      BY <2>1, <2>2 DEF TypeInv, TypeOK, InTable, Using, tableVars, threadVars, historyVars
    <2>3. ASSUME slot # Slots
          PROVE  slot \in Index
      BY <2>1, <2>3, FreeSlotFound DEF TypeInv
    <2>4. CASE /\ slot # Slots
               /\ ref' = [ref EXCEPT ![slot] = f]
               /\ callback' = [callback EXCEPT ![slot] = f]
               /\ callback_ind' = IF slot = callback_ind THEN slot + 1 ELSE callback_ind
               /\ activated' = [activated EXCEPT ![f] = @ + 1]
               /\ UNCHANGED <<exited, taken>>
      <3>1. callback_ind' \in 0..Slots
        BY <2>3, <2>4 DEF TypeInv, TypeOK, Index
      <3>2. /\ ref' \in [Index -> Funcs \cup {Nil}]
            /\ callback' \in [Index -> Funcs \cup {Nil}]
        BY <2>3, <2>4 DEF TypeInv, TypeOK
      <3>3. activated' \in [Funcs -> Nat] /\ UNCHANGED <<exited, taken>>
        BY <2>4 DEF TypeInv, TypeOK
      <3> QED
        BY <2>1, <3>1, <3>2, <3>3 DEF TypeInv, TypeOK, InTable, Using, threadVars
    <2> QED
      BY <2>1, <2>2, <2>4
  <1>2. ASSUME NEW i \in Index, TakeSlot(i),
               UNCHANGED <<callback_ind, threadVars, exited, activated>>
        PROVE  TypeInv'
    BY <1>2, TakeSlotType DEF TypeInv, TypeOK, InTable, Using, threadVars
  <1>3. ASSUME NEW match, match \subseteq Visible, match # {}
        PROVE  First(match) \in Index
    <2>1. match \subseteq Nat /\ match \subseteq Index
      BY <1>3 DEF Visible, Index
    <2> QED
      BY <1>3, <2>1, FirstType
  <1>4. CASE dstc_cancel_callback(t, f)
    BY <1>2, <1>3, <1>4 DEF dstc_cancel_callback
  <1>5. CASE Reply(t, f)
    BY <1>2, <1>3, <1>5 DEF Reply
  <1> QED
    BY <1>1, <1>4, <1>5

LEMMA TypeInvariant ==
    ASSUME NEW t, Threads = {t}
    PROVE  Spec => []TypeInv
  <1>1. Init => TypeInv
    <2> SUFFICES ASSUME Init
                 PROVE  TypeInv
      OBVIOUS
    <2>1. /\ ref \in [Index -> Funcs \cup {Nil}] /\ callback \in [Index -> Funcs \cup {Nil}]
          /\ callback_ind \in 0..Slots
      BY DEF Init
    <2>2. /\ pc \in [Threads -> {"idle"}]
          /\ func \in [Threads -> {Nil}]
          /\ ind \in [Threads -> {0}]
          /\ count \in [Threads -> {0}]
      BY DEF Init
    <2>3. /\ activated \in [Funcs -> Nat] /\ taken \in [Funcs -> Nat]
          /\ exited \in BOOLEAN
      BY DEF Init
    <2>4. TypeOK
      BY <2>1, <2>2, <2>3 DEF TypeOK
    <2>5. InTable
      BY <2>2 DEF InTable, Using
    <2> QED
      BY <2>4, <2>5 DEF TypeInv
  <1>2. TypeInv /\ [Next]_vars => TypeInv'
    <2>1. TypeInv /\ UNCHANGED vars => TypeInv'
      BY DEF vars, tableVars, threadVars, historyVars, TypeInv, TypeOK, InTable
    <2>2. TypeInv /\ Next => TypeInv'
      BY ActivationType, LockedType DEF Next
    <2> QED
      BY <2>1, <2>2
  <1> QED
    BY <1>1, <1>2, PTL DEF Spec

\* With one thread every variable keeps its type: the index stays within the table,
\* however full it is. It stands on TypeInv: the slot is in the table, and the index is
\* the one the slot was compared with until it is incremented.
THEOREM TypeCorrect ==
    ASSUME NEW t, Threads = {t}
    PROVE  Spec => []TypeOK
  <1>1. TypeInv => TypeOK
    BY DEF TypeInv
  <1> QED
    BY <1>1, TypeInvariant, PTL

\* With one thread no slot outside of the table is looked at or written.
THEOREM IndexInTableCorrect ==
    ASSUME NEW t, Threads = {t}
    PROVE  Spec => []IndexInTable
  <1>1. TypeInv => IndexInTable
    BY DEF TypeInv, TypeOK, InTable, Using, IndexInTable, Index
  <1> QED
    BY <1>1, TypeInvariant, PTL

---------------------------------------------------------------------------
(* What the table holds while the thread activates a callback.             *)

\* Where it has written its slot and may have to count it.
Counting == {"test", "load", "store"}

\* A slot it is writing has its reference first; a slot past the index is free until
\* the thread has written it, and then about to be counted.
SlotsAgree(t) ==
    \A i \in Index :
        /\ ~(pc[t] = "callback" /\ i = ind[t]) => ref[i] = callback[i]
        /\ i >= callback_ind /\ ~(pc[t] \in Counting /\ i = ind[t]) => callback[i] = Nil

\* The search has passed over slots that are in use and ends at one that is free.
SearchAgrees(t) ==
    /\ pc[t] # "idle" => ind[t] <= callback_ind
    /\ pc[t] = "look" => ind[t] < callback_ind
    /\ pc[t] \in {"scan", "look"} => \A i \in Index : i < ind[t] => callback[i] # Nil
    /\ pc[t] \in {"ref", "callback"} => callback[ind[t]] = Nil
    /\ pc[t] = "callback" => ref[ind[t]] = func[t]
    /\ pc[t] \in Counting => callback[ind[t]] = func[t]

FullAtExit == exited => \A i \in Index : callback[i] # Nil

Places(t) == SlotsAgree(t) /\ SearchAgrees(t) /\ FullAtExit

LEMMA PlacesActivation ==
    ASSUME NEW t, Threads = {t}, TypeInv, Places(t),
           \/ \E f \in Funcs : Activate(t, f)
           \/ Scan(t) \/ Look(t) \/ ScanEnds(t) \/ WriteRef(t) \/ WriteCallback(t)
           \/ Reused(t) \/ Allocated(t) \/ LoadIndex(t) \/ StoreIndex(t)
    PROVE  Places(t)'
  <1> USE DEF TypeInv, TypeOK, InTable, Using, Counting, Places, SlotsAgree, SearchAgrees,
              FullAtExit, Goto, Index, tableVars, historyVars
  <1>1. ASSUME NEW f \in Funcs, Activate(t, f)
        PROVE  Places(t)'
    BY <1>1 DEF Activate
  <1>2. CASE Scan(t)
    BY <1>2 DEF Scan
  <1>3. CASE Look(t)
    <2>1. pc[t] = "look" /\ UNCHANGED <<tableVars, func, count, exited, historyVars>>
      BY <1>3 DEF Look
    <2>2. \/ /\ callback[ind[t]] # Nil
             /\ ind' = [ind EXCEPT ![t] = @ + 1] /\ pc' = [pc EXCEPT ![t] = "scan"]
          \/ /\ callback[ind[t]] = Nil
             /\ pc' = [pc EXCEPT ![t] = "ref"] /\ UNCHANGED ind
      <3>1. ind[t] \in Index
        BY <2>1
      <3>2. Found(ind[t]) = {callback[ind[t]] # Nil}
        BY <3>1, Zenon DEF Found
      <3> QED
        BY <1>3, <3>2 DEF Look
    <2> QED
      BY SMTT(30), <2>1, <2>2
  <1>4. CASE ScanEnds(t)
    BY <1>4 DEF ScanEnds
  <1>5. CASE WriteRef(t)
    BY <1>5 DEF WriteRef
  <1>6. CASE WriteCallback(t)
    BY <1>6 DEF WriteCallback
  <1>7. CASE Reused(t)
    BY <1>7 DEF Reused, Returned
  <1>8. CASE Allocated(t)
    BY <1>8 DEF Allocated
  <1>9. CASE LoadIndex(t)
    BY <1>9 DEF LoadIndex
  <1>10. CASE StoreIndex(t)
    BY <1>10 DEF StoreIndex, Returned
  <1> QED
    BY <1>1, <1>2, <1>3, <1>4, <1>5, <1>6, <1>7, <1>8, <1>9, <1>10

\* What the operations under the lock do, seen from the slot they use: one that is free
\* is filled, or one that is in use is emptied, or the process exits, with none free.
LEMMA LockedStep ==
    ASSUME NEW t, Threads = {t}, TypeInv, Places(t), NEW f \in Funcs,
           \/ dstc_register_callback_server(t, f)
           \/ dstc_cancel_callback(t, f)
           \/ Reply(t, f)
    PROVE  /\ pc[t] = "idle" /\ ~exited /\ UNCHANGED threadVars
           /\ \/ /\ exited' = TRUE /\ UNCHANGED <<tableVars, historyVars>>
                 /\ \A i \in Index : callback[i] # Nil
              \/ \E i \in Index :
                    /\ callback[i] = Nil /\ i <= callback_ind
                    /\ ref' = [ref EXCEPT ![i] = f]
                    /\ callback' = [callback EXCEPT ![i] = f]
                    /\ callback_ind' = IF i = callback_ind THEN i + 1 ELSE callback_ind
                    /\ activated' = [activated EXCEPT ![f] = @ + 1]
                    /\ UNCHANGED <<exited, taken>>
              \/ \E i \in Index :
                    /\ callback[i] = f
                    /\ ref' = [ref EXCEPT ![i] = Nil]
                    /\ callback' = [callback EXCEPT ![i] = Nil]
                    /\ taken' = [taken EXCEPT ![f] = @ + 1]
                    /\ UNCHANGED <<callback_ind, exited, activated>>
  <1>1. CASE dstc_register_callback_server(t, f)
    <2>1. PICK slot \in 0..callback_ind :
             /\ FreeSlot(slot) /\ ~exited /\ pc[t] = "idle" /\ UNCHANGED threadVars
             /\ \/ slot = Slots /\ exited' = TRUE /\ UNCHANGED <<tableVars, historyVars>>
                \/ /\ slot # Slots
                   /\ ref' = [ref EXCEPT ![slot] = f]
                   /\ callback' = [callback EXCEPT ![slot] = f]
                   /\ callback_ind' = IF slot = callback_ind THEN slot + 1 ELSE callback_ind
                   /\ activated' = [activated EXCEPT ![f] = @ + 1]
                   /\ UNCHANGED <<exited, taken>>
      BY <1>1 DEF dstc_register_callback_server
    <2>2. CASE slot = Slots
      <3>1. \A i \in Index : callback[i] # Nil
        BY <2>1, <2>2, FreeSlotFound DEF TypeInv
      <3> QED
        BY <2>1, <2>2, <3>1
    <2>3. CASE slot # Slots
      <3>1. slot \in Index /\ (slot < callback_ind => callback[slot] = Nil)
        BY <2>1, <2>3, FreeSlotFound DEF TypeInv
      <3>2. slot <= callback_ind
        BY DEF TypeInv, TypeOK
      <3>3. callback[slot] = Nil
        BY <2>1, <3>1, <3>2 DEF Places, SlotsAgree, Counting, TypeInv, TypeOK, Index
      <3> QED
        BY <2>1, <2>3, <3>1, <3>2, <3>3
    <2> QED
      BY <2>2, <2>3
  <1>2. ASSUME NEW i \in Index, callback[i] = f, TakeSlot(i)
        PROVE  /\ ref' = [ref EXCEPT ![i] = Nil]
               /\ callback' = [callback EXCEPT ![i] = Nil]
               /\ taken' = [taken EXCEPT ![f] = @ + 1]
    BY <1>2 DEF TakeSlot
  <1>3. ASSUME NEW match, match \subseteq Visible, match # {}
        PROVE  First(match) \in match /\ First(match) \in Index
    <2>1. match \subseteq Nat /\ match \subseteq Index
      BY <1>3 DEF Visible, Index
    <2> QED
      BY <1>3, <2>1, FirstType
  <1>4. CASE dstc_cancel_callback(t, f)
    <2> DEFINE i == First({j \in Visible : callback[j] = f})
    <2>1. /\ pc[t] = "idle" /\ ~exited
          /\ {j \in Visible : callback[j] = f} # {} /\ TakeSlot(i)
          /\ UNCHANGED <<callback_ind, threadVars, exited, activated>>
      BY <1>4 DEF dstc_cancel_callback
    <2>2. i \in Index /\ callback[i] = f
      BY <2>1, <1>3
    <2> QED
      BY <1>2, <2>1, <2>2
  <1>5. CASE Reply(t, f)
    <2> DEFINE i == First({j \in Visible : ref[j] = f})
    <2>1. /\ pc[t] = "idle" /\ ~exited
          /\ {j \in Visible : ref[j] = f} # {} /\ TakeSlot(i)
          /\ UNCHANGED <<callback_ind, threadVars, exited, activated>>
      BY <1>5 DEF Reply
    <2>2. i \in Index /\ ref[i] = f
      BY <2>1, <1>3
    <2>3. callback[i] = f
      BY <2>1, <2>2 DEF Places, SlotsAgree
    <2> QED
      BY <1>2, <2>1, <2>2, <2>3
  <1> QED
    BY <1>1, <1>4, <1>5

LEMMA PlacesLocked ==
    ASSUME NEW t, Threads = {t}, TypeInv, Places(t), NEW f \in Funcs,
           \/ dstc_register_callback_server(t, f)
           \/ dstc_cancel_callback(t, f)
           \/ Reply(t, f)
    PROVE  Places(t)'
  <1>1. pc[t] = "idle" /\ ~exited /\ UNCHANGED <<pc, func, ind>>
    BY LockedStep DEF threadVars
  <1>2. CASE /\ exited' = TRUE /\ UNCHANGED <<tableVars, historyVars>>
             /\ \A i \in Index : callback[i] # Nil
    BY <1>1, <1>2 DEF Places, SlotsAgree, SearchAgrees, Counting, FullAtExit, tableVars
  <1>3. ASSUME NEW i \in Index, i <= callback_ind, UNCHANGED exited,
               ref' = [ref EXCEPT ![i] = f], callback' = [callback EXCEPT ![i] = f],
               callback_ind' = IF i = callback_ind THEN i + 1 ELSE callback_ind
        PROVE  Places(t)'
    BY <1>1, <1>3 DEF Places, SlotsAgree, SearchAgrees, Counting, FullAtExit, TypeInv, TypeOK, Index
  <1>4. ASSUME NEW i \in Index, UNCHANGED <<callback_ind, exited>>,
               ref' = [ref EXCEPT ![i] = Nil], callback' = [callback EXCEPT ![i] = Nil]
        PROVE  Places(t)'
    BY <1>1, <1>4 DEF Places, SlotsAgree, SearchAgrees, Counting, FullAtExit, TypeInv, TypeOK, Index
  <1> QED
    BY <1>2, <1>3, <1>4, LockedStep

LEMMA PlacesInvariant ==
    ASSUME NEW t, Threads = {t}
    PROVE  Spec => []Places(t)
  <1>1. Init => Places(t)
    BY DEF Init, Places, SlotsAgree, SearchAgrees, Counting, FullAtExit, Index
  <1>2. TypeInv /\ Places(t) /\ [Next]_vars => Places(t)'
    <2>1. Places(t) /\ UNCHANGED vars => Places(t)'
      BY DEF vars, tableVars, threadVars, historyVars, Places, SlotsAgree, SearchAgrees,
             Counting, FullAtExit
    <2>2. TypeInv /\ Places(t) /\ Next => Places(t)'
      BY PlacesActivation, PlacesLocked DEF Next
    <2> QED
      BY <2>1, <2>2
  <1> QED
    BY <1>1, <1>2, TypeInvariant, PTL DEF Spec

---------------------------------------------------------------------------
(* How often each function is in the table.                                *)

Holders(cb, f) == {i \in Index : cb[i] = f}
HeldTimes(cb, f) == Cardinality(Holders(cb, f))

LEMMA HeldTimesType ==
    ASSUME NEW cb, NEW f
    PROVE  IsFiniteSet(Holders(cb, f)) /\ HeldTimes(cb, f) \in Nat
  <1>1. IsFiniteSet(Index)
    BY FS_Interval DEF Index
  <1>2. Holders(cb, f) \in SUBSET Index
    BY DEF Holders
  <1>3. IsFiniteSet(Holders(cb, f))
    BY <1>1, <1>2, FS_Subset
  <1> QED
    BY <1>3, FS_CardinalityType DEF HeldTimes

\* A free slot is filled with v: v is held once more, all else as often as before.
LEMMA HeldTimesPut ==
    ASSUME NEW cb \in [Index -> Funcs \cup {Nil}], NEW i \in Index, cb[i] = Nil,
           NEW f \in Funcs, NEW v \in Funcs
    PROVE  HeldTimes([cb EXCEPT ![i] = v], f) = HeldTimes(cb, f) + (IF f = v THEN 1 ELSE 0)
  <1>1. CASE f = v
    <2>1. Holders([cb EXCEPT ![i] = v], f) = Holders(cb, f) \cup {i}
      BY <1>1 DEF Holders
    <2>2. i \notin Holders(cb, f)
      BY DEF Holders
    <2>3. HeldTimes([cb EXCEPT ![i] = v], f) = HeldTimes(cb, f) + 1
      <3>1. IsFiniteSet(Holders(cb, f))
        BY HeldTimesType
      <3> QED
        BY <2>1, <2>2, <3>1, FS_AddElement DEF HeldTimes
    <2> QED
      BY <1>1, <2>3
  <1>2. CASE f # v
    <2>1. Holders([cb EXCEPT ![i] = v], f) = Holders(cb, f)
      BY <1>2 DEF Holders
    <2> QED
      BY <1>2, <2>1, HeldTimesType DEF HeldTimes
  <1> QED
    BY <1>1, <1>2

\* A slot with v is emptied: v is held once less.
LEMMA HeldTimesTake ==
    ASSUME NEW cb \in [Index -> Funcs \cup {Nil}], NEW i \in Index,
           NEW v \in Funcs, cb[i] = v, NEW f \in Funcs
    PROVE  HeldTimes([cb EXCEPT ![i] = Nil], f) = HeldTimes(cb, f) - (IF f = v THEN 1 ELSE 0)
  <1>1. CASE f = v
    <2>1. Holders([cb EXCEPT ![i] = Nil], f) = Holders(cb, f) \ {i}
      BY <1>1 DEF Holders
    <2>2. i \in Holders(cb, f)
      BY <1>1 DEF Holders
    <2>3. HeldTimes([cb EXCEPT ![i] = Nil], f) = HeldTimes(cb, f) - 1
      <3>1. IsFiniteSet(Holders(cb, f))
        BY HeldTimesType
      <3> QED
        BY <2>1, <2>2, <3>1, FS_RemoveElement DEF HeldTimes
    <2> QED
      BY <1>1, <2>3
  <1>2. CASE f # v
    <2>1. Holders([cb EXCEPT ![i] = Nil], f) = Holders(cb, f)
      BY <1>2 DEF Holders
    <2> QED
      BY <1>2, <2>1, HeldTimesType DEF HeldTimes
  <1> QED
    BY <1>1, <1>2

\* An activation is counted when it returns, but in the table from the write on.
Written(t, f) == IF pc[t] \in Counting /\ func[t] = f THEN 1 ELSE 0
Balance(t) ==
    \A f \in Funcs : activated[f] + Written(t, f) = taken[f] + HeldTimes(callback, f)

LEMMA BalanceActivation ==
    ASSUME NEW t, Threads = {t}, TypeInv, Places(t), Balance(t),
           \/ \E f \in Funcs : Activate(t, f)
           \/ Scan(t) \/ Look(t) \/ ScanEnds(t) \/ WriteRef(t) \/ WriteCallback(t)
           \/ Reused(t) \/ Allocated(t) \/ LoadIndex(t) \/ StoreIndex(t)
    PROVE  Balance(t)'
  <1>1. ASSUME UNCHANGED <<callback, activated, taken>>, pc[t] \notin Counting, pc'[t] \notin Counting
        PROVE  Balance(t)'
    BY <1>1 DEF Balance, Written
  <1>2. CASE \E f \in Funcs : Activate(t, f)
    BY <1>1, <1>2 DEF Activate, Goto, Counting, TypeInv, TypeOK, tableVars, historyVars
  <1>3. CASE Scan(t)
    BY <1>1, <1>3 DEF Scan, Goto, Counting, TypeInv, TypeOK, tableVars, historyVars
  <1>4. CASE Look(t)
    BY <1>1, <1>4 DEF Look, Goto, Counting, TypeInv, TypeOK, tableVars, historyVars
  <1>5. CASE ScanEnds(t)
    BY <1>1, <1>5 DEF ScanEnds, Goto, Counting, TypeInv, TypeOK, tableVars, historyVars
  <1>6. CASE WriteRef(t)
    BY <1>1, <1>6 DEF WriteRef, Goto, Counting, TypeInv, TypeOK, historyVars
  <1>7. CASE WriteCallback(t)
    <2>1. /\ pc[t] = "callback" /\ pc'[t] = "test"
          /\ callback' = [callback EXCEPT ![ind[t]] = func[t]]
          /\ UNCHANGED <<func, activated, taken>>
      BY <1>7 DEF WriteCallback, Goto, historyVars, TypeInv, TypeOK
    <2>2. ind[t] \in Index /\ func[t] \in Funcs /\ callback[ind[t]] = Nil
      BY <2>1 DEF TypeInv, TypeOK, InTable, Using, Index, Places, SearchAgrees
    <2>3. ASSUME NEW f \in Funcs
          PROVE  activated'[f] + Written(t, f)' = taken'[f] + HeldTimes(callback', f)
      <3>1. HeldTimes(callback', f) = HeldTimes(callback, f) + (IF f = func[t] THEN 1 ELSE 0)
        <4>1. callback \in [Index -> Funcs \cup {Nil}]
          BY DEF TypeInv, TypeOK
        <4>2. HeldTimes([callback EXCEPT ![ind[t]] = func[t]], f)
                  = HeldTimes(callback, f) + (IF f = func[t] THEN 1 ELSE 0)
          BY <2>2, <4>1, HeldTimesPut, Zenon
        <4> QED
          BY <2>1, <4>2
      <3>2. Written(t, f) = 0 /\ Written(t, f)' = IF f = func[t] THEN 1 ELSE 0
        BY <2>1 DEF Written, Counting
      <3>3. activated[f] + Written(t, f) = taken[f] + HeldTimes(callback, f)
        BY DEF Balance
      <3>4. activated[f] \in Nat /\ taken[f] \in Nat /\ HeldTimes(callback, f) \in Nat
        BY HeldTimesType DEF TypeInv, TypeOK
      <3> QED
        BY <2>1, <3>1, <3>2, <3>3, <3>4
    <2> QED
      BY <2>3 DEF Balance
  <1>8. ASSUME UNCHANGED <<callback, activated, taken, func>>,
               pc[t] \in Counting, pc'[t] \in Counting
        PROVE  Balance(t)'
    BY <1>8 DEF Balance, Written
  <1>9. CASE Allocated(t)
    BY <1>8, <1>9 DEF Allocated, Goto, Counting, TypeInv, TypeOK, tableVars, historyVars
  <1>10. CASE LoadIndex(t)
    BY <1>8, <1>10 DEF LoadIndex, Goto, Counting, TypeInv, TypeOK, tableVars, historyVars
  <1>11. ASSUME pc[t] \in Counting, Returned(t), UNCHANGED <<callback, taken>>
         PROVE  Balance(t)'
    <2>1. /\ pc'[t] = "idle" /\ func[t] \in Funcs
          /\ activated' = [activated EXCEPT ![func[t]] = @ + 1]
      BY <1>11 DEF Returned, Goto, Counting, TypeInv, TypeOK, InTable
    <2>2. ASSUME NEW f \in Funcs
          PROVE  activated'[f] + Written(t, f)' = activated[f] + Written(t, f)
      BY <1>11, <2>1 DEF Written, Counting, TypeInv, TypeOK
    <2> QED
      BY <1>11, <2>2 DEF Balance
  <1>12. CASE Reused(t)
    BY <1>11, <1>12 DEF Reused, Counting, tableVars
  <1>13. CASE StoreIndex(t)
    BY <1>11, <1>13 DEF StoreIndex, Counting
  <1> QED
    BY <1>2, <1>3, <1>4, <1>5, <1>6, <1>7, <1>9, <1>10, <1>12, <1>13

LEMMA BalanceLocked ==
    ASSUME NEW t, Threads = {t}, TypeInv, Places(t), Balance(t), NEW f \in Funcs,
           \/ dstc_register_callback_server(t, f)
           \/ dstc_cancel_callback(t, f)
           \/ Reply(t, f)
    PROVE  Balance(t)'
  <1>1. pc[t] = "idle" /\ UNCHANGED <<pc, func>>
    BY LockedStep DEF threadVars
  <1>2. CASE UNCHANGED <<tableVars, historyVars>>
    BY <1>1, <1>2 DEF Balance, Written, tableVars, historyVars
  <1>3. ASSUME NEW g \in Funcs
        PROVE  /\ Written(t, g) = 0 /\ Written(t, g)' = 0
               /\ activated[g] = taken[g] + HeldTimes(callback, g)
               /\ activated[g] \in Nat /\ taken[g] \in Nat /\ HeldTimes(callback, g) \in Nat
    <2>1. Written(t, g) = 0 /\ Written(t, g)' = 0
      BY <1>1 DEF Written, Counting
    <2>2. activated[g] \in Nat /\ taken[g] \in Nat /\ HeldTimes(callback, g) \in Nat
      BY HeldTimesType DEF TypeInv, TypeOK
    <2>3. activated[g] + Written(t, g) = taken[g] + HeldTimes(callback, g)
      BY DEF Balance
    <2> QED
      BY <2>1, <2>2, <2>3
  <1>4. ASSUME NEW i \in Index, callback[i] = Nil, callback' = [callback EXCEPT ![i] = f],
               activated' = [activated EXCEPT ![f] = @ + 1], UNCHANGED taken
        PROVE  Balance(t)'
    <2>1. ASSUME NEW g \in Funcs
          PROVE  activated'[g] + Written(t, g)' = taken'[g] + HeldTimes(callback', g)
      <3>1. HeldTimes(callback', g) = HeldTimes(callback, g) + (IF g = f THEN 1 ELSE 0)
        <4>1. callback \in [Index -> Funcs \cup {Nil}]
          BY DEF TypeInv, TypeOK
        <4>2. HeldTimes([callback EXCEPT ![i] = f], g)
                  = HeldTimes(callback, g) + (IF g = f THEN 1 ELSE 0)
          BY <1>4, <4>1, HeldTimesPut, Zenon
        <4> QED
          BY <1>4, <4>2
      <3>2. activated'[g] = activated[g] + (IF g = f THEN 1 ELSE 0) /\ taken'[g] = taken[g]
        BY <1>3, <1>4 DEF TypeInv, TypeOK
      <3> QED
        BY <1>3, <3>1, <3>2
    <2> QED
      BY <2>1 DEF Balance
  <1>5. ASSUME NEW i \in Index, callback[i] = f, callback' = [callback EXCEPT ![i] = Nil],
               taken' = [taken EXCEPT ![f] = @ + 1], UNCHANGED activated
        PROVE  Balance(t)'
    <2>1. ASSUME NEW g \in Funcs
          PROVE  activated'[g] + Written(t, g)' = taken'[g] + HeldTimes(callback', g)
      <3>1. HeldTimes(callback', g) = HeldTimes(callback, g) - (IF g = f THEN 1 ELSE 0)
        <4>1. callback \in [Index -> Funcs \cup {Nil}]
          BY DEF TypeInv, TypeOK
        <4>2. HeldTimes([callback EXCEPT ![i] = Nil], g)
                  = HeldTimes(callback, g) - (IF g = f THEN 1 ELSE 0)
          BY <1>5, <4>1, HeldTimesTake, Zenon
        <4> QED
          BY <1>5, <4>2
      <3>2. taken'[g] = taken[g] + (IF g = f THEN 1 ELSE 0) /\ activated'[g] = activated[g]
        BY <1>3, <1>5 DEF TypeInv, TypeOK
      <3> QED
        BY <1>3, <3>1, <3>2
    <2> QED
      BY <2>1 DEF Balance
  <1> QED
    BY <1>2, <1>4, <1>5, LockedStep

LEMMA BalanceInvariant ==
    ASSUME NEW t, Threads = {t}
    PROVE  Spec => []Balance(t)
  <1>1. Init => Balance(t)
    <2> SUFFICES ASSUME Init, NEW f \in Funcs
                 PROVE  activated[f] + Written(t, f) = taken[f] + HeldTimes(callback, f)
      BY DEF Balance
    <2>1. Holders(callback, f) = {}
      BY DEF Init, Holders
    <2>2. HeldTimes(callback, f) = 0
      BY <2>1, FS_EmptySet DEF HeldTimes
    <2>3. Written(t, f) = 0 /\ activated[f] = 0 /\ taken[f] = 0
      BY DEF Init, Written, Counting
    <2> QED
      BY <2>2, <2>3
  <1>2. TypeInv /\ Places(t) /\ Balance(t) /\ [Next]_vars => Balance(t)'
    <2>1. Balance(t) /\ UNCHANGED vars => Balance(t)'
      BY DEF vars, tableVars, threadVars, historyVars, Balance, Written
    <2>2. TypeInv /\ Places(t) /\ Balance(t) /\ Next => Balance(t)'
      BY BalanceActivation, BalanceLocked DEF Next
    <2> QED
      BY <2>1, <2>2
  <1> QED
    BY <1>1, <1>2, TypeInvariant, PlacesInvariant, PTL DEF Spec

---------------------------------------------------------------------------
(* The properties.                                                         *)

\* Between the operations of a program with one thread every activation is in the
\* table where the lookups see it, or was taken out, once.
THEOREM NothingLostCorrect ==
    ASSUME NEW t, Threads = {t}
    PROVE  Spec => []NothingLost
  <1>1. TypeInv /\ Places(t) /\ Balance(t) => NothingLost
    <2> SUFFICES ASSUME TypeInv, Places(t), Balance(t), Quiet, NEW f \in Funcs
                 PROVE  activated[f] = taken[f] + InUse(f)
      BY DEF NothingLost
    <2>1. pc[t] = "idle"
      BY DEF Quiet
    <2>2. {i \in Visible : callback[i] = f} = Holders(callback, f)
      BY <2>1 DEF Visible, Holders, Places, SlotsAgree, Counting, TypeInv, TypeOK, Index
    <2>3. InUse(f) = HeldTimes(callback, f)
      BY <2>2 DEF InUse, HeldTimes
    <2>4. activated[f] + 0 = taken[f] + HeldTimes(callback, f)
      BY <2>1 DEF Balance, Written, Counting
    <2>5. activated[f] \in Nat
      BY DEF TypeInv, TypeOK
    <2> QED
      BY <2>3, <2>4, <2>5
  <1> QED
    BY <1>1, TypeInvariant, PlacesInvariant, BalanceInvariant, PTL

\* Then, too, a slot's reference and dispatcher belong together, and none past the
\* index is in use: a reply runs the function whose reference it carries.
THEOREM TidyCorrect ==
    ASSUME NEW t, Threads = {t}
    PROVE  Spec => []Tidy
  <1>1. Places(t) => Tidy
    BY DEF Places, SlotsAgree, Counting, Tidy, Quiet
  <1> QED
    BY <1>1, PlacesInvariant, PTL

\* The process gives up only with an outstanding callback in every slot.
THEOREM ExitOnlyWhenFullCorrect ==
    ASSUME NEW t, Threads = {t}
    PROVE  Spec => []ExitOnlyWhenFull
  <1>1. Places(t) => ExitOnlyWhenFull
    <2> SUFFICES ASSUME Places(t), exited
                 PROVE  Outstanding = Slots
      BY DEF ExitOnlyWhenFull
    <2>1. {i \in Index : callback[i] # Nil} = 0..Slots - 1
      BY DEF Places, FullAtExit, Index
    <2>2. Cardinality(0..Slots - 1) = Slots
      BY FS_Interval
    <2> QED
      BY <2>1, <2>2 DEF Outstanding
  <1> QED
    BY <1>1, PlacesInvariant, PTL
=============================================================================
