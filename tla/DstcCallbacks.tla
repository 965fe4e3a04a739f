--------------------------- MODULE DstcCallbacks ---------------------------
(***************************************************************************)
(* The table of one-shot callbacks of a DSTC client (src/dstc.c:           *)
(* local_callback, callback_ind). A program that passes                    *)
(* DSTC_CLIENT_CALLBACK_ARG(f) to a remote function activates f; the reply *)
(* that carries f's reference takes the activation out of the table and    *)
(* runs f; the program may also cancel it.                                 *)
(*                                                                         *)
(* dstc_activate_callback() takes no lock, so it is a step here for every  *)
(* access to the table or its index; the other operations hold the lock of *)
(* the context and are one action each, which an activation precedes or    *)
(* follows, though in the code it could meet them half way. A function     *)
(* stands both for the reference (the function pointer as an integer) and  *)
(* for the dispatcher generated for it. The context has been set up:       *)
(* dstc_setup_internal() empties the table.                                *)
(*                                                                         *)
(* Threads that race can move the index past the table. The model goes on: *)
(* what lies behind the table is read as whatever it may be, and what is   *)
(* written there is no variable of this module (an EXCEPT at an index that *)
(* is not in the table changes nothing).                                   *)
(***************************************************************************)
EXTENDS Naturals, FiniteSets

CONSTANTS
    Threads,        \* the threads of the client program
    Funcs,          \* the functions passed as callbacks
    Slots,          \* SYMTAB_SIZE
    MaxActivations, \* bound: activations of one function
    Nil             \* a null pointer, the reference 0

ASSUME SlotsAssumption == Slots \in Nat \ {0}
ASSUME MaxActivationsAssumption == MaxActivations \in Nat
ASSUME NilAssumption == Nil \notin Funcs

Index == 0 .. Slots - 1

VARIABLES
    ref,            \* ref[i] = local_callback[i].callback_ref
    callback,       \* callback[i] = local_callback[i].callback
    callback_ind,   \* slots below it may be in use
    pc,             \* where thread t is in dstc_activate_callback()
    func,           \* its argument
    ind,            \* its local variable
    count,          \* the value of the index that it increments
    exited,         \* the process ran out of slots and called exit(255)
    activated,      \* history: activated[f] activations of f returned
    taken           \* history: taken[f] activations of f fired or cancelled

tableVars == <<ref, callback, callback_ind>>
threadVars == <<pc, func, ind, count>>
historyVars == <<activated, taken>>
vars == <<tableVars, threadVars, exited, historyVars>>

TypeOK ==
    /\ ref \in [Index -> Funcs \cup {Nil}]
    /\ callback \in [Index -> Funcs \cup {Nil}]
    /\ callback_ind \in 0 .. Slots
    /\ pc \in [Threads -> {"idle", "scan", "look", "ref", "callback", "test", "load", "store"}]
    /\ func \in [Threads -> Funcs \cup {Nil}]
    /\ ind \in [Threads -> 0 .. Slots]
    /\ count \in [Threads -> 0 .. Slots]
    /\ exited \in BOOLEAN
    /\ activated \in [Funcs -> Nat]
    /\ taken \in [Funcs -> Nat]

Init ==
    /\ ref = [i \in Index |-> Nil]
    /\ callback = [i \in Index |-> Nil]
    /\ callback_ind = 0
    /\ pc = [t \in Threads |-> "idle"]
    /\ func = [t \in Threads |-> Nil]
    /\ ind = [t \in Threads |-> 0]
    /\ count = [t \in Threads |-> 0]
    /\ exited = FALSE
    /\ activated = [f \in Funcs |-> 0]
    /\ taken = [f \in Funcs |-> 0]

\* The slots the lookups see. (One they find behind the table changes nothing here.)
Visible == {i \in Index : i < callback_ind}
InUse(f) == Cardinality({i \in Visible : callback[i] = f})
Outstanding == Cardinality({i \in Index : callback[i] # Nil})

Goto(t, label) == pc' = [pc EXCEPT ![t] = label]

\* Within the bound on activations of f, counting those under way.
MayActivate(f) ==
    activated[f] + Cardinality({t \in Threads : func[t] = f}) < MaxActivations

---------------------------------------------------------------------------
(* dstc_activate_callback(), entered with a function; a null pointer is    *)
(* returned as the reference 0 at once and changes nothing.                *)

Activate(t, f) ==
    /\ ~exited /\ pc[t] = "idle"
    /\ MayActivate(f)
    /\ Goto(t, "scan")
    /\ func' = [func EXCEPT ![t] = f]
    /\ ind' = [ind EXCEPT ![t] = 0]
    /\ UNCHANGED <<tableVars, count, exited, historyVars>>

\* The search for a slot freed earlier: is there another one to look at?
Scan(t) ==
    /\ ~exited /\ pc[t] = "scan"
    /\ ind[t] < callback_ind
    /\ Goto(t, "look")
    /\ UNCHANGED <<tableVars, func, ind, count, exited, historyVars>>

\* What a search finds in a slot: is it in use? The first one behind the table begins
\* with callback_ind itself, which is not 0 then; of the others nothing is known.
Found(i) ==
    IF i \in Index THEN {callback[i] # Nil} ELSE IF i = Slots THEN {TRUE} ELSE BOOLEAN

Look(t) ==
    /\ ~exited /\ pc[t] = "look"
    /\ \E used \in Found(ind[t]) :
          IF used
          THEN ind' = [ind EXCEPT ![t] = @ + 1] /\ Goto(t, "scan")
          ELSE Goto(t, "ref") /\ UNCHANGED ind
    /\ UNCHANGED <<tableVars, func, count, exited, historyVars>>

\* Faulty variants of the search: mutants that some property must refute.
ScanEnds_NoLimit(t) ==
    /\ ~exited /\ pc[t] = "scan"
    /\ ind[t] >= callback_ind
    /\ Goto(t, "ref")
    /\ UNCHANGED <<tableVars, func, ind, count, exited, historyVars>>

ScanEnds_LimitOffByOne(t) ==
    /\ ~exited /\ pc[t] = "scan"
    /\ ind[t] >= callback_ind
    /\ IF ind[t] = Slots - 1
       THEN exited' = TRUE /\ UNCHANGED pc
       ELSE Goto(t, "ref") /\ UNCHANGED exited
    /\ UNCHANGED <<tableVars, func, ind, count, historyVars>>

\* None: the next slot is allocated, and with the table full the process ends.
ScanEnds(t) ==
    /\ ~exited /\ pc[t] = "scan"
    /\ ind[t] >= callback_ind
    /\ IF ind[t] = Slots
       THEN exited' = TRUE /\ UNCHANGED pc
       ELSE Goto(t, "ref") /\ UNCHANGED exited
    /\ UNCHANGED <<tableVars, func, ind, count, historyVars>>

WriteRef(t) ==
    /\ ~exited /\ pc[t] = "ref"
    /\ ref' = [ref EXCEPT ![ind[t]] = func[t]]
    /\ Goto(t, "callback")
    /\ UNCHANGED <<callback, callback_ind, func, ind, count, exited, historyVars>>

WriteCallback(t) ==
    /\ ~exited /\ pc[t] = "callback"
    /\ callback' = [callback EXCEPT ![ind[t]] = func[t]]
    /\ Goto(t, "test")
    /\ UNCHANGED <<ref, callback_ind, func, ind, count, exited, historyVars>>

\* The reference is returned to the caller.
Returned(t) ==
    /\ activated' = [activated EXCEPT ![func[t]] = @ + 1]
    /\ Goto(t, "idle")
    /\ func' = [func EXCEPT ![t] = Nil]
    /\ ind' = [ind EXCEPT ![t] = 0]
    /\ count' = [count EXCEPT ![t] = 0]

\* Was it a slot freed earlier, or is it the next one?
Reused(t) ==
    /\ ~exited /\ pc[t] = "test"
    /\ ind[t] # callback_ind
    /\ Returned(t)
    /\ UNCHANGED <<tableVars, exited, taken>>

Allocated(t) ==
    /\ ~exited /\ pc[t] = "test"
    /\ ind[t] = callback_ind
    /\ Goto(t, "load")
    /\ UNCHANGED <<tableVars, func, ind, count, exited, historyVars>>

\* Then callback_ind++ makes it visible: the index is read, and written.
LoadIndex(t) ==
    /\ ~exited /\ pc[t] = "load"
    /\ count' = [count EXCEPT ![t] = callback_ind]
    /\ Goto(t, "store")
    /\ UNCHANGED <<tableVars, func, ind, exited, historyVars>>

StoreIndex(t) ==
    /\ ~exited /\ pc[t] = "store"
    /\ callback_ind' = count[t] + 1
    /\ Returned(t)
    /\ UNCHANGED <<ref, callback, exited, taken>>

---------------------------------------------------------------------------
(* The operations under the lock.                                          *)

\* dstc_register_callback_server(): the same search, for the first slot found free or
\* the next one, and the same writes.
FreeSlot(slot) ==
    /\ \A i \in 0 .. slot - 1 : TRUE \in Found(i)
    /\ slot < callback_ind => FALSE \in Found(slot)

dstc_register_callback_server(t, f) ==
    \E slot \in 0 .. callback_ind :
        /\ ~exited /\ pc[t] = "idle"
        /\ MayActivate(f)
        /\ FreeSlot(slot)
        /\ IF slot = Slots
           THEN exited' = TRUE /\ UNCHANGED <<tableVars, historyVars>>
           ELSE /\ ref' = [ref EXCEPT ![slot] = f]
                /\ callback' = [callback EXCEPT ![slot] = f]
                /\ callback_ind' = IF slot = callback_ind THEN slot + 1 ELSE callback_ind
                /\ activated' = [activated EXCEPT ![f] = @ + 1]
                /\ UNCHANGED <<exited, taken>>
        /\ UNCHANGED threadVars

\* Faulty variants, as in DstcOutbound.
TakeSlot_ForgetsRef(i) ==
    /\ ref' = ref
    /\ callback' = [callback EXCEPT ![i] = Nil]
    /\ taken' = IF callback[i] = Nil THEN taken ELSE [taken EXCEPT ![callback[i]] = @ + 1]

TakeSlot_KeepsCallback(i) ==
    /\ ref' = ref
    /\ callback' = callback
    /\ taken' = IF callback[i] = Nil THEN taken ELSE [taken EXCEPT ![callback[i]] = @ + 1]

\* A one-shot callback found in a slot is emptied there.
TakeSlot(i) ==
    /\ ref' = [ref EXCEPT ![i] = Nil]
    /\ callback' = [callback EXCEPT ![i] = Nil]
    /\ taken' = IF callback[i] = Nil THEN taken ELSE [taken EXCEPT ![callback[i]] = @ + 1]

First(match) == CHOOSE i \in match : \A j \in match : i <= j

\* _dstc_find_callback_by_ref(), by dstc_process_function_call(), for a reply that
\* carries the reference r: of an activation, of one that is gone, or of any other
\* program's callback that has the same pointer. The function it finds is run.
Reply(t, r) ==
    LET match == {i \in Visible : ref[i] = r}
    IN  /\ ~exited /\ pc[t] = "idle"
        /\ match # {}
        /\ TakeSlot(First(match))
        /\ UNCHANGED <<callback_ind, threadVars, exited, activated>>

\* dstc_cancel_callback(), by _dstc_find_callback_by_func().
dstc_cancel_callback(t, f) ==
    LET match == {i \in Visible : callback[i] = f}
    IN  /\ ~exited /\ pc[t] = "idle"
        /\ match # {}
        /\ TakeSlot(First(match))
        /\ UNCHANGED <<callback_ind, threadVars, exited, activated>>

Next ==
    \E t \in Threads :
        \/ \E f \in Funcs :
              \/ Activate(t, f)
              \/ dstc_register_callback_server(t, f)
              \/ dstc_cancel_callback(t, f)
        \/ \E r \in Funcs : Reply(t, r)
        \/ Scan(t)
        \/ Look(t)
        \/ ScanEnds(t)
        \/ WriteRef(t)
        \/ WriteCallback(t)
        \/ Reused(t)
        \/ Allocated(t)
        \/ LoadIndex(t)
        \/ StoreIndex(t)

Spec == Init /\ [][Next]_vars

---------------------------------------------------------------------------
(* Properties.                                                             *)

Quiet == \A t \in Threads : pc[t] = "idle"

\* Every activation that returned is in the table, visible to the lookups, or was
\* taken out once: no reply runs a function more often than it was activated, and
\* none that was activated has become unreachable. It holds for one thread. For two
\* it is what README.md:55, "DSTC is fully thread safe", makes of the table, and it
\* does not hold: an activation and any other operation can meet in a slot.
NothingLost ==
    Quiet => \A f \in Funcs : activated[f] = taken[f] + InUse(f)

\* Reference and dispatcher of a slot belong together, and the slots above the
\* index are free: a reply runs the function whose reference it carries.
Tidy ==
    Quiet => \A i \in Index :
        /\ ref[i] = callback[i]
        /\ i >= callback_ind => callback[i] = Nil

\* No slot outside of the table is looked at or written: the index stays in the table
\* and every slot an activation uses is below it. That is what the check for a full
\* table is there for (dstc.c:433-438). It holds for one thread. Of two threads that
\* have both seen that the last slot is the next one both increment the index, and the
\* check is never met again.
IndexInTable ==
    /\ callback_ind <= Slots
    /\ \A t \in Threads : pc[t] \in {"look", "ref", "callback"} => ind[t] \in Index

\* The process gives up only when every slot holds an outstanding callback.
ExitOnlyWhenFull == exited => Outstanding = Slots
============================================================================
