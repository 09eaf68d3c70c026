----------------------------- MODULE PthreadKeys -----------------------------
(***************************************************************************)
(* Thread-specific data of the module libc (src/sdk/libc/src/pthread.cpp): *)
(* key slots under a lock, values that each thread keeps beside the        *)
(* generation of the key they were stored under, and the destructors that  *)
(* run when a thread exits, one slot at a time, while other threads create *)
(* and delete keys.  A slot access under sKeyLock is one step.             *)
(***************************************************************************)
EXTENDS Integers, FiniteSets

CONSTANTS
    Threads,        \* guest threads
    Slots,          \* PTHREAD_KEYS_MAX: the slots are 0..Slots-1
    Rounds,         \* PTHREAD_DESTRUCTOR_ITERATIONS
    GenerationMod,  \* 2^24: what a pthread_key_t keeps of the generation
    MaxKeys,        \* keys the program creates in all, less than GenerationMod
    MaxSets         \* values a thread stores

VARIABLES
    used,           \* sKeys[i].used
    generations,    \* sKeys[i].generation
    destructor,     \* sKeys[i].destructor, as the key it was created with; 0: none
    keys,           \* the keys the program was given, and whether they are deleted
    values,         \* sKeyValues of each thread: the generation and the value,
                    \* as the key it was stored under; 0: null
    at,             \* "run", or in Run_Key_Destructors, or "gone"
    round, index,   \* its loop variables
    ranAny,         \* its ran_any
    call,           \* the destructor and the value it is about to call it with
    sets,           \* values each thread stored
    misrouted       \* history: a destructor got a value of another key

slotVars == <<used, generations, destructor>>
exitVars == <<at, round, index, ranAny, call>>
vars == <<slotVars, keys, values, exitVars, sets, misrouted>>

AllSlots == 0..(Slots - 1)
Nil == [generation |-> 0, value |-> 0]
NoCall == [destructor |-> 0, value |-> 0]

Init ==
    /\ used = [i \in AllSlots |-> FALSE]
    /\ generations = [i \in AllSlots |-> 0]
    /\ destructor = [i \in AllSlots |-> 0]
    /\ keys = {}
    /\ values = [t \in Threads |-> [i \in AllSlots |-> Nil]]
    /\ at = [t \in Threads |-> "run"]
    /\ round = [t \in Threads |-> 0]
    /\ index = [t \in Threads |-> 0]
    /\ ranAny = [t \in Threads |-> FALSE]
    /\ call = [t \in Threads |-> NoCall]
    /\ sets = [t \in Threads |-> 0]
    /\ misrouted = FALSE

-----------------------------------------------------------------------------

\* pthread_key_create takes the first free slot; the key is its index and the
\* low bits of its new generation.  id tells the keys apart: 1, 2, ...
LowBits(g) == g % GenerationMod
Create ==
    /\ Cardinality(keys) < MaxKeys
    /\ \E i \in AllSlots, destroys \in BOOLEAN :
          LET id == Cardinality(keys) + 1 IN
          /\ ~used[i]
          /\ \A j \in 0..(i - 1) : used[j]
          /\ used' = [used EXCEPT ![i] = TRUE]
          /\ generations' = [generations EXCEPT ![i] = @ + 1]
          /\ destructor' = [destructor EXCEPT ![i] = IF destroys THEN id ELSE 0]
          /\ keys' = keys \cup {[id |-> id, index |-> i, live |-> TRUE,
                                 generation |-> LowBits(generations'[i])]}
    /\ UNCHANGED <<values, exitVars, sets, misrouted>>

\* pthread_key_delete; EINVAL otherwise.
Deletable(k) == used[k.index] /\ generations[k.index] = k.generation
Delete ==
    /\ \E k \in keys :
          /\ k.live
          /\ Deletable(k)
          /\ used' = [used EXCEPT ![k.index] = FALSE]
          /\ destructor' = [destructor EXCEPT ![k.index] = 0]
          /\ keys' = (keys \ {k}) \cup {[k EXCEPT !.live = FALSE]}
    /\ UNCHANGED <<generations, values, exitVars, sets, misrouted>>

\* pthread_getspecific looks at the thread's own value only.
SameKey(v, k) == v.generation = k.generation
GetSpecific(t, k) ==
    LET v == values[t][k.index] IN IF SameKey(v, k) THEN v.value ELSE 0

\* pthread_setspecific, by the running program or by a destructor, under a
\* key that is not deleted; a null value clears.
Set(t) ==
    /\ at[t] \in {"run", "destructor"}
    /\ sets[t] < MaxSets
    /\ sets' = [sets EXCEPT ![t] = @ + 1]
    /\ \E k \in keys, null \in BOOLEAN :
          /\ k.live
          /\ values' = [values EXCEPT ![t][k.index] =
                          [generation |-> k.generation, value |-> IF null THEN 0 ELSE k.id]]
    /\ UNCHANGED <<slotVars, keys, exitVars, misrouted>>

-----------------------------------------------------------------------------

\* The thread's routine returns: Run_Key_Destructors begins its first round.
Exit(t) ==
    /\ at[t] = "run"
    /\ at' = [at EXCEPT ![t] = "scan"]
    /\ UNCHANGED <<slotVars, keys, values, round, index, ranAny, call, sets, misrouted>>

\* The loop skips a null value.
Skip(t) ==
    /\ at[t] = "scan"
    /\ index[t] < Slots
    /\ values[t][index[t]].value = 0
    /\ index' = [index EXCEPT ![t] = @ + 1]
    /\ UNCHANGED <<slotVars, keys, values, at, round, ranAny, call, sets, misrouted>>

\* Under the lock it takes the slot's destructor if the slot is of the same
\* generation; then it takes the value out of the thread.
Cleared(value) == 0
AnyUsed(i, v) == used[i]
Current(i, v) == used[i] /\ generations[i] = v.generation
Pick(t) ==
    /\ at[t] = "scan"
    /\ index[t] < Slots
    /\ LET i == index[t]  v == values[t][i] IN
          /\ v.value # 0
          /\ call' = [call EXCEPT ![t] =
                 [destructor |-> IF Current(i, v) THEN destructor[i] ELSE 0,
                  value |-> v.value]]
          /\ values' = [values EXCEPT ![t][i].value = Cleared(@)]
    /\ at' = [at EXCEPT ![t] = "picked"]
    /\ UNCHANGED <<slotVars, keys, round, index, ranAny, sets, misrouted>>

\* Without a destructor it goes on to the next slot.
Forget(t) ==
    /\ at[t] = "picked"
    /\ call[t].destructor = 0
    /\ call' = [call EXCEPT ![t] = NoCall]
    /\ index' = [index EXCEPT ![t] = @ + 1]
    /\ at' = [at EXCEPT ![t] = "scan"]
    /\ UNCHANGED <<slotVars, keys, values, round, ranAny, sets, misrouted>>

\* Otherwise it calls it outside the lock; it may store values again ...
Destroy(t) ==
    /\ at[t] = "picked"
    /\ call[t].destructor # 0
    /\ misrouted' = (misrouted \/ call[t].destructor # call[t].value)
    /\ at' = [at EXCEPT ![t] = "destructor"]
    /\ UNCHANGED <<slotVars, keys, values, round, index, ranAny, call, sets>>

\* ... and returns.
Destroyed(t) ==
    /\ at[t] = "destructor"
    /\ call' = [call EXCEPT ![t] = NoCall]
    /\ ranAny' = [ranAny EXCEPT ![t] = TRUE]
    /\ index' = [index EXCEPT ![t] = @ + 1]
    /\ at' = [at EXCEPT ![t] = "scan"]
    /\ UNCHANGED <<slotVars, keys, values, round, sets, misrouted>>

\* A round that ran a destructor is followed by another one, Rounds at most.
Stops(t) == ~ranAny[t] \/ round[t] + 1 = Rounds
NextRound(t) ==
    /\ at[t] = "scan"
    /\ index[t] = Slots
    /\ ~Stops(t)
    /\ round' = [round EXCEPT ![t] = @ + 1]
    /\ index' = [index EXCEPT ![t] = 0]
    /\ ranAny' = [ranAny EXCEPT ![t] = FALSE]
    /\ UNCHANGED <<slotVars, keys, values, at, call, sets, misrouted>>

Gone(t) ==
    /\ at[t] = "scan"
    /\ index[t] = Slots
    /\ Stops(t)
    /\ at' = [at EXCEPT ![t] = "gone"]
    /\ UNCHANGED <<slotVars, keys, values, round, index, ranAny, call, sets, misrouted>>

ExitStep(t) ==
    \/ Skip(t) \/ Pick(t) \/ Forget(t) \/ Destroy(t) \/ Destroyed(t)
    \/ NextRound(t) \/ Gone(t)

Next == Create \/ Delete \/ \E t \in Threads : Set(t) \/ Exit(t) \/ ExitStep(t)

Spec == Init /\ [][Next]_vars
-----------------------------------------------------------------------------

Places == {"run", "scan", "picked", "destructor", "gone"}

\* Every variable keeps its type.
TypeOK ==
    /\ used \in [AllSlots -> BOOLEAN]
    /\ generations \in [AllSlots -> 0..MaxKeys]
    /\ destructor \in [AllSlots -> 0..MaxKeys]
    /\ keys \subseteq [id : 1..MaxKeys, index : AllSlots, live : BOOLEAN,
                       generation : 0..(GenerationMod - 1)]
    /\ values \in [Threads -> [AllSlots -> [generation : 0..(GenerationMod - 1),
                                            value : 0..MaxKeys]]]
    /\ at \in [Threads -> Places]
    /\ round \in [Threads -> 0..(Rounds - 1)]
    /\ index \in [Threads -> 0..Slots]
    /\ ranAny \in [Threads -> BOOLEAN]
    /\ call \in [Threads -> [destructor : 0..MaxKeys, value : 0..MaxKeys]]
    /\ sets \in [Threads -> 0..MaxSets]
    /\ misrouted \in BOOLEAN

\* Under a key a thread reads null or a value it stored under that very key,
\* although slots are used again and nothing clears the values of a deleted
\* key in the threads that have one.
ValuesArePrivate ==
    \A t \in Threads, k \in keys : k.live => GetSpecific(t, k) \in {0, k.id}

\* Two live keys never share a slot, and a live key can always be deleted.
LiveKeysAreDistinct ==
    \A k \in keys : k.live =>
        /\ Deletable(k)
        /\ \A other \in keys : other.live /\ other # k => other.index # k.index

\* A destructor only ever gets a value that was stored under its own key,
\* although the slot may pass to another key between the store and the exit.
DestructorsGetTheirValues == ~misrouted

\* A thread that ends because a round ran no destructor leaves no value
\* behind: the values its last destructors stored were destroyed as well.
NothingLeftBehind ==
    \A t \in Threads :
        at[t] = "gone" /\ ~ranAny[t] => \A i \in AllSlots : values[t][i].value = 0

\* What the comment on the slots says: "a slot's generation changes when the
\* key is deleted, so a stale value from an old key reads as null".  The code
\* changes the generation in pthread_key_create, so until the slot is used
\* again the deleted key still reads its value.
StaleReadsNull ==
    \A t \in Threads, k \in keys : ~k.live => GetSpecific(t, k) = 0

=============================================================================
