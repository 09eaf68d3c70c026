------------------------------- MODULE MCParts -------------------------------
(***************************************************************************)
(* The parts of the system that share no state with each other and of      *)
(* which only safety is asked, in one state space: a behaviour is one of   *)
(* `part'.  The parts of the SDK that follow events of the host share      *)
(* Follow_Event, in EventFollowers.                                        *)
(***************************************************************************)
EXTENDS PatchChain, EventFollowers, FiniteSets, TLC

CONSTANTS
    Ids, Packs, MaxHandle, MaxRevision,                 \* textures
    Window, SendLimit, Addresses, MaxConnections,       \* datagrams
    Processors, MaxToken, MaxBreakpoint,       \* breakpoints
    p1, p2, m1, m2,                                     \* patches
    Coroutines, Promises, MaxWaits, MaxDepth,           \* coroutines
    refresh, paused, MaxTick, MaxTimer, MaxClocks, MaxCount,    \* timers
    l1, l2, MaxListener, MaxCalls,                      \* listeners
    Classes, Smallest, MaxTop, Sizes, Alignments, MaxLive,      \* the heap of the libc
    MaxLength, BufferSize, Pushed,                      \* files of the libc
    Names, Files, Disks, Selections                     \* modules to be linked

VARIABLES
    part,                                   \* which of them the behaviour is of
    sources, preferences, nextHandle, revision, dirty, savePending, stored, withdrawn, step,
    paths, applied, reload, answer, queue, shown, loaded, heard,
    sendKey, sendCount, address, receiveKey, receiveCount, received, udpAddress, wire,
    accepted, opened, newest,
    breakpoints, nextBreakpoint, stepOwner, stepHandler, stepProcessor, held, adapter,
    records, nextToken, stepToken, gone, released, phase, handling,
    state, conts, ready, frame, waits, running, stopping,
    timers, nextTimer, hostNow, customNow, frames, inCallback, timersStopping, fired,
    object, listeners, lastId, following, finished, calls, inListener,
    top, headers, smallFree, largeFree, live,
    file, readable, writable, append, position, atEnd, failed, unget, readStart, readBuffer,
    reading, out, expected, over,
    handlers, nextHandler, rawHandlers, stoppingNet, topics, open, visits, inHandler,
    disk, selected, readPosition, modules, indices, visitStates, parents, order, roots,
    visitFrames, at

textureVars == <<sources, preferences, nextHandle, revision, dirty, savePending, stored,
                 withdrawn, step, paths, applied, reload, answer, queue, shown, loaded, heard>>
datagramVars == <<sendKey, sendCount, address, receiveKey, receiveCount, received, udpAddress,
                  wire, accepted, opened, newest>>
breakpointVars == <<breakpoints, nextBreakpoint, stepOwner, stepHandler, stepProcessor, held,
                    adapter, records, nextToken, stepToken, gone, released, phase, handling>>
coroutineVars == <<state, conts, ready, frame, waits, running, stopping>>
timerVars == <<timers, nextTimer, hostNow, customNow, frames, inCallback, timersStopping,
               fired>>
listenerVars == <<object, listeners, lastId, following, finished, calls, inListener>>
heapVars == <<top, headers, smallFree, largeFree, live>>
stdioVars == <<file, readable, writable, append, position, atEnd, failed, unget, readStart,
               readBuffer, reading, out, expected, over>>
packetVars == <<handlers, nextHandler, rawHandlers, stoppingNet, topics, open, visits, inHandler>>
graphVars == <<disk, selected, readPosition, modules, indices, visitStates, parents, order, roots,
               visitFrames, at>>
vars == <<part, textureVars, datagramVars, breakpointVars, patchVars, coroutineVars,
          followVars, timerVars, listenerVars, heapVars, stdioVars, packetVars, graphVars>>

Textures == INSTANCE Textures WITH gone <- withdrawn, state <- answer
Datagram == INSTANCE Datagram WITH NoAddress <- None
Breakpoints == INSTANCE Breakpoints WITH
    Nobody <- None, MaxId <- MaxBreakpoint, nextId <- nextBreakpoint, paused <- held
Coroutine == INSTANCE Coroutine
Timers == INSTANCE Timers WITH
    ClockEvents <- <<refresh, paused>>, MaxId <- MaxTimer, slots <- timers, nextId <- nextTimer
Shared == INSTANCE Listeners WITH
    Lists <- {l1, l2}, Framework <- {l1, l2}, MaxId <- MaxListener,
    EventsOf <- (l1 :> <<refresh, paused>>) @@ (l2 :> <<paused>>)
Single == INSTANCE Listeners WITH
    Lists <- {l1}, Framework <- {}, EventsOf <- (l1 :> <<>>), MaxId <- MaxListener

LibcHeap == INSTANCE LibcHeap
Stdio == INSTANCE Stdio WITH Contents <- {<<>>, <<1, 2, 3>>}, Writes <- {<<5, 4>>}

Packets == INSTANCE Packets WITH
    Raw <- {"raw"}, Managed <- {"managed 1", "managed 2"}, Types <- {"type"},
    NetEvent <- refresh, LobbyEvent <- paused, MaxHandler <- MaxListener, MaxVisits <- MaxCalls
Graph == INSTANCE ModuleGraph WITH
    NoModule <- None, position <- readPosition, paths <- indices, visits <- visitStates,
    frames <- visitFrames

ASSUME PartsAssumption ==
    /\ Textures!TexturesAssumption
    /\ Datagram!DatagramAssumption
    /\ Breakpoints!BreakpointAssumption
    /\ Coroutine!CoroutineAssumption
    /\ Timers!TimersAssumption
    /\ Shared!ListenersAssumption /\ Single!ListenersAssumption
    /\ LibcHeap!LibcHeapAssumption /\ Stdio!StdioAssumption
    /\ Packets!PacketsAssumption /\ Graph!ModuleGraphAssumption

-----------------------------------------------------------------------------
(* The directory of the modules, and a copy of one of them elsewhere         *)

MCNames == 1..3
Beside(n) == [dir |-> 1, name |-> n]
Copy == [dir |-> 2, name |-> 3]
MCFiles == {Beside(n) : n \in MCNames} \union {Copy}

\* No module needs another; every module needs some of the others.
Good == [f \in MCFiles |-> [name |-> f.name, dependencies |-> {}, runtime |-> 1,
                           folder |-> f.name, fingerprint |-> f.name, broken |-> FALSE]]
Needing(needs) == [f \in MCFiles |-> [Good[f] EXCEPT !.dependencies = needs[f.name]]]
MCNeeds == {needs \in [MCNames -> SUBSET MCNames] : \A n \in MCNames : n \notin needs[n]}

\* With one thing that is wrong: a file that is missing or broken, one with another module
\* in it, a copy that differs, another SDK, a folder that is taken.
Variants(d) ==
    LET Both(change(_)) ==
            [d EXCEPT ![Beside(3)] = change(d[Beside(3)]), ![Copy] = change(d[Copy])]
    IN  {d, [f \in MCFiles \ {Beside(2)} |-> d[f]], [f \in MCFiles \ {Beside(3)} |-> d[f]],
         [d EXCEPT ![Beside(2)].broken = TRUE],
         [d EXCEPT ![Beside(3)] = d[Beside(2)]],
         [d EXCEPT ![Copy].fingerprint = 4],
         Both(LAMBDA m : [m EXCEPT !.runtime = 2]),
         Both(LAMBDA m : [m EXCEPT !.folder = 2])}
MCDisks == UNION {Variants(Needing(needs)) : needs \in MCNeeds}
MCSelections == {<<Beside(1)>>, <<Beside(2), Beside(1)>>, <<Copy, Beside(1)>>, <<Beside(1), Copy>>}

-----------------------------------------------------------------------------

\* The state of the parts that a behaviour is not of does not matter and has one value.
Init ==
    /\ part \in {"textures", "datagram", "breakpoints", "patches", "coroutine", "timers",
                 "framework", "event", "heap", "stdio",
                 "packets", "graph"}
    /\ Textures!Init /\ (part # "textures" => stored = <<>>)
    /\ Datagram!Init /\ (part # "datagram" => address = CHOOSE a \in Addresses : TRUE)
    /\ Breakpoints!Init
    /\ PatchInit
    /\ Coroutine!Init
    /\ Timers!Init
    /\ IF part = "event" THEN Single!Init ELSE Shared!Init
    /\ LibcHeap!Init
    /\ Stdio!Init /\ (part # "stdio" => file = <<>> /\ readable /\ ~writable)
    /\ Packets!Init
    /\ Graph!Init /\ (part # "graph" => disk = Good /\ selected = <<Beside(1)>>)

TexturesNext ==
    /\ part = "textures" /\ Textures!Next
    /\ UNCHANGED <<part, datagramVars, breakpointVars, patchVars, coroutineVars, followVars,
                   timerVars, listenerVars, heapVars, stdioVars, packetVars, graphVars>>
DatagramNext ==
    /\ part = "datagram" /\ Datagram!Next
    /\ UNCHANGED <<part, textureVars, breakpointVars, patchVars, coroutineVars, followVars,
                   timerVars, listenerVars, heapVars, stdioVars, packetVars, graphVars>>
BreakpointsNext ==
    /\ part = "breakpoints" /\ Breakpoints!Next
    /\ UNCHANGED <<part, textureVars, datagramVars, patchVars, coroutineVars, followVars,
                   timerVars, listenerVars, heapVars, stdioVars, packetVars, graphVars>>
PatchesNext ==
    /\ part = "patches" /\ PatchNext
    /\ UNCHANGED <<part, textureVars, datagramVars, breakpointVars, coroutineVars, followVars,
                   timerVars, listenerVars, heapVars, stdioVars, packetVars, graphVars>>
CoroutineNext ==
    /\ part = "coroutine" /\ Coroutine!Next
    /\ UNCHANGED <<part, textureVars, datagramVars, breakpointVars, patchVars, followVars,
                   timerVars, listenerVars, heapVars, stdioVars, packetVars, graphVars>>
TimersNext ==
    /\ part = "timers" /\ Timers!Next
    /\ UNCHANGED <<part, textureVars, datagramVars, breakpointVars, patchVars, coroutineVars,
                   listenerVars, heapVars, stdioVars, packetVars, graphVars>>
ListenersNext ==
    /\ \/ part = "framework" /\ Shared!Next
       \/ part = "event" /\ Single!Next
    /\ UNCHANGED <<part, textureVars, datagramVars, breakpointVars, patchVars, coroutineVars,
                   timerVars, heapVars, stdioVars, packetVars, graphVars>>
LibcHeapNext ==
    /\ part = "heap" /\ LibcHeap!Next
    /\ UNCHANGED <<part, textureVars, datagramVars, breakpointVars, patchVars, coroutineVars,
                   followVars, timerVars, listenerVars, stdioVars, packetVars,
                   graphVars>>
StdioNext ==
    /\ part = "stdio" /\ Stdio!Next
    /\ UNCHANGED <<part, textureVars, datagramVars, breakpointVars, patchVars, coroutineVars,
                   followVars, timerVars, listenerVars, heapVars, packetVars,
                   graphVars>>
PacketsNext ==
    /\ part = "packets" /\ Packets!Next
    /\ UNCHANGED <<part, textureVars, datagramVars, breakpointVars, patchVars, coroutineVars,
                   timerVars, listenerVars, heapVars, stdioVars, graphVars>>
GraphNext ==
    /\ part = "graph" /\ Graph!Next
    /\ UNCHANGED <<part, textureVars, datagramVars, breakpointVars, patchVars, coroutineVars,
                   followVars, timerVars, listenerVars, heapVars, stdioVars, packetVars>>

Next ==
    \/ TexturesNext
    \/ DatagramNext
    \/ BreakpointsNext
    \/ PatchesNext
    \/ CoroutineNext
    \/ TimersNext
    \/ ListenersNext
    \/ LibcHeapNext
    \/ StdioNext
    \/ PacketsNext
    \/ GraphNext

Spec == Init /\ [][Next]_vars

-----------------------------------------------------------------------------

\* One patch jumps over the original instructions, one keeps them.
MCModule == (p1 :> m1) @@ (p2 :> m2)
MCKind == (p1 :> "source") @@ (p2 :> "none")

\* The blocks of storage for patches are alike, and so are the modules with textures and
\* the processors.
Symmetry == Permutations(Slots) \union Permutations(Ids \ Packs) \union Permutations(Processors)

\* What nothing reads before it is written anew does not matter: a savestate that can no
\* longer be loaded, the locals of the Dispatch of textures outside the steps that use
\* them, and the step of the breakpoints that nobody owns.
View == <<part,
          sources, preferences, nextHandle, revision, dirty, savePending, stored, withdrawn,
          step, applied, queue, shown, loaded, heard,
          IF step = "ask" THEN <<paths, reload>> ELSE None,
          IF step = "answer" THEN answer ELSE None,
          datagramVars,
          breakpoints, nextBreakpoint, stepOwner, held, adapter, records, nextToken, stepToken,
          gone, released, phase, handling,
          IF stepOwner = None THEN None ELSE <<stepHandler, stepProcessor>>,
          memory, patches, slot, enabled, requested, pinned, nextChain, unrepaired, rewrites,
          IF rewrites = MaxRewrites THEN None ELSE image,
          coroutineVars, followVars, timerVars, listenerVars, heapVars, stdioVars,
          packetVars, graphVars>>

(* The properties of the modules under names of this one; each is stated and *)
(* explained there.                                                          *)

\* The order of the user is kept, the renderer has the latest sources, and every module
\* knows its own.
TexturesAgree == part = "textures" => Textures!TexturesAgree

\* A datagram is opened once, none that is new is refused, and the address of a member is
\* that of its newest datagram.
DatagramsSound == part = "datagram" => Datagram!DatagramsSound

\* Modules, host and adapter agree on the breakpoints, and none is left of a module that
\* is gone.
BreakpointsSound == part = "breakpoints" => Breakpoints!BreakpointsSound

\* A suspended coroutine is resumed or destroyed by one of its waits and no other.
CoroutinesSound == part = "coroutine" => Coroutine!CoroutinesSound

\* No timer is passed over, and none fires twice or after it is cancelled.
TimersSound == part = "timers" => Timers!TimersSound

\* Listeners and the handlers of packets hear in the order in which they came, and a
\* module follows an event while somebody waits for it.
ListenersSound ==
    /\ part = "framework" => Shared!ListenersSound
    /\ part = "event" => Single!ListenersSound
    /\ part = "packets" => Packets!PacketsSound

\* The blocks of the heap tile it, those in use are apart and large enough, and a read
\* returns the bytes of the file at the position of the stream.
LibcSound ==
    /\ part = "heap" => LibcHeap!LibcHeapSound
    /\ part = "stdio" => Stdio!StdioSound

\* A plan links what was selected and needed, each module once and after its needs.
GraphSound == part = "graph" => Graph!GraphSound
=============================================================================
