------------------------------ MODULE Sockets ------------------------------
(***************************************************************************)
(* The sockets of a module, client/src/net.cpp.  Any thread of the module  *)
(* opens, uses and closes them; Net_Dispatch, on the emulation thread,     *)
(* walks over a list of the packet sockets and delivers what has arrived   *)
(* while the module that it calls closes sockets, or traps.  Locks of the  *)
(* module's table and of one entry are held for a step each.               *)
(***************************************************************************)
EXTENDS Integers, FiniteSets, SequencesExt

CONSTANTS
    MaxSocket,          \* handles of the checked instance: the code has 2^32 - 1
    Rank,               \* where the entries come in a walk over the table, a hash table
    MaxRaw,             \* operations at a time on one socket
    Work,               \* what one dispatch may do, 128 in the code
    EventBudget         \* what it may read, and write, for one socket, 16 in the code

\* The module that instantiates this one assumes it of its constants.
SocketsAssumption ==
    /\ MaxSocket \in Nat /\ MaxRaw \in Nat
    /\ Rank \in [1..MaxSocket -> Nat] /\ IsInjective(Rank)
    /\ EventBudget \in Nat \ {0} /\ Work \in Nat /\ Work >= 2 * EventBudget

Handles == 1..MaxSocket
Nothing == 0

VARIABLES
    nextSocket, listeners,      \* Module::nextSocket; the handles that are listeners
    table,                      \* Module::sockets, as a set of handles
    closing,                    \* entries that Close or Release erased and has yet to close
    closed, packets,            \* flags of the entries, as sets
    raw,                        \* rawOperations
    wire,                       \* what has arrived: nothing, data, or the end
    disabled, stopping, released,           \* of the module
    step,                       \* where Net_Dispatch is
    watched, offset, start,     \* its locals
    work, delivered,
    accepted,                   \* local of Accept_Packets
    networkCursor,
    event,                      \* the socket whose event the module is handling
    gone                        \* history: sockets whose end the emulation thread knows

tableVars == <<nextSocket, listeners, table, closing, closed, packets, raw, wire>>
flagVars == <<disabled, stopping, released>>
dispatchVars == <<step, watched, offset, start, work, delivered, accepted, networkCursor, event>>
vars == <<tableVars, flagVars, dispatchVars, gone>>

Init ==
    /\ nextSocket = 0 /\ listeners = {}
    /\ table = {} /\ closing = {} /\ closed = {} /\ packets = {}
    /\ raw = [h \in Handles |-> 0]
    /\ wire = [h \in Handles |-> "nothing"]
    /\ disabled = FALSE /\ stopping = FALSE /\ released = FALSE
    /\ step = "idle" /\ watched = <<>> /\ offset = 0 /\ start = 0
    /\ work = 0 /\ delivered = 0 /\ accepted = Nothing
    /\ networkCursor = 0 /\ event = Nothing
    /\ gone = {}

-----------------------------------------------------------------------------
(* The table, from any thread                                               *)

\* Add, under the lock of the table: nothing is added to a module that stops.
Refuses == stopping

Added(listening, asPackets) ==
    LET h == nextSocket + 1 IN
    /\ ~Refuses /\ nextSocket < MaxSocket
    /\ nextSocket' = h
    /\ listeners' = IF listening THEN listeners \union {h} ELSE listeners
    /\ table' = table \union {h}
    /\ packets' = IF asPackets THEN packets \union {h} ELSE packets

Open(listening) ==
    /\ Added(listening, FALSE)
    /\ UNCHANGED <<closing, closed, raw, wire, flagVars, dispatchVars, gone>>

\* Raw_Access, from its constructor to its destructor: a call of the operating system.
BeginRaw(h) ==
    /\ h \in table \ (closed \union packets)
    /\ raw[h] < MaxRaw
    /\ raw' = [raw EXCEPT ![h] = @ + 1]
    /\ UNCHANGED <<nextSocket, listeners, table, closing, closed, packets, wire, flagVars,
                   dispatchVars, gone>>

EndRaw(h) ==
    /\ raw[h] > 0
    /\ raw' = [raw EXCEPT ![h] = @ - 1]
    /\ UNCHANGED <<nextSocket, listeners, table, closing, closed, packets, wire, flagVars,
                   dispatchVars, gone>>

\* Whether the dispatch may read a socket from now on.
Whenever(h) == TRUE
NobodyUses(h) == raw[h] = 0

Enable_Packets(h) ==
    /\ h \in table \ (closed \union packets) /\ ~stopping
    /\ NobodyUses(h)
    /\ packets' = packets \union {h}
    /\ UNCHANGED <<nextSocket, listeners, table, closing, closed, raw, wire, flagVars,
                   dispatchVars, gone>>

\* The entry is closed.  A dispatch that watches it keeps it, with what its input holds,
\* until it ends; otherwise that goes with the entry.
Closes(h) ==
    /\ closed' = closed \union {h}
    /\ wire' = IF Contains(watched, h) THEN wire ELSE [wire EXCEPT ![h] = "nothing"]

\* Close by a thread beside the emulation thread: the entry leaves the table, then it
\* is closed, with no lock held between.
Close(h) ==
    /\ h \in table
    /\ table' = table \ {h} /\ closing' = closing \union {h}
    /\ UNCHANGED <<nextSocket, listeners, closed, packets, raw, wire, flagVars, dispatchVars, gone>>

CloseEntry(h) ==
    /\ h \in closing
    /\ closing' = closing \ {h} /\ Closes(h)
    /\ UNCHANGED <<nextSocket, listeners, table, packets, raw, flagVars, dispatchVars, gone>>

\* The other end sends, or closes.
Arrive(h, what) ==
    /\ h <= nextSocket /\ h \notin closed /\ wire[h] = "nothing"
    /\ wire' = [wire EXCEPT ![h] = what]
    /\ UNCHANGED <<nextSocket, listeners, table, closing, closed, packets, raw, flagVars,
                   dispatchVars, gone>>

-----------------------------------------------------------------------------
(* The module on the emulation thread                                       *)

GuestRuns == step \in {"idle", "inside", "told"} /\ ~disabled

\* The module closes a socket, from the event it handles or from another of its
\* handlers.
GuestCloses(h) ==
    /\ GuestRuns /\ h \in table
    /\ table' = table \ {h} /\ Closes(h)
    /\ gone' = gone \union {h}
    /\ UNCHANGED <<nextSocket, listeners, closing, packets, raw, flagVars, dispatchVars>>

\* The handler of the event is back in the loop that called it, which goes on to its
\* guard; the event of an end was the last one.
Return ==
    /\ step \in {"inside", "told"}
    /\ step' = IF step = "told" THEN "next" ELSE "read"
    /\ event' = Nothing
    /\ UNCHANGED <<tableVars, flagVars, watched, offset, start, work, delivered, accepted,
                   networkCursor, gone>>

\* The module traps in its handler, or on another of its threads.
Trap ==
    /\ ~disabled
    /\ disabled' = TRUE
    /\ UNCHANGED <<tableVars, stopping, released, dispatchVars, gone>>

\* Shutdown: the module is told to stop, then Net_Release_Owner takes its table and
\* closes the entries.
Stop ==
    /\ step = "idle" /\ ~stopping
    /\ stopping' = TRUE
    /\ UNCHANGED <<tableVars, disabled, released, dispatchVars, gone>>

Net_Release_Owner ==
    /\ step = "idle" /\ stopping /\ ~released
    /\ released' = TRUE
    /\ closing' = closing \union table /\ table' = {}
    /\ gone' = gone \union table
    /\ UNCHANGED <<nextSocket, listeners, closed, packets, raw, wire, disabled, stopping,
                   dispatchVars>>

-----------------------------------------------------------------------------
(* Net_Dispatch                                                             *)

\* What the dispatch asks before each thing it does for a socket.
ActiveOwner(h) == ~stopping /\ ~disabled
Active(h) == ~stopping /\ ~disabled /\ h \notin closed

Index == (start + offset) % Len(watched)
Current == watched[Index + 1]

\* Where the walk begins.
FromTheCursor == networkCursor

InOrder(handles) ==
    {s \in [1..Cardinality(handles) -> handles] :
        \A i, j \in DOMAIN s : i < j => Rank[s[i]] < Rank[s[j]]}

Dispatch ==
    /\ step = "idle" /\ ~stopping /\ ~disabled
    /\ \E seen \in InOrder((table \intersect packets) \ closed) :
          /\ seen # <<>>
          /\ watched' = seen
          /\ start' = FromTheCursor % Len(seen)
    /\ work' = Work
    /\ step' = "walk"
    /\ UNCHANGED <<tableVars, flagVars, offset, delivered, accepted, networkCursor, event, gone>>

\* The next socket of the walk: its turn moves the cursor even if nothing is done.
Walk ==
    /\ step = "walk" /\ offset < Len(watched) /\ work > 0
    /\ networkCursor' = Index + 1
    /\ step' = IF Active(Current) THEN "flush" ELSE "next"
    /\ UNCHANGED <<tableVars, flagVars, watched, offset, start, work, delivered, accepted,
                   event, gone>>

Advance ==
    /\ step = "next"
    /\ offset' = offset + 1 /\ delivered' = 0 /\ step' = "walk"
    /\ UNCHANGED <<tableVars, flagVars, watched, start, work, accepted, networkCursor, event, gone>>

WalkDone ==
    /\ step = "walk" /\ (offset = Len(watched) \/ work = 0)
    /\ step' = "idle" /\ watched' = <<>> /\ offset' = 0 /\ start' = 0 /\ work' = 0
    /\ wire' = [h \in Handles |-> IF h \in closed THEN "nothing" ELSE wire[h]]
    /\ UNCHANGED <<nextSocket, listeners, table, closing, closed, packets, raw, flagVars,
                   delivered, accepted, networkCursor, event, gone>>

\* Flush_Packets: part of the queue goes out.
Flush ==
    /\ step = "flush"
    /\ \E spent \in 0..EventBudget : spent <= work /\ work' = work - spent
    /\ step' = "read"
    /\ UNCHANGED <<tableVars, flagVars, watched, offset, start, delivered, accepted,
                   networkCursor, event, gone>>

\* The one that closes the entry takes it out of the table and tells the module.
Closed(h) ==
    /\ Closes(h)
    /\ table' = IF h \notin closed THEN table \ {h} ELSE table
    /\ IF h \notin closed /\ ~stopping /\ ~disabled
       THEN step' = "told" /\ event' = h /\ gone' = gone \union {h}
       ELSE step' = "next" /\ UNCHANGED <<event, gone>>

\* Flush_Packets finds the connection broken by a send, which is counted.
FlushFails ==
    /\ step = "flush"
    /\ \E spent \in 1..EventBudget : spent <= work /\ work' = work - spent
    /\ Closed(Current)
    /\ UNCHANGED <<nextSocket, listeners, closing, packets, raw, flagVars,
                   watched, offset, start, delivered, accepted, networkCursor>>

Reads == step = "read" /\ Active(Current) /\ work > 0 /\ delivered < EventBudget

\* Read_Stream and Read_Datagrams: one packet, decoded before the last look at the
\* socket.
ReadPacket ==
    /\ Reads /\ Current \notin listeners /\ wire[Current] = "data"
    /\ wire' = [wire EXCEPT ![Current] = "nothing"]
    /\ work' = work - 1 /\ delivered' = delivered + 1
    /\ step' = "deliver"
    /\ UNCHANGED <<nextSocket, listeners, table, closing, closed, packets, raw, flagVars,
                   watched, offset, start, accepted, networkCursor, event, gone>>

\* Accept_Packets: one connection, whose socket is in the table before the module
\* hears of it.
Accept ==
    /\ Reads /\ Current \in listeners /\ wire[Current] = "data"
    /\ Added(FALSE, TRUE)
    /\ accepted' = nextSocket + 1
    /\ wire' = [wire EXCEPT ![Current] = "nothing"]
    /\ work' = work - 1 /\ delivered' = delivered + 1
    /\ step' = "deliver"
    /\ UNCHANGED <<closing, closed, raw, flagVars, watched, offset, start, networkCursor,
                   event, gone>>

Deliver ==
    /\ step = "deliver" /\ Active(Current)
    /\ step' = "inside" /\ event' = Current /\ accepted' = Nothing
    /\ UNCHANGED <<tableVars, flagVars, watched, offset, start, work, delivered, networkCursor,
                   gone>>

\* A packet is dropped, a connection is closed again; the loop goes on to its own guard.
Drop ==
    /\ step = "deliver" /\ ~Active(Current)
    /\ table' = table \ {accepted}
    /\ IF accepted \in table
       THEN Closes(accepted) /\ gone' = gone \union {accepted}
       ELSE UNCHANGED <<closed, wire, gone>>
    /\ step' = "read" /\ accepted' = Nothing
    /\ UNCHANGED <<nextSocket, listeners, closing, packets, raw, flagVars,
                   watched, offset, start, work, delivered, networkCursor, event>>

\* The other end is gone; a listener is closed after its loop, whatever ended that.
ReadEnd ==
    /\ Reads \/ (step = "read" /\ Current \in listeners)
    /\ wire[Current] = "end"
    /\ work' = IF work > 0 THEN work - 1 ELSE 0
    /\ Closed(Current)
    /\ UNCHANGED <<nextSocket, listeners, closing, packets, raw, flagVars,
                   watched, offset, start, delivered, accepted, networkCursor>>

ReadDone ==
    /\ step = "read"
    /\ \/ wire[Current] = "nothing"
       \/ ~Reads /\ (wire[Current] = "end" => Current \notin listeners)
       \/ Current \in listeners /\ wire[Current] = "data" /\ (Refuses \/ nextSocket = MaxSocket)
    /\ step' = "next"
    /\ UNCHANGED <<tableVars, flagVars, watched, offset, start, work, delivered, accepted,
                   networkCursor, event, gone>>

-----------------------------------------------------------------------------
Continue ==
    \/ Return
    \/ Walk
    \/ Advance
    \/ WalkDone
    \/ Flush
    \/ FlushFails
    \/ ReadPacket
    \/ Accept
    \/ Deliver
    \/ Drop
    \/ ReadEnd
    \/ ReadDone

Next ==
    \/ \E listening \in BOOLEAN : Open(listening)
    \/ \E h \in Handles : BeginRaw(h)
    \/ \E h \in Handles : EndRaw(h)
    \/ \E h \in Handles : Enable_Packets(h)
    \/ \E h \in Handles : Close(h)
    \/ \E h \in Handles : CloseEntry(h)
    \/ \E h \in Handles, what \in {"data", "end"} : Arrive(h, what)
    \/ \E h \in Handles : GuestCloses(h)
    \/ Trap
    \/ Stop
    \/ Net_Release_Owner
    \/ Dispatch
    \/ Continue

\* Net_Dispatch runs after every refresh, and the module's handlers return.
Fairness == WF_vars(Continue) /\ WF_vars(Dispatch)

Spec == Init /\ [][Next]_vars /\ Fairness

-----------------------------------------------------------------------------
TypeOK ==
    /\ nextSocket \in 0..MaxSocket /\ listeners \subseteq Handles
    /\ table \subseteq Handles /\ closing \subseteq Handles
    /\ closed \subseteq Handles /\ packets \subseteq Handles /\ gone \subseteq Handles
    /\ raw \in [Handles -> 0..MaxRaw]
    /\ wire \in [Handles -> {"nothing", "data", "end"}]
    /\ step \in {"idle", "walk", "flush", "read", "deliver", "inside", "told", "next"}
    /\ watched \in Seq(Handles) /\ offset \in 0..MaxSocket /\ start \in 0..MaxSocket
    /\ work \in 0..Work /\ delivered \in 0..EventBudget
    /\ networkCursor \in 0..MaxSocket
    /\ accepted \in Handles \union {Nothing} /\ event \in Handles \union {Nothing}

\* No thread is inside an operation on a socket whose packets the dispatch reads.
RawOrPackets == \A h \in packets : raw[h] = 0

\* Once the sockets of a module are released none is added, whatever its threads were
\* opening, and every one is closed or about to be.
NothingLeftOpen ==
    /\ released => table = {}
    /\ \A h \in 1..nextSocket : h \in table \union closing \union closed

SocketsSound == TypeOK /\ RawOrPackets /\ NothingLeftOpen

\* The module hears of the end of a socket once, and hears nothing of a socket after
\* that or after it closed it from an event, though the dispatch goes on with the list
\* that it made before.
NoEventAfterTheEnd == [][event' # event /\ event' # Nothing => event' \notin gone]_vars

\* A packet socket at which something waits.
Waiting(h) == h \in table \intersect packets /\ Active(h) /\ wire[h] = "data"

\* It has its turn while the dispatch still may do something: the budget of one
\* dispatch may run out at the others, but the next begins behind them.
EverySocketHasItsTurn ==
    \A h \in Handles :
        Waiting(h) ~> ~Waiting(h) \/ (step = "flush" /\ Current = h)
=============================================================================
