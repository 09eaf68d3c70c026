-------------------------------- MODULE MCHost --------------------------------
(***************************************************************************)
(* Parts of the host that the emulation thread and the frame loop serve,   *)
(* and of which liveness is asked, in one state space: a behaviour is one  *)
(* of `part'.                                                              *)
(***************************************************************************)
EXTENDS Integers, FiniteSets, SequencesExt

CONSTANTS
    ModuleCount, Events, NoList,                                    \* the runtime
    Retries, Images, NoState, MaxToggles, MaxRestarts, MaxRequests, \* a session
    MaxSocket, Rank, MaxRaw, Work, EventBudget                      \* sockets

VARIABLES
    part,                                   \* which of them the behaviour is of
    events, subscribers, lists, dead, ending, initialized, freed, pendingDispatch,
    dispatchPending, doing, turn, recipients, pending, inside, first, heard, asked,
    pauseRequested, restartRequested, quitRequested, resetPending, loadPending, requested,
    saveRetries, pendingImageChanges, paused, at, pressing, image, file, adapter, presses,
    owed,
    nextSocket, listeners, table, closing, closed, packets, raw, wire, disabled, stopping,
    released, step, watched, offset, start, work, delivered, accepted, networkCursor, event,
    gone

runtimeVars == <<events, subscribers, lists, dead, ending, initialized, freed,
                 pendingDispatch, dispatchPending, doing, turn, recipients, pending, inside,
                 first, heard, asked>>
sessionVars == <<pauseRequested, restartRequested, quitRequested, resetPending, loadPending,
                 requested, saveRetries, pendingImageChanges, paused, at, pressing, image,
                 file, adapter, presses, owed>>
socketVars == <<nextSocket, listeners, table, closing, closed, packets, raw, wire, disabled,
                stopping, released, step, watched, offset, start, work, delivered, accepted,
                networkCursor, event, gone>>
vars == <<part, runtimeVars, sessionVars, socketVars>>

Runtime == INSTANCE Runtime WITH
    disabled <- dead, stopping <- ending, released <- freed, at <- doing, start <- first
Session == INSTANCE Session
Sockets == INSTANCE Sockets

ASSUME HostAssumption ==
    Runtime!RuntimeAssumption /\ Session!SessionAssumption /\ Sockets!SocketsAssumption

\* A hash table puts what is added first in a walk, until it grows.
MCRank == [h \in 1..MaxSocket |-> MaxSocket - h]

-----------------------------------------------------------------------------

\* The state of the parts that a behaviour is not of does not matter and has one value.
Init ==
    /\ part \in {"runtime", "session", "sockets"}
    /\ Runtime!Init /\ (part # "runtime" => dead = {})
    /\ Session!Init /\ (part # "session" => image = CHOOSE i \in Images : TRUE)
    /\ Sockets!Init

RuntimeNext ==
    /\ part = "runtime" /\ Runtime!Next
    /\ UNCHANGED <<part, sessionVars, socketVars>>
SessionNext ==
    /\ part = "session" /\ Session!Next
    /\ UNCHANGED <<part, runtimeVars, socketVars>>
SocketsNext ==
    /\ part = "sockets" /\ Sockets!Next
    /\ UNCHANGED <<part, runtimeVars, sessionVars>>

Next == RuntimeNext \/ SessionNext \/ SocketsNext

Spec ==
    /\ Init /\ [][Next]_vars
    /\ WF_runtimeVars(part = "runtime" /\ Runtime!Continue)
    /\ WF_runtimeVars(part = "runtime" /\ \E e \in Events : Runtime!Event(e))
    /\ WF_sessionVars(part = "session" /\ Session!Continue)
    /\ WF_sessionVars(part = "session" /\ Session!Finish)
    /\ SF_sessionVars(part = "session" /\ Session!Refresh)
    /\ SF_sessionVars(part = "session" /\ Session!RaiseReset)
    /\ SF_sessionVars(part = "session" /\ Session!AdapterReturns)
    /\ WF_socketVars(part = "sockets" /\ Sockets!Continue)
    /\ WF_socketVars(part = "sockets" /\ Sockets!Dispatch)

-----------------------------------------------------------------------------
(* The properties of the modules under names of this one; each is stated and *)
(* explained there.                                                          *)

\* The tables of the runtime agree, every follower of an event hears its three phases,
\* and a requested dispatch is kept until it is made.
RuntimeSound == part = "runtime" => Runtime!RuntimeSound

\* Image changes belong to the state that is about to be loaded, and a restart that was
\* asked for is known to somebody.
SessionSound == part = "session" => Session!SessionSound

\* Threads and packets never share a socket, and no socket is left open.
SocketsSound == part = "sockets" => Sockets!SocketsSound

\* Requested dispatches are made; restarts are answered, the end comes when it is asked
\* for, and a pause holds; every socket with packets has its turn.
HostAnswers ==
    Runtime!RequestsServed /\ Session!SessionAnswers /\ Sockets!EverySocketHasItsTurn

\* No packet of a socket after its end.
NoEventAfterTheEnd == Sockets!NoEventAfterTheEnd
=============================================================================
