------------------------------ MODULE Session ------------------------------
(***************************************************************************)
(* A game session: client/src/session.cpp with the hold of runtime.cpp and *)
(* the savestates of platforms/n64/savestates.cpp.  The user asks for      *)
(* pauses, restarts, states and the end from the thread of the window; the *)
(* emulation thread looks at the flags after every refresh of the machine  *)
(* and while it holds.  The adapter, which runs the machine, is external:  *)
(* it raises an event for a restart or a state that it has accepted, and   *)
(* returns when it was asked to quit.                                      *)
(***************************************************************************)
EXTENDS Integers

CONSTANTS
    Retries,                    \* gStateRetryRefreshes
    Images,                     \* contents of the image that modules change
    NoState,
    MaxToggles, MaxRestarts, MaxRequests    \* bounds of the checked instances

\* The module that instantiates this one assumes it of its constants.
SessionAssumption ==
    /\ Retries \in Nat \ {0}
    /\ NoState \notin Images
    /\ MaxToggles \in Nat /\ MaxRestarts \in Nat /\ MaxRequests \in Nat

VARIABLES
    pauseRequested, restartRequested, quitRequested, resetPending, loadPending,
    requested,                  \* the one request that the presenter keeps
    saveRetries, pendingImageChanges,       \* of N64_Platform
    paused,                     \* Runtime::paused: a breakpoint holds the machine
    at,                         \* where the emulation thread is
    pressing,                   \* the window's thread is in the middle of a call
    image,                      \* the image of the machine
    file,                       \* the image in the state on disk
    adapter,                    \* what the adapter has accepted
    presses,                    \* how often the user asked for what
    owed                        \* history: a restart was asked for and not answered

flagVars == <<pauseRequested, restartRequested, quitRequested>>
stateVars == <<saveRetries, pendingImageChanges, image, file>>
vars == <<flagVars, resetPending, loadPending, requested, stateVars, paused, at, pressing,
          adapter, presses, owed>>

Init ==
    /\ pauseRequested = FALSE /\ restartRequested = FALSE /\ quitRequested = FALSE
    /\ resetPending = FALSE /\ loadPending = FALSE
    /\ requested = "none"
    /\ saveRetries = 0 /\ pendingImageChanges = NoState
    /\ paused = FALSE
    /\ at = "machine" /\ pressing = "nothing"
    /\ image \in Images /\ file = NoState
    /\ adapter = [reset |-> FALSE, load |-> NoState, quit |-> FALSE]
    /\ presses = [toggles |-> 0, restarts |-> 0, requests |-> 0]
    /\ owed = FALSE

Restarting == restartRequested \/ resetPending

-----------------------------------------------------------------------------
(* The window's thread                                                      *)

Press(what, limit) ==
    /\ pressing = "nothing" /\ at # "over"
    /\ presses[what] < limit
    /\ presses' = [presses EXCEPT ![what] = @ + 1]

TogglePause ==
    /\ Press("toggles", MaxToggles)
    /\ pauseRequested' = ~pauseRequested
    /\ UNCHANGED <<restartRequested, quitRequested, resetPending, loadPending, requested,
                   stateVars, paused, at, pressing, adapter, owed>>

\* Restart_Emulation stores the request first and takes the pause back after it.
Restart_Emulation ==
    /\ Press("restarts", MaxRestarts)
    /\ restartRequested' = TRUE /\ owed' = TRUE
    /\ pressing' = "restart"
    /\ UNCHANGED <<pauseRequested, quitRequested, resetPending, loadPending, requested,
                   stateVars, paused, at, adapter>>

Unpause ==
    /\ pressing = "restart"
    /\ pauseRequested' = FALSE
    /\ pressing' = "nothing"
    /\ UNCHANGED <<restartRequested, quitRequested, resetPending, loadPending, requested,
                   stateVars, paused, at, adapter, presses, owed>>

Post_Request(what) ==
    /\ Press("requests", MaxRequests)
    /\ requested' = what
    /\ UNCHANGED <<flagVars, resetPending, loadPending, stateVars, paused, at, pressing,
                   adapter, owed>>

Request_Quit ==
    /\ pressing = "nothing" /\ at # "over" /\ ~quitRequested
    /\ quitRequested' = TRUE
    /\ pressing' = "quit"
    /\ UNCHANGED <<pauseRequested, restartRequested, resetPending, loadPending, requested,
                   stateVars, paused, at, adapter, presses, owed>>

\* The winner of the exchange tells the adapter.
TellAdapter ==
    /\ pressing = "quit"
    /\ adapter' = [adapter EXCEPT !.quit = TRUE]
    /\ pressing' = "nothing"
    /\ UNCHANGED <<flagVars, resetPending, loadPending, requested, stateVars, paused, at,
                   presses, owed>>

-----------------------------------------------------------------------------
(* The adapter's loop, on the emulation thread                              *)

\* The machine runs and modules change the image of the game.
Run ==
    /\ at = "machine"
    /\ image' \in Images
    /\ UNCHANGED <<flagVars, resetPending, loadPending, requested, saveRetries,
                   pendingImageChanges, file, paused, at, pressing, adapter, presses, owed>>

Refresh ==
    /\ at = "machine"
    /\ loadPending' = FALSE
    /\ at' = "take"
    /\ UNCHANGED <<flagVars, resetPending, requested, stateVars, paused, pressing, adapter,
                   presses, owed>>

RaiseReset ==
    /\ at = "machine" /\ adapter.reset
    /\ adapter' = [adapter EXCEPT !.reset = FALSE]
    /\ resetPending' = FALSE
    /\ owed' = restartRequested
    /\ UNCHANGED <<flagVars, loadPending, requested, stateVars, paused, at, pressing, presses>>

\* Restore_Image, when the machine has loaded a state.  The image may have to be
\* resized, which may fail.
RaiseStateLoaded ==
    /\ at = "machine" /\ adapter.load # NoState
    /\ adapter' = [adapter EXCEPT !.load = NoState]
    /\ image' \in {image, pendingImageChanges} \ {NoState}
    /\ pendingImageChanges' = NoState
    /\ UNCHANGED <<flagVars, resetPending, loadPending, requested, saveRetries, file, paused,
                   at, pressing, presses, owed>>

\* A breakpoint stops the machine, unless it is about to be restarted.
Breakpoint ==
    /\ at = "machine" /\ ~Restarting
    /\ paused' = TRUE
    /\ at' = "break"
    /\ UNCHANGED <<flagVars, resetPending, loadPending, requested, stateVars, pressing,
                   adapter, presses, owed>>

AdapterReturns ==
    /\ at = "machine" /\ adapter.quit
    /\ at' = "over"
    /\ UNCHANGED <<flagVars, resetPending, loadPending, requested, stateVars, paused,
                   pressing, adapter, presses, owed>>

-----------------------------------------------------------------------------
(* Requests for states                                                      *)

\* Retry_Save_State with the retries that are left: the adapter may be busy, which
\* is tried again at the next refresh, refuse, or give its state.  The other ways
\* to fail, a module that blocks savestates among them, end as a refusal.
RetrySave(retries) ==
    IF retries = 0
    THEN saveRetries' = 0 /\ file' = file
    ELSE \/ saveRetries' = retries - 1 /\ file' = file      \* busy, or given up at the last
         \/ saveRetries' = 0 /\ file' \in {file, image}

\* The image changes that wait for the state to be loaded, after the adapter took
\* the state or not.
KeptBeforeLoad(taken) == file
ChangesKept(taken) == IF taken THEN file ELSE pendingImageChanges

\* Load_State: nothing is kept of a state that cannot be read or that the adapter
\* refuses.
LoadState ==
    /\ saveRetries' = 0 /\ file' = file
    /\ \E taken \in BOOLEAN :
          /\ taken => file # NoState
          /\ loadPending' = taken
          /\ adapter' = IF taken THEN [adapter EXCEPT !.load = file] ELSE adapter
          /\ pendingImageChanges' = ChangesKept(taken)

Take_Requests ==
    /\ at \in {"take", "held"}
    /\ requested' = "none"
    /\ IF requested = "load"
       THEN LoadState
       ELSE /\ RetrySave(IF requested = "save" THEN Retries ELSE saveRetries)
            /\ UNCHANGED <<loadPending, adapter, pendingImageChanges>>
    /\ at' = IF at = "take" THEN "decide" ELSE "holding"
    /\ UNCHANGED <<flagVars, resetPending, image, paused, pressing, presses, owed>>

-----------------------------------------------------------------------------
(* What a refresh decides                                                   *)

\* Restart: a reset that has not come yet answers this request too.
BeginRestart ==
    /\ restartRequested /\ restartRequested' = FALSE
    /\ IF resetPending
       THEN at' = "machine" /\ UNCHANGED resetPending
       ELSE at' = "reset" /\ resetPending' = TRUE
    /\ UNCHANGED loadPending

Decide ==
    /\ at = "decide"
    /\ \/ BeginRestart
       \/ /\ ~restartRequested
          /\ IF pauseRequested /\ ~quitRequested /\ ~loadPending
             THEN at' = "held" /\ loadPending' = FALSE
             ELSE at' = "machine" /\ UNCHANGED loadPending
          /\ UNCHANGED <<restartRequested, resetPending>>
    /\ UNCHANGED <<pauseRequested, quitRequested, requested, stateVars, paused, pressing,
                   adapter, presses, owed>>

\* What a hold looks at beside its own condition.
EndsHold == quitRequested \/ Restarting

\* Runtime::Hold asked for by the user: the condition, and a nap between two looks.
Holding ==
    /\ at = "holding"
    /\ at' = IF pauseRequested /\ ~loadPending /\ ~EndsHold THEN "held" ELSE "leave"
    /\ UNCHANGED <<flagVars, resetPending, loadPending, requested, stateVars, paused,
                   pressing, adapter, presses, owed>>

Leave ==
    /\ at = "leave"
    /\ \/ BeginRestart
       \/ ~restartRequested /\ at' = "machine"
          /\ UNCHANGED <<restartRequested, resetPending, loadPending>>
    /\ UNCHANGED <<pauseRequested, quitRequested, requested, stateVars, paused, pressing,
                   adapter, presses, owed>>

\* The flag after an adapter refused to reset the machine.
StaysPending == resetPending
RefusedClears == FALSE

\* The adapter's answer, after the modules heard of the restart.
Reset ==
    /\ at = "reset"
    /\ \/ adapter' = [adapter EXCEPT !.reset = TRUE] /\ UNCHANGED <<resetPending, owed>>
       \/ resetPending' = RefusedClears /\ owed' = restartRequested /\ UNCHANGED adapter
    /\ at' = "machine"
    /\ UNCHANGED <<flagVars, loadPending, requested, stateVars, paused, pressing, presses>>

-----------------------------------------------------------------------------
(* The hold at a breakpoint                                                 *)

\* A module resumes the machine from an event that it gets while it is held.
Resume ==
    /\ at = "break" /\ paused
    /\ paused' = FALSE
    /\ UNCHANGED <<flagVars, resetPending, loadPending, requested, stateVars, at, pressing,
                   adapter, presses, owed>>

LeaveBreak ==
    /\ at = "break" /\ (~paused \/ EndsHold)
    /\ paused' = FALSE
    /\ at' = "machine"
    /\ UNCHANGED <<flagVars, resetPending, loadPending, requested, stateVars, pressing,
                   adapter, presses, owed>>

-----------------------------------------------------------------------------
Continue == Take_Requests \/ Decide \/ Holding \/ Leave \/ Reset \/ LeaveBreak

Finish == Unpause \/ TellAdapter

Next ==
    \/ TogglePause
    \/ Restart_Emulation
    \/ \E what \in {"save", "load"} : Post_Request(what)
    \/ Request_Quit
    \/ Run
    \/ Refresh
    \/ RaiseReset
    \/ RaiseStateLoaded
    \/ Breakpoint
    \/ AdapterReturns
    \/ Resume
    \/ Continue
    \/ Finish

\* Both threads run; the machine refreshes; the adapter raises the reset that it
\* accepted and returns when it was asked to.  Nothing is assumed of the user, and a
\* module that holds the machine at a breakpoint need not resume it.
Fairness ==
    /\ WF_vars(Continue)
    /\ WF_vars(Finish)
    /\ SF_vars(Refresh)
    /\ SF_vars(RaiseReset)
    /\ SF_vars(AdapterReturns)

Spec == Init /\ [][Next]_vars /\ Fairness

-----------------------------------------------------------------------------
TypeOK ==
    /\ flagVars \in BOOLEAN \X BOOLEAN \X BOOLEAN
    /\ resetPending \in BOOLEAN /\ loadPending \in BOOLEAN /\ paused \in BOOLEAN /\ owed \in BOOLEAN
    /\ requested \in {"none", "save", "load"}
    /\ saveRetries \in 0..Retries
    /\ pendingImageChanges \in Images \union {NoState} /\ file \in Images \union {NoState}
    /\ image \in Images
    /\ at \in {"machine", "take", "decide", "held", "holding", "leave", "reset", "break", "over"}
    /\ pressing \in {"nothing", "restart", "quit"}
    /\ adapter \in [reset : BOOLEAN, load : Images \union {NoState}, quit : BOOLEAN]

\* The image changes that wait for the adapter are those of the very state that it is
\* about to load, also after a second request to load that fails or succeeds.
StatesAreWhole == pendingImageChanges = adapter.load

\* The machine is held at a breakpoint only inside its callback, and whatever waits for
\* a reset event has an adapter that will raise one, or is about to be asked.
ResetsAreDue ==
    /\ paused => at = "break"
    /\ resetPending <=> adapter.reset \/ at = "reset"
    /\ owed => restartRequested \/ resetPending

SessionSound == TypeOK /\ StatesAreWhole /\ ResetsAreDue

\* A restart that the user asks for is made or refused by the adapter, also when it is
\* followed by a pause or falls into a hold; only the end of the session drops it.
RestartsAreAnswered == owed ~> ~owed \/ quitRequested

\* The end that the user asks for comes, whatever holds the machine.
QuitEnds == quitRequested ~> at = "over"

\* A pause that is not taken back stops the machine for good.
PausesHold ==
    <>[](pauseRequested /\ ~quitRequested) => <>[](at \in {"held", "holding", "break"})

SessionAnswers == RestartsAreAnswered /\ QuitEnds /\ PausesHold
=============================================================================
