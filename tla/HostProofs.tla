----------------------------- MODULE HostProofs -----------------------------
(*****************************************************************************)
(* Proofs about the parts of the host, for every number of modules, sockets  *)
(* and retries and every set of events and images.  Each part has an         *)
(* inductive invariant of its own; the steps of the other parts leave its    *)
(* variables alone.                                                          *)
(*                                                                           *)
(* A session: SessionInv adds to what is claimed only that an adapter that   *)
(* is being asked to reset is not resetting already.                         *)
(*                                                                           *)
(* The sockets: SocketInv knows where the walk of a dispatch is              *)
(* (SocketWalk) and that a socket that is gone is closed while the module    *)
(* still hears of others (SocketEnds).                                       *)
(*                                                                           *)
(* The runtime: RuntimeInv knows whose each list is (RuntimeLists), so a     *)
(* change of subscriptions never touches the list that a delivery holds;     *)
(* what a delivery has called is then the beginning of a fixed list of       *)
(* calls, without some of modules that have trapped (HeardBut).              *)
(*****************************************************************************)
EXTENDS MCHost, VectorTheorems

-----------------------------------------------------------------------------
(* A session                                                                *)

SessionFlags ==
    /\ pauseRequested \in BOOLEAN /\ restartRequested \in BOOLEAN /\ quitRequested \in BOOLEAN
    /\ resetPending \in BOOLEAN /\ loadPending \in BOOLEAN /\ paused \in BOOLEAN
    /\ owed \in BOOLEAN

SessionTypes ==
    /\ requested \in {"none", "save", "load"}
    /\ saveRetries \in 0..Retries
    /\ pendingImageChanges \in Images \union {NoState} /\ file \in Images \union {NoState}
    /\ image \in Images
    /\ at \in {"machine", "take", "decide", "held", "holding", "leave", "reset", "break", "over"}
    /\ pressing \in {"nothing", "restart", "quit"}
    /\ adapter \in [reset : BOOLEAN, load : Images \union {NoState}, quit : BOOLEAN]

SessionInv ==
    /\ SessionFlags
    /\ SessionTypes
    /\ Session!StatesAreWhole
    /\ Session!ResetsAreDue
    /\ at = "reset" => ~adapter.reset

\* A session starts with no request and nothing pending.
LEMMA SessionInitially == Session!Init => SessionInv
<1>. SUFFICES ASSUME Session!Init PROVE SessionInv
  OBVIOUS
<1>1. SessionFlags
  BY DEF Session!Init, SessionFlags
<1>2. SessionTypes
  BY HostAssumption DEF Session!Init, SessionTypes, Session!SessionAssumption
<1>3. Session!StatesAreWhole /\ Session!ResetsAreDue /\ (at = "reset" => ~adapter.reset)
  BY DEF Session!Init, Session!StatesAreWhole, Session!ResetsAreDue
<1>. QED
  BY <1>1, <1>2, <1>3 DEF SessionInv

\* TogglePause_Emulation.
LEMMA SessionTogglePause == ASSUME SessionInv, Session!TogglePause PROVE SessionInv'
<1>1. SessionFlags'
  BY DEF SessionInv, SessionFlags, Session!TogglePause, Session!Press, Session!flagVars,
     Session!stateVars
<1>2. SessionTypes'
  BY HostAssumption DEF SessionInv, SessionTypes, Session!SessionAssumption,
     Session!TogglePause, Session!Press, Session!flagVars, Session!stateVars
<1>3. Session!StatesAreWhole'
  BY DEF SessionInv, SessionTypes, Session!StatesAreWhole, Session!TogglePause,
     Session!Press, Session!flagVars, Session!stateVars
<1>4. Session!ResetsAreDue' /\ (at = "reset" => ~adapter.reset)'
  BY DEF SessionInv, SessionFlags, SessionTypes, Session!ResetsAreDue,
     Session!TogglePause, Session!Press, Session!flagVars, Session!stateVars
<1>. QED
  BY <1>1, <1>2, <1>3, <1>4 DEF SessionInv

\* The request for a restart is stored: it is owed.
LEMMA SessionRestartEmulation ==
    ASSUME SessionInv, Session!Restart_Emulation
    PROVE  SessionInv'
<1>1. SessionFlags'
  BY DEF SessionInv, SessionFlags, Session!Restart_Emulation, Session!Press,
     Session!flagVars, Session!stateVars
<1>2. SessionTypes'
  BY HostAssumption DEF SessionInv, SessionTypes, Session!SessionAssumption,
     Session!Restart_Emulation, Session!Press, Session!flagVars, Session!stateVars
<1>3. Session!StatesAreWhole'
  BY DEF SessionInv, SessionTypes, Session!StatesAreWhole, Session!Restart_Emulation,
     Session!Press, Session!flagVars, Session!stateVars
<1>4. Session!ResetsAreDue' /\ (at = "reset" => ~adapter.reset)'
  BY DEF SessionInv, SessionFlags, SessionTypes, Session!ResetsAreDue,
     Session!Restart_Emulation, Session!Press, Session!flagVars, Session!stateVars
<1>. QED
  BY <1>1, <1>2, <1>3, <1>4 DEF SessionInv

\* The request for a restart takes the pause back.
LEMMA SessionUnpause == ASSUME SessionInv, Session!Unpause PROVE SessionInv'
<1>1. SessionFlags'
  BY DEF SessionInv, SessionFlags, Session!Unpause, Session!flagVars, Session!stateVars
<1>2. SessionTypes'
  BY HostAssumption DEF SessionInv, SessionTypes, Session!SessionAssumption,
     Session!Unpause, Session!flagVars, Session!stateVars
<1>3. Session!StatesAreWhole'
  BY DEF SessionInv, SessionTypes, Session!StatesAreWhole, Session!Unpause,
     Session!flagVars, Session!stateVars
<1>4. Session!ResetsAreDue' /\ (at = "reset" => ~adapter.reset)'
  BY DEF SessionInv, SessionFlags, SessionTypes, Session!ResetsAreDue, Session!Unpause,
     Session!flagVars, Session!stateVars
<1>. QED
  BY <1>1, <1>2, <1>3, <1>4 DEF SessionInv

\* The first that asks to quit.
LEMMA SessionRequestQuit == ASSUME SessionInv, Session!Request_Quit PROVE SessionInv'
<1>1. SessionFlags'
  BY DEF SessionInv, SessionFlags, Session!Request_Quit, Session!flagVars, Session!stateVars
<1>2. SessionTypes'
  BY HostAssumption DEF SessionInv, SessionTypes, Session!SessionAssumption,
     Session!Request_Quit, Session!flagVars, Session!stateVars
<1>3. Session!StatesAreWhole'
  BY DEF SessionInv, SessionTypes, Session!StatesAreWhole, Session!Request_Quit,
     Session!flagVars, Session!stateVars
<1>4. Session!ResetsAreDue' /\ (at = "reset" => ~adapter.reset)'
  BY DEF SessionInv, SessionFlags, SessionTypes, Session!ResetsAreDue,
     Session!Request_Quit, Session!flagVars, Session!stateVars
<1>. QED
  BY <1>1, <1>2, <1>3, <1>4 DEF SessionInv

\* The adapter is told to quit.
LEMMA SessionTellAdapter == ASSUME SessionInv, Session!TellAdapter PROVE SessionInv'
<1>1. SessionFlags'
  BY DEF SessionInv, SessionFlags, Session!TellAdapter, Session!flagVars, Session!stateVars
<1>2. SessionTypes'
  BY HostAssumption DEF SessionInv, SessionTypes, Session!SessionAssumption,
     Session!TellAdapter, Session!flagVars, Session!stateVars
<1>3. Session!StatesAreWhole'
  BY DEF SessionInv, SessionTypes, Session!StatesAreWhole, Session!TellAdapter,
     Session!flagVars, Session!stateVars
<1>4. Session!ResetsAreDue' /\ (at = "reset" => ~adapter.reset)'
  BY DEF SessionInv, SessionFlags, SessionTypes, Session!ResetsAreDue,
     Session!TellAdapter, Session!flagVars, Session!stateVars
<1>. QED
  BY <1>1, <1>2, <1>3, <1>4 DEF SessionInv

\* The machine runs, and the image changes.
LEMMA SessionRun == ASSUME SessionInv, Session!Run PROVE SessionInv'
<1>1. SessionFlags'
  BY DEF SessionInv, SessionFlags, Session!Run, Session!flagVars, Session!stateVars
<1>2. SessionTypes'
  BY HostAssumption DEF SessionInv, SessionTypes, Session!SessionAssumption, Session!Run,
     Session!flagVars, Session!stateVars
<1>3. Session!StatesAreWhole'
  BY DEF SessionInv, SessionTypes, Session!StatesAreWhole, Session!Run, Session!flagVars,
     Session!stateVars
<1>4. Session!ResetsAreDue' /\ (at = "reset" => ~adapter.reset)'
  BY DEF SessionInv, SessionFlags, SessionTypes, Session!ResetsAreDue, Session!Run,
     Session!flagVars, Session!stateVars
<1>. QED
  BY <1>1, <1>2, <1>3, <1>4 DEF SessionInv

\* A refresh: a load that was pending has happened.
LEMMA SessionRefresh == ASSUME SessionInv, Session!Refresh PROVE SessionInv'
<1>1. SessionFlags'
  BY DEF SessionInv, SessionFlags, Session!Refresh, Session!flagVars, Session!stateVars
<1>2. SessionTypes'
  BY HostAssumption DEF SessionInv, SessionTypes, Session!SessionAssumption,
     Session!Refresh, Session!flagVars, Session!stateVars
<1>3. Session!StatesAreWhole'
  BY DEF SessionInv, SessionTypes, Session!StatesAreWhole, Session!Refresh,
     Session!flagVars, Session!stateVars
<1>4. Session!ResetsAreDue' /\ (at = "reset" => ~adapter.reset)'
  BY DEF SessionInv, SessionFlags, SessionTypes, Session!ResetsAreDue, Session!Refresh,
     Session!flagVars, Session!stateVars
<1>. QED
  BY <1>1, <1>2, <1>3, <1>4 DEF SessionInv

\* The machine is reset, which answers the restart.
LEMMA SessionRaiseReset == ASSUME SessionInv, Session!RaiseReset PROVE SessionInv'
<1>1. SessionFlags'
  BY DEF SessionInv, SessionFlags, Session!RaiseReset, Session!flagVars, Session!stateVars
<1>2. SessionTypes'
  BY HostAssumption DEF SessionInv, SessionTypes, Session!SessionAssumption,
     Session!RaiseReset, Session!flagVars, Session!stateVars
<1>3. Session!StatesAreWhole'
  BY DEF SessionInv, SessionTypes, Session!StatesAreWhole, Session!RaiseReset,
     Session!flagVars, Session!stateVars
<1>4. Session!ResetsAreDue' /\ (at = "reset" => ~adapter.reset)'
  BY DEF SessionInv, SessionFlags, SessionTypes, Session!ResetsAreDue, Session!RaiseReset,
     Session!flagVars, Session!stateVars
<1>. QED
  BY <1>1, <1>2, <1>3, <1>4 DEF SessionInv

\* The machine has loaded a state, whose image changes are used up.
LEMMA SessionRaiseStateLoaded ==
    ASSUME SessionInv, Session!RaiseStateLoaded
    PROVE  SessionInv'
<1>1. SessionFlags'
  BY DEF SessionInv, SessionFlags, Session!RaiseStateLoaded, Session!flagVars,
     Session!stateVars
<1>2. SessionTypes'
  BY HostAssumption DEF SessionInv, SessionTypes, Session!SessionAssumption,
     Session!RaiseStateLoaded, Session!flagVars, Session!stateVars
<1>3. Session!StatesAreWhole'
  BY DEF SessionInv, SessionTypes, Session!StatesAreWhole, Session!RaiseStateLoaded,
     Session!flagVars, Session!stateVars
<1>4. Session!ResetsAreDue' /\ (at = "reset" => ~adapter.reset)'
  BY DEF SessionInv, SessionFlags, SessionTypes, Session!ResetsAreDue,
     Session!RaiseStateLoaded, Session!flagVars, Session!stateVars
<1>. QED
  BY <1>1, <1>2, <1>3, <1>4 DEF SessionInv

\* A breakpoint stops the machine, which no restart waits for.
LEMMA SessionBreakpoint == ASSUME SessionInv, Session!Breakpoint PROVE SessionInv'
<1>1. SessionFlags'
  BY DEF SessionInv, SessionFlags, Session!Breakpoint, Session!Restarting,
     Session!flagVars, Session!stateVars
<1>2. SessionTypes'
  BY HostAssumption DEF SessionInv, SessionTypes, Session!SessionAssumption,
     Session!Breakpoint, Session!Restarting, Session!flagVars, Session!stateVars
<1>3. Session!StatesAreWhole'
  BY DEF SessionInv, SessionTypes, Session!StatesAreWhole, Session!Breakpoint,
     Session!Restarting, Session!flagVars, Session!stateVars
<1>4. Session!ResetsAreDue' /\ (at = "reset" => ~adapter.reset)'
  BY DEF SessionInv, SessionFlags, SessionTypes, Session!ResetsAreDue, Session!Breakpoint,
     Session!Restarting, Session!flagVars, Session!stateVars
<1>. QED
  BY <1>1, <1>2, <1>3, <1>4 DEF SessionInv

\* The adapter returns, and the session is over.
LEMMA SessionAdapterReturns == ASSUME SessionInv, Session!AdapterReturns PROVE SessionInv'
<1>1. SessionFlags'
  BY DEF SessionInv, SessionFlags, Session!AdapterReturns, Session!flagVars,
     Session!stateVars
<1>2. SessionTypes'
  BY HostAssumption DEF SessionInv, SessionTypes, Session!SessionAssumption,
     Session!AdapterReturns, Session!flagVars, Session!stateVars
<1>3. Session!StatesAreWhole'
  BY DEF SessionInv, SessionTypes, Session!StatesAreWhole, Session!AdapterReturns,
     Session!flagVars, Session!stateVars
<1>4. Session!ResetsAreDue' /\ (at = "reset" => ~adapter.reset)'
  BY DEF SessionInv, SessionFlags, SessionTypes, Session!ResetsAreDue,
     Session!AdapterReturns, Session!flagVars, Session!stateVars
<1>. QED
  BY <1>1, <1>2, <1>3, <1>4 DEF SessionInv

\* Requests for states: a load that the adapter takes replaces the image changes that wait.
LEMMA SessionTakeRequests == ASSUME SessionInv, Session!Take_Requests PROVE SessionInv'
<1>1. SessionFlags'
  BY DEF SessionInv, SessionFlags, Session!Take_Requests, Session!LoadState,
     Session!RetrySave, Session!ChangesKept, Session!flagVars, Session!stateVars
<1>2. SessionTypes'
  BY HostAssumption DEF SessionInv, SessionTypes, Session!SessionAssumption,
     Session!Take_Requests, Session!LoadState, Session!RetrySave, Session!ChangesKept,
     Session!flagVars, Session!stateVars
<1>3. Session!StatesAreWhole'
  BY DEF SessionInv, SessionTypes, Session!StatesAreWhole, Session!Take_Requests,
     Session!LoadState, Session!RetrySave, Session!ChangesKept, Session!flagVars,
     Session!stateVars
<1>4. Session!ResetsAreDue' /\ (at = "reset" => ~adapter.reset)'
  BY DEF SessionInv, SessionFlags, SessionTypes, Session!ResetsAreDue,
     Session!Take_Requests, Session!LoadState, Session!RetrySave, Session!ChangesKept,
     Session!flagVars, Session!stateVars
<1>. QED
  BY <1>1, <1>2, <1>3, <1>4 DEF SessionInv

\* What a refresh decides.
LEMMA SessionDecide == ASSUME SessionInv, Session!Decide PROVE SessionInv'
<1>1. SessionFlags'
  BY DEF SessionInv, SessionFlags, Session!Decide, Session!BeginRestart, Session!flagVars,
     Session!stateVars
<1>2. SessionTypes'
  BY HostAssumption DEF SessionInv, SessionTypes, Session!SessionAssumption,
     Session!Decide, Session!BeginRestart, Session!flagVars, Session!stateVars
<1>3. Session!StatesAreWhole'
  BY DEF SessionInv, SessionTypes, Session!StatesAreWhole, Session!Decide,
     Session!BeginRestart, Session!flagVars, Session!stateVars
<1>4. Session!ResetsAreDue' /\ (at = "reset" => ~adapter.reset)'
  BY DEF SessionInv, SessionFlags, SessionTypes, Session!ResetsAreDue, Session!Decide,
     Session!BeginRestart, Session!flagVars, Session!stateVars
<1>. QED
  BY <1>1, <1>2, <1>3, <1>4 DEF SessionInv

\* The frame is held.
LEMMA SessionHolding == ASSUME SessionInv, Session!Holding PROVE SessionInv'
<1>1. SessionFlags'
  BY DEF SessionInv, SessionFlags, Session!Holding, Session!EndsHold, Session!Restarting,
     Session!flagVars, Session!stateVars
<1>2. SessionTypes'
  BY HostAssumption DEF SessionInv, SessionTypes, Session!SessionAssumption,
     Session!Holding, Session!EndsHold, Session!Restarting, Session!flagVars,
     Session!stateVars
<1>3. Session!StatesAreWhole'
  BY DEF SessionInv, SessionTypes, Session!StatesAreWhole, Session!Holding,
     Session!EndsHold, Session!Restarting, Session!flagVars, Session!stateVars
<1>4. Session!ResetsAreDue' /\ (at = "reset" => ~adapter.reset)'
  BY DEF SessionInv, SessionFlags, SessionTypes, Session!ResetsAreDue, Session!Holding,
     Session!EndsHold, Session!Restarting, Session!flagVars, Session!stateVars
<1>. QED
  BY <1>1, <1>2, <1>3, <1>4 DEF SessionInv

\* The hold ends.
LEMMA SessionLeave == ASSUME SessionInv, Session!Leave PROVE SessionInv'
<1>1. SessionFlags'
  BY DEF SessionInv, SessionFlags, Session!Leave, Session!BeginRestart, Session!flagVars,
     Session!stateVars
<1>2. SessionTypes'
  BY HostAssumption DEF SessionInv, SessionTypes, Session!SessionAssumption,
     Session!Leave, Session!BeginRestart, Session!flagVars, Session!stateVars
<1>3. Session!StatesAreWhole'
  BY DEF SessionInv, SessionTypes, Session!StatesAreWhole, Session!Leave,
     Session!BeginRestart, Session!flagVars, Session!stateVars
<1>4. Session!ResetsAreDue' /\ (at = "reset" => ~adapter.reset)'
  BY DEF SessionInv, SessionFlags, SessionTypes, Session!ResetsAreDue, Session!Leave,
     Session!BeginRestart, Session!flagVars, Session!stateVars
<1>. QED
  BY <1>1, <1>2, <1>3, <1>4 DEF SessionInv

\* The adapter is told to reset; only a session that restarts does it, and once.
LEMMA SessionReset == ASSUME SessionInv, Session!Reset PROVE SessionInv'
<1>1. SessionFlags'
  BY DEF SessionInv, SessionFlags, Session!Reset, Session!RefusedClears, Session!flagVars
<1>2. SessionTypes'
  BY DEF SessionInv, SessionTypes, Session!Reset, Session!stateVars
<1>3. Session!StatesAreWhole'
  BY DEF SessionInv, SessionTypes, Session!StatesAreWhole, Session!Reset, Session!stateVars
<1>4. Session!ResetsAreDue' /\ (at = "reset" => ~adapter.reset)'
  <2>1. /\ at = "reset" /\ at' = "machine" /\ paused' = paused
        /\ restartRequested' = restartRequested
        /\ paused => at = "break"
        /\ resetPending <=> adapter.reset \/ at = "reset"
        /\ owed => restartRequested \/ resetPending
        /\ ~adapter.reset
    BY DEF SessionInv, Session!ResetsAreDue, Session!Reset, Session!flagVars
  <2>2. CASE adapter' = [adapter EXCEPT !.reset = TRUE] /\ UNCHANGED <<resetPending, owed>>
    <3>1. adapter'.reset
      BY <2>2 DEF SessionInv, SessionTypes
    <3>. QED
      BY <2>1, <2>2, <3>1, Zenon DEF Session!ResetsAreDue
  <2>3. CASE /\ resetPending' = Session!RefusedClears /\ owed' = restartRequested
             /\ UNCHANGED adapter
    <3>1. ~resetPending'
      BY <2>3 DEF Session!RefusedClears
    <3>. QED
      BY <2>1, <2>3, <3>1 DEF Session!ResetsAreDue
  <2>. QED
    BY <2>2, <2>3 DEF Session!Reset
<1>. QED
  BY <1>1, <1>2, <1>3, <1>4 DEF SessionInv

\* The break ends.
LEMMA SessionResume == ASSUME SessionInv, Session!Resume PROVE SessionInv'
<1>1. SessionFlags'
  BY DEF SessionInv, SessionFlags, Session!Resume, Session!flagVars, Session!stateVars
<1>2. SessionTypes'
  BY HostAssumption DEF SessionInv, SessionTypes, Session!SessionAssumption,
     Session!Resume, Session!flagVars, Session!stateVars
<1>3. Session!StatesAreWhole'
  BY DEF SessionInv, SessionTypes, Session!StatesAreWhole, Session!Resume,
     Session!flagVars, Session!stateVars
<1>4. Session!ResetsAreDue' /\ (at = "reset" => ~adapter.reset)'
  BY DEF SessionInv, SessionFlags, SessionTypes, Session!ResetsAreDue, Session!Resume,
     Session!flagVars, Session!stateVars
<1>. QED
  BY <1>1, <1>2, <1>3, <1>4 DEF SessionInv

\* The machine is left after a break.
LEMMA SessionLeaveBreak == ASSUME SessionInv, Session!LeaveBreak PROVE SessionInv'
<1>1. SessionFlags'
  BY DEF SessionInv, SessionFlags, Session!LeaveBreak, Session!EndsHold,
     Session!Restarting, Session!flagVars, Session!stateVars
<1>2. SessionTypes'
  BY HostAssumption DEF SessionInv, SessionTypes, Session!SessionAssumption,
     Session!LeaveBreak, Session!EndsHold, Session!Restarting, Session!flagVars,
     Session!stateVars
<1>3. Session!StatesAreWhole'
  BY DEF SessionInv, SessionTypes, Session!StatesAreWhole, Session!LeaveBreak,
     Session!EndsHold, Session!Restarting, Session!flagVars, Session!stateVars
<1>4. Session!ResetsAreDue' /\ (at = "reset" => ~adapter.reset)'
  BY DEF SessionInv, SessionFlags, SessionTypes, Session!ResetsAreDue, Session!LeaveBreak,
     Session!EndsHold, Session!Restarting, Session!flagVars, Session!stateVars
<1>. QED
  BY <1>1, <1>2, <1>3, <1>4 DEF SessionInv

\* A request for a state takes the place of the one before it.
LEMMA SessionPostRequest ==
    ASSUME NEW what \in {"save", "load"}, SessionInv, Session!Post_Request(what)
    PROVE  SessionInv'
<1>1. SessionFlags'
  BY DEF SessionInv, SessionFlags, Session!Post_Request, Session!Press, Session!flagVars,
     Session!stateVars
<1>2. SessionTypes'
  BY HostAssumption DEF SessionInv, SessionTypes, Session!SessionAssumption,
     Session!Post_Request, Session!Press, Session!flagVars, Session!stateVars
<1>3. Session!StatesAreWhole'
  BY DEF SessionInv, SessionTypes, Session!StatesAreWhole, Session!Post_Request,
     Session!Press, Session!flagVars, Session!stateVars
<1>4. Session!ResetsAreDue' /\ (at = "reset" => ~adapter.reset)'
  BY DEF SessionInv, SessionFlags, SessionTypes, Session!ResetsAreDue,
     Session!Post_Request, Session!Press, Session!flagVars, Session!stateVars
<1>. QED
  BY <1>1, <1>2, <1>3, <1>4 DEF SessionInv

\* Steps of the other parts.
LEMMA SessionStutters == ASSUME SessionInv, UNCHANGED sessionVars PROVE SessionInv'
<1>1. SessionFlags'
  BY DEF SessionInv, SessionFlags, sessionVars
<1>2. SessionTypes'
  BY DEF SessionInv, SessionTypes, sessionVars
<1>3. Session!StatesAreWhole' /\ Session!ResetsAreDue' /\ (at = "reset" => ~adapter.reset)'
  BY DEF SessionInv, Session!StatesAreWhole, Session!ResetsAreDue, sessionVars
<1>. QED
  BY <1>1, <1>2, <1>3 DEF SessionInv

\* Every step of a session keeps the invariant.
LEMMA SessionStep == ASSUME SessionInv, Session!Next PROVE SessionInv'
  BY SessionTogglePause, SessionRestartEmulation, SessionUnpause, SessionRequestQuit,
     SessionTellAdapter, SessionRun, SessionRefresh, SessionRaiseReset,
     SessionRaiseStateLoaded,
     SessionBreakpoint, SessionAdapterReturns, SessionTakeRequests, SessionDecide,
     SessionHolding, SessionLeave, SessionReset, SessionResume, SessionLeaveBreak,
     SessionPostRequest DEF Session!Next, Session!Continue, Session!Finish

\* The inductive invariant says all that SessionSound does.
LEMMA SessionInvIsSound == ASSUME SessionInv PROVE Session!SessionSound
<1>1. Session!flagVars \in BOOLEAN \X BOOLEAN \X BOOLEAN
  BY DEF SessionInv, SessionFlags, Session!flagVars
<1>2. Session!TypeOK
  BY <1>1 DEF SessionInv, SessionFlags, SessionTypes, Session!TypeOK
<1>. QED
  BY <1>2 DEF SessionInv, Session!SessionSound

\* However pauses, restarts, quits and requests for states meet the refreshes of the loop:
\* image changes wait only for the state they belong to, and a restart that was asked for is
\* known to the session, to the reset that is pending, or to the adapter (session.cpp).
THEOREM SessionsAreSound == Spec => []SessionSound
<1>1. Init => SessionInv
  BY SessionInitially DEF Init
<1>2. SessionInv /\ [Next]_vars => SessionInv'
  BY SessionStep, SessionStutters DEF Next, RuntimeNext, SessionNext, SocketsNext, vars
<1>3. SessionInv => SessionSound
  BY SessionInvIsSound DEF SessionSound
<1>. QED
  BY <1>1, <1>2, <1>3, PTL DEF Spec

-----------------------------------------------------------------------------
(* The sockets of a module                                                  *)

\* The size of a set, as Sockets takes it.
LEMMA SocketsCardinality == \A S : Sockets!Cardinality(S) = Cardinality(S)
  BY Zenon DEF Sockets!Cardinality, Cardinality

SocketTables ==
    /\ nextSocket \in 0..MaxSocket /\ listeners \subseteq Sockets!Handles
    /\ table \subseteq 1..nextSocket /\ closing \subseteq Sockets!Handles
    /\ closed \subseteq Sockets!Handles /\ packets \subseteq Sockets!Handles
    /\ gone \subseteq Sockets!Handles
    /\ raw \in [Sockets!Handles -> 0..MaxRaw]
    /\ wire \in [Sockets!Handles -> {"nothing", "data", "end"}]

SocketWalk ==
    /\ step \in {"idle", "walk", "flush", "read", "deliver", "inside", "told", "next"}
    /\ watched \in Seq(Sockets!Handles) /\ offset \in 0..MaxSocket /\ start \in 0..MaxSocket
    /\ work \in 0..Work /\ delivered \in 0..EventBudget
    /\ networkCursor \in 0..MaxSocket
    /\ accepted \in Sockets!Handles \union {0} /\ event \in Sockets!Handles \union {0}
    /\ Len(watched) <= MaxSocket
    /\ IF step \in {"idle", "walk"} THEN offset <= Len(watched) ELSE offset < Len(watched)
    /\ step = "idle" => offset = 0

SocketEnds ==
    /\ Sockets!RawOrPackets
    /\ \A h \in Sockets!Handles : h > nextSocket => raw[h] = 0
    /\ Sockets!NothingLeftOpen
    /\ released => stopping
    /\ stopping \/ gone \subseteq closed

SocketInv == SocketTables /\ SocketWalk /\ SocketEnds

NewEventIsNotGone == event' # event /\ event' # 0 => event' \notin gone

\* What the constants are.
LEMMA SocketConstants ==
    /\ MaxSocket \in Nat /\ MaxRaw \in Nat /\ EventBudget \in Nat \ {0} /\ Work \in Nat
    /\ Sockets!Handles = 1..MaxSocket
  BY HostAssumption DEF Sockets!SocketsAssumption, Sockets!Handles

\* A module starts with no sockets.
LEMMA SocketsInitially == Sockets!Init => SocketInv
<1>. SUFFICES ASSUME Sockets!Init PROVE SocketInv
  OBVIOUS
<1>1. SocketTables
  BY SocketConstants DEF Sockets!Init, SocketTables
<1>2. SocketWalk
  <2>1. <<>> \in Seq(Sockets!Handles) /\ Len(<<>>) = 0
    OBVIOUS
  <2>. QED
    BY <2>1, SocketConstants DEF Sockets!Init, SocketWalk, Sockets!Nothing
<1>3. SocketEnds
  BY SocketConstants DEF Sockets!Init, SocketEnds, Sockets!RawOrPackets,
     Sockets!NothingLeftOpen
<1>. QED
  BY <1>1, <1>2, <1>3 DEF SocketInv

\* Steps that leave the dispatch alone.
LEMMA SocketWalkStays ==
    ASSUME SocketWalk, UNCHANGED Sockets!dispatchVars
    PROVE  SocketWalk' /\ NewEventIsNotGone
  BY DEF SocketWalk, NewEventIsNotGone, Sockets!dispatchVars

\* Steps that leave the sockets alone.
LEMMA SocketTablesStay ==
    ASSUME SocketTables, SocketEnds, UNCHANGED Sockets!tableVars, UNCHANGED gone,
           UNCHANGED <<stopping, released>>
    PROVE  SocketTables' /\ SocketEnds'
<1>1. SocketTables'
  BY DEF SocketTables, Sockets!tableVars
<1>2. SocketEnds'
  BY DEF SocketEnds, Sockets!tableVars, Sockets!RawOrPackets, Sockets!NothingLeftOpen
<1>. QED
  BY <1>1, <1>2

\* The current socket of a walk is one that exists.
LEMMA CurrentIsWatched ==
    ASSUME SocketWalk, step \notin {"idle", "walk"} \/ offset < Len(watched)
    PROVE  Sockets!Index \in 0..(Len(watched) - 1) /\ Sockets!Current \in Sockets!Handles
<1>1. PICK n \in Nat : n = Len(watched)
  BY DEF SocketWalk
<1>2. offset \in Nat /\ start \in Nat /\ offset < n
  BY <1>1, SocketConstants DEF SocketWalk
<1>3. (start + offset) % n \in 0..(n - 1)
  BY <1>2, <1>1
<1>4. Sockets!Index \in 0..(n - 1)
  BY <1>1, <1>3 DEF Sockets!Index
<1>5. Sockets!Index + 1 \in 1..n
  BY <1>4, <1>1
<1>6. watched[Sockets!Index + 1] \in Sockets!Handles
  BY <1>1, <1>5 DEF SocketWalk
<1>. QED
  BY <1>1, <1>4, <1>6 DEF Sockets!Current

\* A walk over a set of sockets is no longer than there are sockets.
LEMMA SequenceOfHandles ==
    ASSUME NEW S \in SUBSET Sockets!Handles, NEW seen \in Sockets!InOrder(S), seen # <<>>
    PROVE  seen \in Seq(Sockets!Handles) /\ Len(seen) \in 1..MaxSocket
<1>1. IsFiniteSet(Sockets!Handles) /\ Cardinality(Sockets!Handles) = MaxSocket
  BY SocketConstants, FS_Interval
<1>2. Cardinality(S) \in Nat /\ Cardinality(S) <= MaxSocket
  BY <1>1, FS_Subset, FS_CardinalityType
<1>3. seen \in [1..Cardinality(S) -> S]
  BY SocketsCardinality DEF Sockets!InOrder
<1>4. seen \in Seq(Sockets!Handles) /\ Len(seen) = Cardinality(S)
  BY <1>2, <1>3
<1>5. Len(seen) # 0
  BY <1>4
<1>. QED
  BY <1>2, <1>4, <1>5, SocketConstants

\* A new socket has a handle that nobody had.
LEMMA SocketsOpen ==
    ASSUME NEW listening \in BOOLEAN, SocketInv, Sockets!Open(listening)
    PROVE  SocketInv' /\ NewEventIsNotGone
<1>1. SocketTables'
  BY SocketConstants DEF SocketInv, SocketTables, Sockets!Open, Sockets!Added,
     Sockets!Refuses
<1>2. SocketWalk' /\ NewEventIsNotGone
  BY SocketWalkStays DEF SocketInv, Sockets!Open, Sockets!Added, Sockets!Refuses
<1>4. SocketEnds'
  BY SocketConstants DEF SocketInv, SocketTables, SocketEnds, Sockets!RawOrPackets,
     Sockets!NothingLeftOpen, Sockets!Open, Sockets!Added, Sockets!Refuses, Sockets!flagVars
<1>. QED
  BY <1>1, <1>2, <1>4 DEF SocketInv

\* A thread begins a call on a socket that has no packets.
LEMMA SocketsBeginRaw ==
    ASSUME NEW h \in Sockets!Handles, SocketInv, Sockets!BeginRaw(h)
    PROVE  SocketInv' /\ NewEventIsNotGone
<1>1. SocketTables'
  BY SocketConstants DEF SocketInv, SocketTables, Sockets!BeginRaw
<1>2. SocketWalk' /\ NewEventIsNotGone
  BY SocketWalkStays DEF SocketInv, Sockets!BeginRaw
<1>4. SocketEnds'
  BY SocketConstants DEF SocketInv, SocketTables, SocketEnds, Sockets!RawOrPackets,
     Sockets!NothingLeftOpen, Sockets!BeginRaw, Sockets!flagVars
<1>. QED
  BY <1>1, <1>2, <1>4 DEF SocketInv

\* Its call ends.
LEMMA SocketsEndRaw ==
    ASSUME NEW h \in Sockets!Handles, SocketInv, Sockets!EndRaw(h)
    PROVE  SocketInv' /\ NewEventIsNotGone
<1>1. SocketTables'
  BY SocketConstants DEF SocketInv, SocketTables, Sockets!EndRaw
<1>2. SocketWalk' /\ NewEventIsNotGone
  BY SocketWalkStays DEF SocketInv, Sockets!EndRaw
<1>4. SocketEnds'
  BY SocketConstants DEF SocketInv, SocketTables, SocketEnds, Sockets!RawOrPackets,
     Sockets!NothingLeftOpen, Sockets!EndRaw, Sockets!flagVars
<1>. QED
  BY <1>1, <1>2, <1>4 DEF SocketInv

\* Packets are enabled only when no thread uses the socket.
LEMMA SocketsEnablePackets ==
    ASSUME NEW h \in Sockets!Handles, SocketInv, Sockets!Enable_Packets(h)
    PROVE  SocketInv' /\ NewEventIsNotGone
<1>1. SocketTables'
  BY SocketConstants DEF SocketInv, SocketTables, Sockets!Enable_Packets, Sockets!NobodyUses
<1>2. SocketWalk' /\ NewEventIsNotGone
  BY SocketWalkStays DEF SocketInv, Sockets!Enable_Packets, Sockets!NobodyUses
<1>4. SocketEnds'
  BY SocketConstants DEF SocketInv, SocketTables, SocketEnds, Sockets!RawOrPackets,
     Sockets!NothingLeftOpen, Sockets!Enable_Packets, Sockets!NobodyUses, Sockets!flagVars
<1>. QED
  BY <1>1, <1>2, <1>4 DEF SocketInv

\* The entry leaves the table, and somebody is about to close it.
LEMMA SocketsClose ==
    ASSUME NEW h \in Sockets!Handles, SocketInv, Sockets!Close(h)
    PROVE  SocketInv' /\ NewEventIsNotGone
<1>1. SocketTables'
  BY SocketConstants DEF SocketInv, SocketTables, Sockets!Close
<1>2. SocketWalk' /\ NewEventIsNotGone
  BY SocketWalkStays DEF SocketInv, Sockets!Close
<1>4. SocketEnds'
  BY SocketConstants DEF SocketInv, SocketTables, SocketEnds, Sockets!RawOrPackets,
     Sockets!NothingLeftOpen, Sockets!Close, Sockets!flagVars
<1>. QED
  BY <1>1, <1>2, <1>4 DEF SocketInv

\* The entry is closed, and no longer about to be.
LEMMA SocketsCloseEntry ==
    ASSUME NEW h \in Sockets!Handles, SocketInv, Sockets!CloseEntry(h)
    PROVE  SocketInv' /\ NewEventIsNotGone
<1>1. SocketTables'
  BY SocketConstants DEF SocketInv, SocketTables, Sockets!CloseEntry, Sockets!Closes
<1>2. SocketWalk' /\ NewEventIsNotGone
  BY SocketWalkStays DEF SocketInv, Sockets!CloseEntry, Sockets!Closes
<1>4. SocketEnds'
  BY SocketConstants DEF SocketInv, SocketTables, SocketEnds, Sockets!RawOrPackets,
     Sockets!NothingLeftOpen, Sockets!CloseEntry, Sockets!Closes, Sockets!flagVars
<1>. QED
  BY <1>1, <1>2, <1>4 DEF SocketInv

\* The other end sends, or closes.
LEMMA SocketsArrive ==
    ASSUME NEW h \in Sockets!Handles, NEW what \in {"data", "end"}, SocketInv, Sockets!Arrive(h, what)
    PROVE  SocketInv' /\ NewEventIsNotGone
<1>1. SocketTables'
  BY SocketConstants DEF SocketInv, SocketTables, Sockets!Arrive
<1>2. SocketWalk' /\ NewEventIsNotGone
  BY SocketWalkStays DEF SocketInv, Sockets!Arrive
<1>4. SocketEnds'
  BY SocketConstants DEF SocketInv, SocketTables, SocketEnds, Sockets!RawOrPackets,
     Sockets!NothingLeftOpen, Sockets!Arrive, Sockets!flagVars
<1>. QED
  BY <1>1, <1>2, <1>4 DEF SocketInv

\* The module closes a socket: its table no longer has it.
LEMMA SocketsGuestCloses ==
    ASSUME NEW h \in Sockets!Handles, SocketInv, Sockets!GuestCloses(h)
    PROVE  SocketInv' /\ NewEventIsNotGone
<1>1. SocketTables'
  BY SocketConstants DEF SocketInv, SocketTables, Sockets!GuestCloses, Sockets!Closes
<1>2. SocketWalk' /\ NewEventIsNotGone
  BY SocketWalkStays DEF SocketInv, Sockets!GuestCloses, Sockets!Closes
<1>4. SocketEnds'
  BY SocketConstants DEF SocketInv, SocketTables, SocketEnds, Sockets!RawOrPackets,
     Sockets!NothingLeftOpen, Sockets!GuestCloses, Sockets!Closes, Sockets!flagVars
<1>. QED
  BY <1>1, <1>2, <1>4 DEF SocketInv

\* The module traps.
LEMMA SocketsTrap ==
    ASSUME SocketInv, Sockets!Trap
    PROVE  SocketInv' /\ NewEventIsNotGone
<1>1. SocketTables'
  BY DEF SocketInv, SocketTables, Sockets!Trap, Sockets!tableVars
<1>2. SocketWalk' /\ NewEventIsNotGone
  BY SocketWalkStays DEF SocketInv, Sockets!Trap
<1>4. SocketEnds'
  BY DEF SocketInv, SocketEnds, Sockets!RawOrPackets, Sockets!NothingLeftOpen, Sockets!Trap,
     Sockets!tableVars
<1>. QED
  BY <1>1, <1>2, <1>4 DEF SocketInv

\* The module is told to stop.
LEMMA SocketsStop ==
    ASSUME SocketInv, Sockets!Stop
    PROVE  SocketInv' /\ NewEventIsNotGone
<1>1. SocketTables'
  BY SocketConstants DEF SocketInv, SocketTables, Sockets!Stop, Sockets!tableVars
<1>2. SocketWalk' /\ NewEventIsNotGone
  BY SocketWalkStays DEF SocketInv, Sockets!Stop, Sockets!tableVars
<1>4. SocketEnds'
  BY SocketConstants DEF SocketInv, SocketTables, SocketEnds, Sockets!RawOrPackets,
     Sockets!NothingLeftOpen, Sockets!Stop, Sockets!tableVars, Sockets!flagVars
<1>. QED
  BY <1>1, <1>2, <1>4 DEF SocketInv

\* What was in the table is about to be closed.
LEMMA SocketsRelease ==
    ASSUME SocketInv, Sockets!Net_Release_Owner
    PROVE  SocketInv' /\ NewEventIsNotGone
<1>1. SocketTables'
  BY SocketConstants DEF SocketInv, SocketTables, Sockets!Net_Release_Owner
<1>2. SocketWalk' /\ NewEventIsNotGone
  BY SocketWalkStays DEF SocketInv, Sockets!Net_Release_Owner
<1>4. SocketEnds'
  BY SocketConstants DEF SocketInv, SocketTables, SocketEnds, Sockets!RawOrPackets,
     Sockets!NothingLeftOpen, Sockets!Net_Release_Owner, Sockets!flagVars
<1>. QED
  BY <1>1, <1>2, <1>4 DEF SocketInv

\* A dispatch begins with the sockets that have packets.
LEMMA SocketsDispatch ==
    ASSUME SocketInv, Sockets!Dispatch
    PROVE  SocketInv' /\ NewEventIsNotGone
<1>1. SocketTables' /\ SocketEnds'
  BY SocketTablesStay DEF SocketInv, Sockets!Dispatch, Sockets!FromTheCursor,
     Sockets!flagVars
<1>2. SocketWalk'
  <2>1. PICK seen \in Sockets!InOrder((table \intersect packets) \ closed) :
           /\ seen # <<>> /\ watched' = seen /\ start' = networkCursor % Len(seen)
    BY DEF Sockets!Dispatch, Sockets!FromTheCursor
  <2>2. seen \in Seq(Sockets!Handles) /\ Len(seen) \in 1..MaxSocket
    <3>1. (table \intersect packets) \ closed \in SUBSET Sockets!Handles
      BY DEF SocketInv, SocketTables
    <3>. QED
      BY <2>1, <3>1, SequenceOfHandles
  <2>3. PICK n \in 1..MaxSocket : n = Len(seen)
    BY <2>2
  <2>4. start' \in 0..MaxSocket
    <3>1. networkCursor \in Nat
      BY SocketConstants DEF SocketInv, SocketWalk
    <3>. QED
      BY <2>1, <2>3, <3>1, SocketConstants
  <2>5. offset = 0 /\ offset <= n
    BY <2>3, SocketConstants DEF SocketInv, SocketWalk, Sockets!Dispatch
  <2>6. /\ step' = "walk" /\ work' = Work
        /\ UNCHANGED <<offset, delivered, accepted, networkCursor, event>>
    BY DEF Sockets!Dispatch
  <2>7. Len(watched') <= MaxSocket /\ offset' <= Len(watched')
    BY <2>1, <2>3, <2>5, <2>6
  <2>. QED
    BY <2>1, <2>2, <2>4, <2>6, <2>7, SocketConstants DEF SocketInv, SocketWalk
<1>3. NewEventIsNotGone
  BY DEF NewEventIsNotGone, Sockets!Dispatch, Sockets!FromTheCursor, Sockets!Nothing
<1>. QED
  BY <1>1, <1>2, <1>3 DEF SocketInv

\* The handler of an event is back.
LEMMA SocketsReturn ==
    ASSUME SocketInv, Sockets!Return
    PROVE  SocketInv' /\ NewEventIsNotGone
<1>1. SocketTables' /\ SocketEnds'
  BY SocketTablesStay DEF SocketInv, Sockets!Return, Sockets!flagVars
<1>2. SocketWalk'
  BY SocketConstants DEF SocketInv, SocketWalk, Sockets!Return, Sockets!Nothing
<1>3. NewEventIsNotGone
  BY DEF NewEventIsNotGone, Sockets!Return, Sockets!Nothing
<1>. QED
  BY <1>1, <1>2, <1>3 DEF SocketInv

\* The next socket has its turn.
LEMMA SocketsWalk ==
    ASSUME SocketInv, Sockets!Walk
    PROVE  SocketInv' /\ NewEventIsNotGone
<1>0. Sockets!Index \in 0..(Len(watched) - 1) /\ Sockets!Current \in Sockets!Handles
  BY CurrentIsWatched DEF SocketInv, Sockets!Walk
<1>1. SocketTables' /\ SocketEnds'
  BY SocketTablesStay DEF SocketInv, Sockets!Walk, Sockets!flagVars
<1>2. SocketWalk'
  <2>1. networkCursor' \in 0..MaxSocket
    <3>1. PICK n \in Nat : n = Len(watched)
      BY DEF SocketInv, SocketWalk
    <3>2. n <= MaxSocket /\ Sockets!Index \in 0..(n - 1)
      BY <1>0, <3>1 DEF SocketInv, SocketWalk
    <3>. QED
      BY <3>2, SocketConstants DEF Sockets!Walk
  <2>. QED
    BY <2>1 DEF SocketInv, SocketWalk, Sockets!Walk
<1>3. NewEventIsNotGone
  BY DEF NewEventIsNotGone, Sockets!Walk, Sockets!Nothing
<1>. QED
  BY <1>1, <1>2, <1>3 DEF SocketInv

\* The walk goes on.
LEMMA SocketsAdvance ==
    ASSUME SocketInv, Sockets!Advance
    PROVE  SocketInv' /\ NewEventIsNotGone
<1>1. SocketTables' /\ SocketEnds'
  BY SocketTablesStay DEF SocketInv, Sockets!Advance, Sockets!flagVars
<1>2. SocketWalk'
  BY SocketConstants DEF SocketInv, SocketWalk, Sockets!Advance, Sockets!Nothing
<1>3. NewEventIsNotGone
  BY DEF NewEventIsNotGone, Sockets!Advance, Sockets!Nothing
<1>. QED
  BY <1>1, <1>2, <1>3 DEF SocketInv

\* The walk is over, and what it watched is let go.
LEMMA SocketsWalkDone ==
    ASSUME SocketInv, Sockets!WalkDone
    PROVE  SocketInv' /\ NewEventIsNotGone
<1>1. SocketTables'
  BY SocketConstants DEF SocketInv, SocketTables, Sockets!WalkDone
<1>2. SocketWalk'
  <2>1. <<>> \in Seq(Sockets!Handles) /\ Len(<<>>) = 0
    OBVIOUS
  <2>. QED
    BY <2>1, SocketConstants DEF SocketInv, SocketWalk, Sockets!WalkDone
<1>3. NewEventIsNotGone
  BY DEF NewEventIsNotGone, Sockets!WalkDone, Sockets!Nothing
<1>4. SocketEnds'
  BY SocketConstants DEF SocketInv, SocketTables, SocketEnds, Sockets!RawOrPackets,
     Sockets!NothingLeftOpen, Sockets!WalkDone, Sockets!flagVars
<1>. QED
  BY <1>1, <1>2, <1>3, <1>4 DEF SocketInv

\* Part of the queue goes out.
LEMMA SocketsFlush ==
    ASSUME SocketInv, Sockets!Flush
    PROVE  SocketInv' /\ NewEventIsNotGone
<1>1. SocketTables' /\ SocketEnds'
  BY SocketTablesStay DEF SocketInv, Sockets!Flush, Sockets!flagVars
<1>2. SocketWalk'
  BY SocketConstants DEF SocketInv, SocketWalk, Sockets!Flush, Sockets!Nothing
<1>3. NewEventIsNotGone
  BY DEF NewEventIsNotGone, Sockets!Flush, Sockets!Nothing
<1>. QED
  BY <1>1, <1>2, <1>3 DEF SocketInv

\* The connection is broken: whoever closes the entry tells the module, unless it is gone.
LEMMA SocketsFlushFails ==
    ASSUME SocketInv, Sockets!FlushFails
    PROVE  SocketInv' /\ NewEventIsNotGone
<1>0. Sockets!Current \in Sockets!Handles
  BY CurrentIsWatched DEF SocketInv, Sockets!FlushFails
<1>1. SocketTables'
  BY <1>0, SocketConstants DEF SocketInv, SocketTables, Sockets!FlushFails,
     Sockets!Closed, Sockets!Closes
<1>2. SocketWalk'
  BY <1>0, SocketConstants DEF SocketInv, SocketWalk, Sockets!FlushFails, Sockets!Closed,
     Sockets!Closes, Sockets!Nothing
<1>3. NewEventIsNotGone
  BY <1>0 DEF SocketInv, SocketEnds, NewEventIsNotGone, Sockets!FlushFails,
     Sockets!Closed, Sockets!Closes, Sockets!Nothing
<1>4. SocketEnds'
  BY <1>0, SocketConstants DEF SocketInv, SocketTables, SocketEnds, Sockets!RawOrPackets,
     Sockets!NothingLeftOpen, Sockets!FlushFails, Sockets!Closed, Sockets!Closes,
     Sockets!flagVars
<1>. QED
  BY <1>1, <1>2, <1>3, <1>4 DEF SocketInv

\* A packet is taken from the connection.
LEMMA SocketsReadPacket ==
    ASSUME SocketInv, Sockets!ReadPacket
    PROVE  SocketInv' /\ NewEventIsNotGone
<1>1. SocketTables'
  BY SocketConstants DEF SocketInv, SocketTables, Sockets!ReadPacket, Sockets!Reads
<1>2. SocketWalk'
  BY SocketConstants DEF SocketInv, SocketWalk, Sockets!ReadPacket, Sockets!Reads,
     Sockets!Nothing
<1>3. NewEventIsNotGone
  BY DEF SocketInv, NewEventIsNotGone, Sockets!ReadPacket, Sockets!Reads, Sockets!Nothing
<1>4. SocketEnds'
  BY SocketConstants DEF SocketInv, SocketTables, SocketEnds, Sockets!RawOrPackets,
     Sockets!NothingLeftOpen, Sockets!ReadPacket, Sockets!Reads, Sockets!flagVars
<1>. QED
  BY <1>1, <1>2, <1>3, <1>4 DEF SocketInv

\* A connection is accepted: its socket is new, and in the table.
LEMMA SocketsAccept ==
    ASSUME SocketInv, Sockets!Accept
    PROVE  SocketInv' /\ NewEventIsNotGone
<1>1. SocketTables'
  BY SocketConstants DEF SocketInv, SocketTables, Sockets!Accept, Sockets!Reads,
     Sockets!Added, Sockets!Refuses
<1>2. SocketWalk'
  <2>1. accepted' \in Sockets!Handles
    BY SocketConstants DEF SocketInv, SocketTables, Sockets!Accept, Sockets!Added
  <2>2. work' \in 0..Work /\ delivered' \in 0..EventBudget
    BY SocketConstants DEF SocketInv, SocketWalk, Sockets!Accept, Sockets!Reads
  <2>. QED
    BY <2>1, <2>2 DEF SocketInv, SocketWalk, Sockets!Accept, Sockets!Reads
<1>3. NewEventIsNotGone
  BY DEF NewEventIsNotGone, Sockets!Accept, Sockets!Reads, Sockets!Added, Sockets!Refuses,
     Sockets!Nothing
<1>4. SocketEnds'
  BY SocketConstants DEF SocketInv, SocketTables, SocketEnds, Sockets!RawOrPackets,
     Sockets!NothingLeftOpen, Sockets!Accept, Sockets!Reads, Sockets!Added,
     Sockets!Refuses, Sockets!flagVars
<1>. QED
  BY <1>1, <1>2, <1>3, <1>4 DEF SocketInv

\* The event of a packet is of a socket that is not closed, hence not gone.
LEMMA SocketsDeliver ==
    ASSUME SocketInv, Sockets!Deliver
    PROVE  SocketInv' /\ NewEventIsNotGone
<1>0. Sockets!Current \in Sockets!Handles
  BY CurrentIsWatched DEF SocketInv, Sockets!Deliver
<1>1. SocketTables' /\ SocketEnds'
  BY SocketTablesStay DEF SocketInv, Sockets!Deliver, Sockets!Active, Sockets!flagVars
<1>2. SocketWalk'
  BY <1>0, SocketConstants DEF SocketInv, SocketWalk, Sockets!Deliver, Sockets!Active,
     Sockets!Nothing
<1>3. NewEventIsNotGone
  BY <1>0 DEF SocketInv, SocketEnds, NewEventIsNotGone, Sockets!Deliver, Sockets!Active,
     Sockets!Nothing
<1>. QED
  BY <1>1, <1>2, <1>3 DEF SocketInv

\* A packet comes to nothing, and an accepted connection is closed again.
LEMMA SocketsDrop ==
    ASSUME SocketInv, Sockets!Drop
    PROVE  SocketInv' /\ NewEventIsNotGone
<1>1. SocketTables'
  <2>1. table' = table \ {accepted} /\ UNCHANGED <<nextSocket, listeners, closing, packets, raw>>
    BY DEF Sockets!Drop
  <2>2. CASE accepted \in table
    <3>1. accepted \in Sockets!Handles
      BY <2>2, SocketConstants DEF SocketInv, SocketTables
    <3>2. /\ closed' = closed \union {accepted} /\ gone' = gone \union {accepted}
          /\ wire' = wire \/ wire' = [wire EXCEPT ![accepted] = "nothing"]
      BY <2>2 DEF Sockets!Drop, Sockets!Closes
    <3>. QED
      BY <2>1, <3>1, <3>2 DEF SocketInv, SocketTables
  <2>3. CASE accepted \notin table
    BY <2>1, <2>3 DEF SocketInv, SocketTables, Sockets!Drop
  <2>. QED
    BY <2>2, <2>3
<1>2. SocketWalk'
  BY SocketConstants DEF SocketInv, SocketWalk, Sockets!Drop, Sockets!Closes,
     Sockets!Nothing
<1>3. NewEventIsNotGone
  BY DEF NewEventIsNotGone, Sockets!Drop, Sockets!Closes, Sockets!Nothing
<1>4. SocketEnds'
  BY SocketConstants DEF SocketInv, SocketTables, SocketEnds, Sockets!RawOrPackets,
     Sockets!NothingLeftOpen, Sockets!Drop, Sockets!Closes, Sockets!flagVars
<1>. QED
  BY <1>1, <1>2, <1>3, <1>4 DEF SocketInv

\* The end is told once: the entry was not closed, hence not gone.
LEMMA SocketsReadEnd ==
    ASSUME SocketInv, Sockets!ReadEnd
    PROVE  SocketInv' /\ NewEventIsNotGone
<1>0. Sockets!Current \in Sockets!Handles
  BY CurrentIsWatched DEF SocketInv, Sockets!ReadEnd, Sockets!Reads
<1>1. SocketTables'
  BY <1>0, SocketConstants DEF SocketInv, SocketTables, Sockets!ReadEnd, Sockets!Closed,
     Sockets!Closes, Sockets!Reads
<1>2. SocketWalk'
  BY <1>0, SocketConstants DEF SocketInv, SocketWalk, Sockets!ReadEnd, Sockets!Closed,
     Sockets!Closes, Sockets!Reads, Sockets!Nothing
<1>3. NewEventIsNotGone
  BY <1>0 DEF SocketInv, SocketEnds, NewEventIsNotGone, Sockets!ReadEnd, Sockets!Closed,
     Sockets!Closes, Sockets!Reads, Sockets!Nothing
<1>4. SocketEnds'
  BY <1>0, SocketConstants DEF SocketInv, SocketTables, SocketEnds, Sockets!RawOrPackets,
     Sockets!NothingLeftOpen, Sockets!ReadEnd, Sockets!Closed, Sockets!Closes,
     Sockets!Reads, Sockets!flagVars
<1>. QED
  BY <1>1, <1>2, <1>3, <1>4 DEF SocketInv

\* The socket has had its share.
LEMMA SocketsReadDone ==
    ASSUME SocketInv, Sockets!ReadDone
    PROVE  SocketInv' /\ NewEventIsNotGone
<1>1. SocketTables' /\ SocketEnds'
  BY SocketTablesStay DEF SocketInv, Sockets!ReadDone, Sockets!flagVars
<1>2. SocketWalk'
  BY SocketConstants DEF SocketInv, SocketWalk, Sockets!ReadDone, Sockets!Nothing
<1>3. NewEventIsNotGone
  BY DEF NewEventIsNotGone, Sockets!ReadDone, Sockets!Nothing
<1>. QED
  BY <1>1, <1>2, <1>3 DEF SocketInv

\* Steps of the other parts.
LEMMA SocketsStutter ==
    ASSUME SocketInv, UNCHANGED socketVars
    PROVE  SocketInv' /\ NewEventIsNotGone
  BY SocketWalkStays, SocketTablesStay
  DEF SocketInv, socketVars, Sockets!tableVars, Sockets!dispatchVars

\* Every step keeps the invariant and tells nothing of a socket that is gone.
LEMMA SocketsStep ==
    ASSUME SocketInv, Sockets!Next
    PROVE  SocketInv' /\ NewEventIsNotGone
  BY SocketsOpen, SocketsBeginRaw, SocketsEndRaw, SocketsEnablePackets, SocketsClose,
     SocketsCloseEntry, SocketsArrive, SocketsGuestCloses, SocketsTrap, SocketsStop,
     SocketsRelease, SocketsDispatch, SocketsReturn, SocketsWalk, SocketsAdvance,
     SocketsWalkDone, SocketsFlush, SocketsFlushFails, SocketsReadPacket, SocketsAccept,
     SocketsDeliver, SocketsDrop, SocketsReadEnd, SocketsReadDone
  DEF Sockets!Next, Sockets!Continue

\* The inductive invariant says all that SocketsSound does.
LEMMA SocketInvIsSound == ASSUME SocketInv PROVE Sockets!SocketsSound
<1>1. table \subseteq Sockets!Handles
  BY SocketConstants DEF SocketInv, SocketTables
<1>2. Sockets!TypeOK
  BY <1>1 DEF SocketInv, SocketTables, SocketWalk, Sockets!TypeOK, Sockets!Nothing
<1>. QED
  BY <1>2 DEF SocketInv, SocketEnds, Sockets!SocketsSound

\* The invariant holds always.
LEMMA SocketsInductive == SocketInv /\ [Next]_vars => SocketInv' /\ NewEventIsNotGone
  BY SocketsStep, SocketsStutter DEF Next, RuntimeNext, SessionNext, SocketsNext, vars

\* However threads, the module on the emulation thread, the other ends and the dispatch
\* interleave: no socket has packets while a thread is in a call on it, and one that left the
\* table is closed or about to be (net.cpp).
THEOREM SocketsAreSound == Spec => []SocketsSound
<1>1. Init => SocketInv
  BY SocketsInitially DEF Init
<1>2. SocketInv /\ [Next]_vars => SocketInv'
  BY SocketsInductive
<1>3. SocketInv => SocketsSound
  BY SocketInvIsSound DEF SocketsSound
<1>. QED
  BY <1>1, <1>2, <1>3, PTL DEF Spec

\* A module that closed a socket, or was told of its end, hears nothing more of it.
THEOREM NothingAfterTheEnd == Spec => NoEventAfterTheEnd
<1>1. Init => SocketInv
  BY SocketsInitially DEF Init
<1>2. SocketInv /\ [Next]_vars => SocketInv'
  BY SocketsInductive
<1>3. SocketInv /\ [Next]_vars =>
         [event' # event /\ event' # Sockets!Nothing => event' \notin gone]_(Sockets!vars)
  BY SocketsInductive DEF NewEventIsNotGone, Sockets!Nothing
<1>. QED
  BY <1>1, <1>2, <1>3, PTL DEF Spec, NoEventAfterTheEnd, Sockets!NoEventAfterTheEnd

-----------------------------------------------------------------------------
(* The runtime                                                              *)

Phases == {"pre", "normal", "post"}

\* The operators that Runtime brings with it are those of the library.
LEMMA RuntimeCardinality == \A S : Runtime!Cardinality(S) = Cardinality(S)
  BY Zenon DEF Runtime!Cardinality, Cardinality

\* The i-th least of a set of indices, as Runtime takes it.
LEMMA RuntimeNth == \A K, i : Runtime!Nth(K, i) = Nth(K, i)
  BY RuntimeCardinality, Zenon DEF Runtime!Nth, Nth

\* The elements of a list at some indices, as Runtime takes them.
LEMMA RuntimePicked == \A s, K : Runtime!Picked(s, K) = Picked(s, K)
  BY RuntimeCardinality, RuntimeNth, Zenon DEF Runtime!Picked, Picked

\* What the constants are.
LEMMA RuntimeConstants ==
    /\ ModuleCount \in Nat \ {0} /\ IsFiniteSet(Events) /\ NoList \notin Nat
    /\ Runtime!Modules = 1..ModuleCount
    /\ Runtime!Lists = 1..(Cardinality(Events) + 2)
    /\ Cardinality(Events) \in Nat
  BY HostAssumption, FS_CardinalityType, RuntimeCardinality
  DEF Runtime!RuntimeAssumption, Runtime!IsFiniteSet, IsFiniteSet, Runtime!Modules,
     Runtime!Lists

\* The null list is no list, and nobody is no module.
LEMMA NoListIsNoList == NoList \notin Runtime!Lists /\ 0 \notin Runtime!Modules
  BY RuntimeConstants

\* The list s holds the modules of S in their load order.
InLoadOrder(s, S) ==
    /\ s \in Seq(Runtime!Modules)
    /\ \A i \in 1..Len(s) : s[i] \in S
    /\ \A m \in S : \E i \in 1..Len(s) : s[i] = m
    /\ \A i, j \in 1..Len(s) : i < j => s[i] < s[j]

\* No more than there are modules.
LEMMA InLoadOrderIsShort ==
    ASSUME NEW s, NEW S, InLoadOrder(s, S)
    PROVE  Len(s) \in 0..ModuleCount
<1>1. PICK n \in Nat : n = Len(s)
  BY DEF InLoadOrder
<1>2. s \in [1..n -> 1..ModuleCount]
  BY <1>1, RuntimeConstants DEF InLoadOrder
<1>3. \A i, j \in 1..n : s[i] = s[j] => i = j
  <2>1. SUFFICES ASSUME NEW i \in 1..n, NEW j \in 1..n, i # j PROVE s[i] # s[j]
    OBVIOUS
  <2>2. s[i] \in 1..ModuleCount /\ s[j] \in 1..ModuleCount
    BY <1>2
  <2>3. i < j \/ j < i
    BY <2>1
  <2>4. i < j => s[i] < s[j]
    BY <1>1 DEF InLoadOrder
  <2>5. j < i => s[j] < s[i]
    BY <1>1 DEF InLoadOrder
  <2>. QED
    BY <2>2, <2>3, <2>4, <2>5
<1>4. s \in Injection(1..n, 1..ModuleCount)
  BY <1>2, <1>3 DEF Injection, IsInjective
<1>5. /\ IsFiniteSet(1..ModuleCount) /\ Cardinality(1..ModuleCount) = ModuleCount
      /\ Cardinality(1..n) = n
  BY RuntimeConstants, FS_Interval
<1>6. n <= ModuleCount
  BY <1>4, <1>5, FS_Injection
<1>. QED
  BY <1>1, <1>6

\* InsertByOrder puts a module that is not in the list where it belongs.
LEMMA LoadOrderInserts ==
    ASSUME NEW s, NEW S \in SUBSET Runtime!Modules, InLoadOrder(s, S),
           NEW m \in Runtime!Modules, m \notin S
    PROVE  /\ InLoadOrder(Runtime!InsertByOrder(s, m), S \union {m})
           /\ Runtime!InsertByOrder(s, m) # <<>>
<1>1. PICK n \in Nat : n = Len(s)
  BY DEF InLoadOrder
<1>2. /\ s \in Seq(Runtime!Modules) /\ \A i \in 1..n : s[i] \in S /\ s[i] \in Nat /\ s[i] # m
      /\ \A x \in S : \E i \in 1..n : s[i] = x
      /\ \A i, j \in 1..n : i < j => s[i] < s[j]
      /\ m \in Nat
  BY <1>1, RuntimeConstants DEF InLoadOrder
<1>3. PICK k \in 0..n : \A i \in 1..n : i <= k <=> s[i] < m
  <2>. DEFINE T == {i \in 1..n : m < s[i]}
  <2>1. CASE T = {}
    <3>1. \A i \in 1..n : i <= n /\ s[i] < m
      BY <1>2, <2>1
    <3>. QED
      BY <3>1
  <2>2. CASE T # {}
    <3>1. PICK l \in T : \A j \in T : l <= j
      BY <2>2, LeastNumber
    <3>2. \A i \in 1..n : i <= l - 1 <=> s[i] < m
      <4>1. SUFFICES ASSUME NEW i \in 1..n PROVE i <= l - 1 <=> s[i] < m
        OBVIOUS
      <4>2. CASE i < l
        <5>1. i \notin T
          BY <3>1, <4>2
        <5>. QED
          BY <1>2, <3>1, <4>2, <5>1
      <4>3. CASE i >= l
        <5>1. s[l] <= s[i]
          BY <1>2, <3>1, <4>3
        <5>2. m < s[l]
          BY <3>1
        <5>. QED
          BY <1>2, <3>1, <4>3, <5>1, <5>2
      <4>. QED
        BY <3>1, <4>2, <4>3
    <3>3. l - 1 \in 0..n
      BY <3>1
    <3>. QED
      BY <3>2, <3>3
  <2>. QED
    BY <2>1, <2>2
<1>4. Runtime!InsertByOrder(s, m) = SubSeq(s, 1, k) \o <<m>> \o SubSeq(s, k + 1, n)
  <2>1. {i \in DOMAIN s : s[i] < m} = 1..k
    <3>1. DOMAIN s = 1..n
      BY <1>1, <1>2
    <3>. QED
      BY <1>3, <3>1
  <2>2. Cardinality(1..k) = k
    BY FS_Interval
  <2>3. Runtime!Cardinality({i \in DOMAIN s : s[i] < m}) = k
    BY <2>1, <2>2, RuntimeCardinality, Zenon
  <2>4. Runtime!InsertByOrder(s, m) =
           SubSeq(s, 1, (k + 1) - 1) \o <<m>> \o SubSeq(s, k + 1, Len(s))
    BY <2>3, Zenon DEF Runtime!InsertByOrder, Runtime!InsertAt
  <2>5. (k + 1) - 1 = k
    OBVIOUS
  <2>. QED
    BY <1>1, <2>4, <2>5, Zenon
<1>. DEFINE t == Runtime!InsertByOrder(s, m)
<1>5. /\ t \in Seq(Runtime!Modules) /\ Len(t) = n + 1
      /\ \A i \in 1..k : t[i] = s[i]
      /\ t[k + 1] = m
      /\ \A i \in (k + 1)..n : t[i + 1] = s[i]
  <2>1. PICK r : r = Runtime!InsertByOrder(s, m)
    OBVIOUS
  <2>2. k \in 0..Len(s) /\ r = InsertedAfter(s, k, m)
    BY <1>1, <1>4, <2>1 DEF InsertedAfter
  <2>3. s \in Seq(Runtime!Modules) /\ m \in Runtime!Modules
    BY <1>2
  <2>. HIDE DEF t
  <2>4. r \in Seq(Runtime!Modules) /\ Len(r) = Len(s) + 1
    BY <2>2, <2>3, Inserted, SMTT(30)
  <2>5. \A i \in 1..k : r[i] = s[i]
    BY <2>2, <2>3, Inserted, SMTT(30)
  <2>7. r[k + 1] = m
    BY <2>2, <2>3, Inserted, SMTT(30)
  <2>6. \A i \in (k + 1)..Len(s) : r[i + 1] = s[i]
    BY <2>2, <2>3, Inserted, SMTT(30)
  <2>8. t = r
    BY <2>1 DEF t
  <2>9. \A i \in 1..k : t[i] = s[i]
    BY <2>5, <2>8
  <2>10. \A i \in (k + 1)..n : t[i + 1] = s[i]
    BY <1>1, <2>6, <2>8
  <2>11. t \in Seq(Runtime!Modules) /\ Len(t) = n + 1 /\ t[k + 1] = m
    BY <1>1, <2>4, <2>7, <2>8
  <2>. QED
    BY <2>9, <2>10, <2>11
<1>. HIDE DEF t
<1>6. \A i \in 1..(n + 1) : t[i] \in S \union {m}
  <2>1. SUFFICES ASSUME NEW i \in 1..(n + 1) PROVE t[i] \in S \union {m}
    OBVIOUS
  <2>2. CASE i <= k
    BY <1>2, <1>5, <2>2
  <2>3. CASE i = k + 1
    BY <1>5, <2>3
  <2>4. CASE i > k + 1
    <3>1. PICK j \in (k + 1)..n : j + 1 = i
      BY <2>4
    <3>2. j \in 1..n
      BY <3>1
    <3>3. t[j + 1] = s[j]
      BY <1>5, <3>1, Zenon
    <3>4. t[i] = s[j]
      BY <3>1, <3>3, Zenon
    <3>5. s[j] \in S
      BY <1>2, <3>2
    <3>. QED
      BY <3>4, <3>5, Zenon
  <2>. QED
    BY <2>2, <2>3, <2>4
<1>7. ASSUME NEW x \in S \union {m} PROVE \E i \in 1..(n + 1) : t[i] = x
  <2>1. CASE x = m
    <3>1. k + 1 \in 1..(n + 1)
      OBVIOUS
    <3>. QED
      BY <1>5, <2>1, <3>1
  <2>2. CASE x # m
    <3>1. PICK i \in 1..n : s[i] = x
      BY <1>2, <2>2
    <3>2. CASE i <= k
      BY <1>5, <3>1, <3>2
    <3>3. CASE i > k
      <4>1. i \in (k + 1)..n /\ i + 1 \in 1..(n + 1)
        BY <3>3
      <4>. QED
        BY <1>5, <3>1, <4>1
    <3>. QED
      BY <3>2, <3>3
  <2>. QED
    BY <2>1, <2>2
<1>8. ASSUME NEW i \in 1..(n + 1), NEW j \in 1..(n + 1), i < j PROVE t[i] < t[j]
  <2>1. CASE j <= k
    BY <1>2, <1>5, <1>8, <2>1
  <2>2. CASE j = k + 1
    <3>1. i \in 1..k /\ i \in 1..n
      BY <1>8, <2>2
    <3>. QED
      BY <1>3, <1>5, <2>2, <3>1
  <2>3. CASE j > k + 1
    <3>1. PICK b \in (k + 1)..n : b + 1 = j
      BY <2>3
    <3>2. t[j] = s[b] /\ m < s[b]
      <4>1. b \in 1..n /\ ~(b <= k)
        OBVIOUS
      <4>2. ~(s[b] < m) /\ s[b] \in Nat /\ s[b] # m
        BY <1>2, <1>3, <4>1
      <4>3. t[j] = s[b]
        BY <1>5, <3>1
      <4>. QED
        BY <1>2, <4>2, <4>3
    <3>3. CASE i <= k
      <4>1. i \in 1..n /\ b \in 1..n /\ i < b
        BY <3>3
      <4>. QED
        BY <1>2, <1>5, <3>2, <3>3, <4>1
    <3>4. CASE i = k + 1
      BY <1>5, <3>2, <3>4
    <3>5. CASE i > k + 1
      <4>1. PICK a \in (k + 1)..n : a + 1 = i
        BY <3>5
      <4>2. a \in 1..n /\ b \in 1..n /\ a < b
        BY <1>8, <3>1, <4>1
      <4>. QED
        BY <1>2, <1>5, <3>2, <4>1, <4>2
    <3>. QED
      BY <3>3, <3>4, <3>5
  <2>. QED
    BY <2>1, <2>2, <2>3
<1>9. t # <<>>
  BY <1>5
<1>10. InLoadOrder(t, S \union {m})
  BY <1>5, <1>6, <1>7, <1>8 DEF InLoadOrder
<1>. QED
  BY <1>9, <1>10 DEF t

\* The list of a filter, as picked elements.
LEMMA WithoutIsPicked ==
    ASSUME NEW s \in Seq(Runtime!Modules), NEW m
    PROVE  /\ {i \in 1..Len(s) : s[i] # m} \in SUBSET (1..Len(s))
           /\ Runtime!Without(s, m) = Picked(s, {i \in 1..Len(s) : s[i] # m})
  BY RuntimePicked DEF Runtime!Without, Runtime!Filter

\* What is left of a list has the other elements, in their order.
LEMMA WithoutKeeps ==
    ASSUME NEW s \in Seq(Runtime!Modules), NEW m, NEW t, t = Runtime!Without(s, m)
    PROVE  /\ t \in Seq(Runtime!Modules)
           /\ \A i \in 1..Len(t) : t[i] # m /\ \E k \in 1..Len(s) : t[i] = s[k]
           /\ \A k \in 1..Len(s) : s[k] # m => \E i \in 1..Len(t) : t[i] = s[k]
           /\ \E g \in [1..Len(t) -> 1..Len(s)] :
                 /\ \A i \in 1..Len(t) : t[i] = s[g[i]]
                 /\ \A i, j \in 1..Len(t) : i < j => g[i] < g[j]
<1>. DEFINE K == {i \in 1..Len(s) : s[i] # m}
<1>1. K \in SUBSET (1..Len(s)) /\ t = Picked(s, K)
  BY WithoutIsPicked
<1>2. \A k \in 1..Len(s) : k \in K <=> s[k] # m
  OBVIOUS
<1>. HIDE DEF K
<1>3. PICK c \in Nat : c = Cardinality(K)
  BY <1>1, PickedOf
<1>4. /\ t \in Seq(Runtime!Modules) /\ Len(t) = c
      /\ \A i \in 1..c : Nth(K, i) \in K /\ t[i] = s[Nth(K, i)]
      /\ \A i, j \in 1..c : i < j => Nth(K, i) < Nth(K, j)
      /\ \A k \in K : \E i \in 1..c : k = Nth(K, i)
  BY <1>1, <1>3, PickedOf
<1>5. \A i \in 1..c : t[i] # m /\ \E k \in 1..Len(s) : t[i] = s[k]
  BY <1>1, <1>2, <1>4
<1>6. \A k \in 1..Len(s) : s[k] # m => \E i \in 1..c : t[i] = s[k]
  BY <1>2, <1>4
<1>. DEFINE g == [i \in 1..c |-> Nth(K, i)]
<1>7. g \in [1..c -> 1..Len(s)] /\ \A i \in 1..c : g[i] = Nth(K, i)
  BY <1>1, <1>4
<1>. HIDE DEF g
<1>8. (\A i \in 1..c : t[i] = s[g[i]]) /\ (\A i, j \in 1..c : i < j => g[i] < g[j])
  BY <1>4, <1>7
<1>. QED
  BY <1>4, <1>5, <1>6, <1>7, <1>8

\* What Without leaves of a list in load order is in load order.
LEMMA LoadOrderErases ==
    ASSUME NEW s, NEW S \in SUBSET Runtime!Modules, InLoadOrder(s, S), NEW m
    PROVE  InLoadOrder(Runtime!Without(s, m), S \ {m})
<1>. DEFINE t == Runtime!Without(s, m)
<1>1. PICK n \in Nat : n = Len(s)
  BY DEF InLoadOrder
<1>2. /\ s \in Seq(Runtime!Modules) /\ \A i \in 1..n : s[i] \in S
      /\ \A x \in S : \E i \in 1..n : s[i] = x
      /\ \A i, j \in 1..n : i < j => s[i] < s[j]
  BY <1>1 DEF InLoadOrder
<1>3. /\ t \in Seq(Runtime!Modules)
      /\ \A i \in 1..Len(t) : t[i] # m /\ \E k \in 1..n : t[i] = s[k]
      /\ \A k \in 1..n : s[k] # m => \E i \in 1..Len(t) : t[i] = s[k]
  BY <1>1, <1>2, WithoutKeeps
<1>4. PICK g \in [1..Len(t) -> 1..n] :
         /\ \A i \in 1..Len(t) : t[i] = s[g[i]]
         /\ \A i, j \in 1..Len(t) : i < j => g[i] < g[j]
  BY <1>1, <1>2, WithoutKeeps
<1>. HIDE DEF t
<1>5. \A i \in 1..Len(t) : t[i] \in S \ {m}
  BY <1>2, <1>3
<1>6. \A x \in S \ {m} : \E i \in 1..Len(t) : t[i] = x
  BY <1>2, <1>3
<1>7. \A i, j \in 1..Len(t) : i < j => t[i] < t[j]
  BY <1>2, <1>4
<1>8. InLoadOrder(t, S \ {m})
  BY <1>3, <1>5, <1>6, <1>7 DEF InLoadOrder
<1>. QED
  BY <1>8 DEF t

\* A list of nothing is empty, and only that.
LEMMA LoadOrderOfNothing ==
    ASSUME NEW s, NEW S, InLoadOrder(s, S)
    PROVE  s = <<>> <=> S = {}
<1>1. S = {} => Len(s) = 0
  BY DEF InLoadOrder
<1>2. s = <<>> => S = {}
  BY DEF InLoadOrder
<1>3. s \in Seq(Runtime!Modules)
  BY DEF InLoadOrder
<1>4. Len(s) = 0 => s = <<>>
  BY <1>3
<1>. QED
  BY <1>1, <1>2, <1>4



\* The modules that follow e.
FollowersOf(e) == {m \in Runtime!Modules : e \in events[m]}

RuntimeTypes ==
    /\ events \in [Runtime!Modules -> SUBSET Events]
    /\ subscribers \in [Events -> Runtime!Lists \union {NoList}]
    /\ lists \in [Runtime!Lists -> Seq(Runtime!Modules)]
    /\ dead \subseteq Runtime!Modules /\ ending \subseteq Runtime!Modules
    /\ initialized \subseteq Runtime!Modules /\ freed \subseteq Runtime!Modules
    /\ pendingDispatch \in Seq(Runtime!Modules) /\ pending \in Seq(Runtime!Modules)
    /\ dispatchPending \subseteq Runtime!Modules /\ asked \subseteq Runtime!Modules
    /\ recipients \in Runtime!Lists \union {NoList}
    /\ inside \in Runtime!Modules \union {0}
    /\ first \in Seq(Runtime!Modules)
    /\ heard \in Seq(Runtime!Modules \X Phases)

\* How far each loop of the emulation thread goes.
RuntimeTurns ==
    /\ doing \in {"init", "machine", "deliver", "swap", "dispatch", "shutdown", "release"}
    /\ turn \in 0..(3 * ModuleCount + 1)
    /\ doing = "init" => turn >= 1
    /\ doing \in {"shutdown", "release"} => turn <= ModuleCount

\* An event has a list when it is followed, and no other event has it.
RuntimeLists ==
    /\ \A e \in Events : subscribers[e] = NoList => FollowersOf(e) = {}
    /\ \A e \in Events : subscribers[e] # NoList =>
          InLoadOrder(lists[subscribers[e]], FollowersOf(e)) /\ lists[subscribers[e]] # <<>>
    /\ \A e, f \in Events : subscribers[e] = subscribers[f] /\ e # f => subscribers[e] = NoList

RuntimeRequests ==
    /\ Runtime!RequestsAgree
    /\ Runtime!RequestsKept
    /\ freed # {} => doing = "release"
    /\ doing = "release" => inside = 0
    /\ doing \in {"shutdown", "release"} => ending = Runtime!Modules
    /\ doing # "dispatch" => pending = <<>>

\* What was heard is the calls so far without some of them, all of modules that
\* have trapped.
HeardBut(K) ==
    /\ K \in SUBSET (1..(turn - 1))
    /\ heard = Picked(SubSeq(Runtime!Calls(first), 1, turn - 1), K)
    /\ \A i \in 1..(turn - 1) : i \notin K => Runtime!Calls(first)[i][1] \in dead

RuntimeDelivery ==
    /\ recipients # NoList <=> doing = "deliver"
    /\ doing # "deliver" => heard = <<>>
    /\ doing = "deliver" =>
          /\ first = lists[recipients] /\ Len(first) <= ModuleCount
          /\ turn \in 1..(3 * Len(first) + 1)
          /\ \E K \in SUBSET (1..(turn - 1)) : HeardBut(K)

RuntimeInv ==
    RuntimeTypes /\ RuntimeTurns /\ RuntimeLists /\ RuntimeRequests /\ RuntimeDelivery

-----------------------------------------------------------------------------
(* Lists that are free, and the list that a change goes to                  *)

\* A list with no uses is held by nobody.
LEMMA UsesOfNone ==
    ASSUME NEW l, Runtime!Uses(l) = 0
    PROVE  recipients # l /\ \A e \in Events : subscribers[e] # l
<1>. DEFINE E == {e \in Events : subscribers[e] = l}
<1>1. IsFiniteSet(E) /\ Cardinality(E) \in Nat
  BY RuntimeConstants, FS_Subset, FS_CardinalityType
<1>2. Runtime!Uses(l) = Cardinality(E) + (IF recipients = l THEN 1 ELSE 0)
  BY RuntimeCardinality DEF Runtime!Uses
<1>3. Cardinality(E) = 0 /\ recipients # l
  BY <1>1, <1>2
<1>4. E = {}
  BY <1>1, <1>3, FS_EmptySet
<1>. QED
  BY <1>3, <1>4

\* The delivery does not hold a list whose only use is an event.
LEMMA UsesOfOne ==
    ASSUME NEW l, Runtime!Uses(l) = 1, NEW e \in Events, subscribers[e] = l
    PROVE  recipients # l
<1>. DEFINE E == {f \in Events : subscribers[f] = l}
<1>1. IsFiniteSet(E) /\ Cardinality(E) \in Nat
  BY RuntimeConstants, FS_Subset, FS_CardinalityType
<1>2. Runtime!Uses(l) = Cardinality(E) + (IF recipients = l THEN 1 ELSE 0)
  BY RuntimeCardinality DEF Runtime!Uses
<1>3. Cardinality(E) # 0
  <2>1. e \in E
    OBVIOUS
  <2>. QED
    BY <1>1, <2>1, FS_EmptySet
<1>. QED
  BY <1>1, <1>2, <1>3

\* There are more lists than events and a delivery could hold.
LEMMA FreshList ==
    /\ Runtime!Fresh \in Runtime!Lists
    /\ recipients # Runtime!Fresh
    /\ \A e \in Events : subscribers[e] # Runtime!Fresh
<1>. DEFINE U == {subscribers[e] : e \in Events}
<1>1. IsFiniteSet(U) /\ Cardinality(U) <= Cardinality(Events)
  <2>. DEFINE g == [e \in Events |-> subscribers[e]]
  <2>1. g \in Surjection(Events, U)
    BY DEF Surjection
  <2>. QED
    BY <2>1, RuntimeConstants, FS_Surjection
<1>2. IsFiniteSet(U \union {recipients}) /\ Cardinality(U \union {recipients}) <= Cardinality(U) + 1
  BY <1>1, FS_AddElement, FS_CardinalityType
<1>3. Cardinality(U) \in Nat /\ Cardinality(U \union {recipients}) \in Nat
  BY <1>1, <1>2, FS_CardinalityType
<1>4. PICK l \in Runtime!Lists : l \notin U \union {recipients}
  <2>1. CASE Runtime!Lists \subseteq U \union {recipients}
    <3>1. Cardinality(Runtime!Lists) = Cardinality(Events) + 2
      BY RuntimeConstants, FS_Interval
    <3>2. Cardinality(Runtime!Lists) <= Cardinality(U \union {recipients})
      BY <1>2, <2>1, FS_Subset
    <3>. QED
      BY <1>1, <1>2, <1>3, <3>1, <3>2, RuntimeConstants
  <2>. QED
    BY <2>1
<1>5. Runtime!Uses(l) = 0
  <2>1. {e \in Events : subscribers[e] = l} = {} /\ recipients # l
    BY <1>4
  <2>2. Cardinality({e \in Events : subscribers[e] = l}) = 0
    BY <2>1, FS_EmptySet
  <2>. QED
    BY <2>1, <2>2, RuntimeCardinality DEF Runtime!Uses
<1>6. Runtime!Fresh \in Runtime!Lists /\ Runtime!Uses(Runtime!Fresh) = 0
  BY <1>4, <1>5, Zenon DEF Runtime!Fresh
<1>. QED
  BY <1>6, UsesOfNone

\* The list that Subscribe changes is held by no delivery and by no other event.
LEMMA WritableList ==
    ASSUME RuntimeTypes, RuntimeLists, NEW e \in Events, NEW l, l = Runtime!Writable(e)
    PROVE  /\ l \in Runtime!Lists /\ recipients # l
           /\ \A f \in Events : f # e => subscribers[f] # l
<1>1. CASE subscribers[e] # NoList /\ Runtime!Uses(subscribers[e]) = 1
  <2>1. l = subscribers[e] /\ l \in Runtime!Lists
    BY <1>1 DEF Runtime!Writable, RuntimeTypes
  <2>2. recipients # l
    BY <1>1, <2>1, UsesOfOne
  <2>3. \A f \in Events : f # e => subscribers[f] # l
    BY <1>1, <2>1 DEF RuntimeLists
  <2>. QED
    BY <2>1, <2>2, <2>3
<1>2. CASE ~(subscribers[e] # NoList /\ Runtime!Uses(subscribers[e]) = 1)
  <2>1. l = Runtime!Fresh
    BY <1>2 DEF Runtime!Writable
  <2>. QED
    BY <2>1, FreshList
<1>. QED
  BY <1>1, <1>2

\* What an event has for a list, with an empty one for none.
LEMMA FollowersInOrder ==
    ASSUME RuntimeTypes, RuntimeLists, NEW e \in Events
    PROVE  /\ InLoadOrder(Runtime!Followers(e), FollowersOf(e))
           /\ Runtime!Followers(e) = <<>> <=> subscribers[e] = NoList
           /\ FollowersOf(e) \in SUBSET Runtime!Modules
<1>1. CASE subscribers[e] = NoList
  <2>1. Runtime!Followers(e) = <<>> /\ FollowersOf(e) = {}
    BY <1>1 DEF Runtime!Followers, RuntimeLists
  <2>2. <<>> \in Seq(Runtime!Modules) /\ Len(<<>>) = 0
    OBVIOUS
  <2>. QED
    BY <1>1, <2>1, <2>2 DEF InLoadOrder
<1>2. CASE subscribers[e] # NoList
  BY <1>2 DEF Runtime!Followers, RuntimeLists, FollowersOf
<1>. QED
  BY <1>1, <1>2

-----------------------------------------------------------------------------
(* What a step leaves alone                                                 *)

\* Steps that leave the subscriptions alone.
LEMMA ListsStay ==
    ASSUME RuntimeLists, UNCHANGED Runtime!listVars
    PROVE  RuntimeLists'
  BY DEF RuntimeLists, Runtime!listVars, FollowersOf

\* Steps that neither request nor answer, and release nobody.
LEMMA RequestsStay ==
    ASSUME RuntimeRequests, UNCHANGED Runtime!requestVars, UNCHANGED pending,
           dead \subseteq dead', ending \subseteq ending', UNCHANGED freed,
           freed = {} \/ UNCHANGED events,
           doing' \in {"shutdown", "release"} => ending' = Runtime!Modules,
           freed # {} => doing' = "release",
           doing' = "release" => inside' = 0,
           doing' # "dispatch" => pending = <<>>
    PROVE  RuntimeRequests'
<1>1. Runtime!RequestsAgree'
  BY DEF RuntimeRequests, Runtime!RequestsAgree, Runtime!requestVars
<1>2. Runtime!RequestsKept'
  BY DEF RuntimeRequests, Runtime!RequestsKept, Runtime!requestVars
<1>. QED
  BY <1>1, <1>2 DEF RuntimeRequests

\* Steps that do not deliver, and leave the list of the delivery as it is.
LEMMA DeliveryStays ==
    ASSUME RuntimeDelivery, UNCHANGED <<doing, turn, recipients, first, heard>>,
           recipients # NoList => lists'[recipients] = lists[recipients],
           dead \subseteq dead'
    PROVE  RuntimeDelivery'
<1>1. ASSUME NEW K, HeardBut(K) PROVE HeardBut(K)'
  BY <1>1 DEF HeardBut
<1>2. ASSUME doing = "deliver"
      PROVE  \E K \in SUBSET (1..(turn' - 1)) : HeardBut(K)'
  <2>1. PICK K \in SUBSET (1..(turn - 1)) : HeardBut(K)
    BY <1>2 DEF RuntimeDelivery
  <2>2. HeardBut(K)'
    BY <1>1, <2>1
  <2>. QED
    BY <2>1, <2>2
<1>. QED
  BY <1>2 DEF RuntimeDelivery

-----------------------------------------------------------------------------
(* The steps                                                                *)

\* A module that is being called changes its subscriptions: the list that a delivery
\* holds, and those of other events, stay as they are.
LEMMA RuntimeSubscribes ==
    ASSUME RuntimeInv, NEW e \in Events, NEW enabled \in BOOLEAN,
           Runtime!GuestSubscribes(e, enabled)
    PROVE  RuntimeInv'
<1>1. inside \in Runtime!Modules /\ inside # 0
  BY DEF RuntimeInv, RuntimeTypes, Runtime!GuestSubscribes, Runtime!Nobody
<1>2. PICK m \in Runtime!Modules : m = inside
  BY <1>1
<1>3. PICK l, list :
         /\ l = Runtime!Writable(e)
         /\ list = IF enabled THEN Runtime!InsertByOrder(Runtime!Followers(e), m)
                   ELSE Runtime!Without(Runtime!Followers(e), m)
  OBVIOUS
<1>4. /\ (e \in events[m]) # enabled
      /\ events' = [events EXCEPT ![m] = IF enabled THEN @ \union {e} ELSE @ \ {e}]
      /\ subscribers' = [subscribers EXCEPT ![e] = IF list = <<>> THEN NoList ELSE l]
      /\ lists' = Runtime!Freed([lists EXCEPT ![l] = list], recipients)
  BY <1>2, <1>3, Zenon DEF Runtime!GuestSubscribes, Runtime!Subscribe
<1>5. /\ RuntimeTypes /\ RuntimeLists /\ RuntimeTurns /\ RuntimeRequests /\ RuntimeDelivery
      /\ UNCHANGED <<Runtime!flagVars, Runtime!requestVars, Runtime!emuVars>>
  BY DEF RuntimeInv, Runtime!GuestSubscribes
<1>6. /\ l \in Runtime!Lists /\ recipients # l /\ l # NoList
      /\ \A f \in Events : f # e => subscribers[f] # l
  BY <1>3, <1>5, WritableList, NoListIsNoList
<1>7. /\ InLoadOrder(Runtime!Followers(e), FollowersOf(e))
      /\ FollowersOf(e) \in SUBSET Runtime!Modules
  BY <1>5, FollowersInOrder
<1>8. /\ FollowersOf(e)' = IF enabled THEN FollowersOf(e) \union {m} ELSE FollowersOf(e) \ {m}
      /\ \A f \in Events : f # e => FollowersOf(f)' = FollowersOf(f)
  <2>1. events \in [Runtime!Modules -> SUBSET Events]
    BY <1>5 DEF RuntimeTypes
  <2>2. CASE enabled
    BY <1>2, <1>4, <2>1, <2>2 DEF FollowersOf
  <2>3. CASE ~enabled
    BY <1>2, <1>4, <2>1, <2>3 DEF FollowersOf
  <2>. QED
    BY <2>2, <2>3
<1>9. InLoadOrder(list, FollowersOf(e)')
  <2>1. CASE enabled
    <3>1. e \notin events[m]
      BY <1>4, <2>1
    <3>2. m \notin FollowersOf(e)
      BY <3>1 DEF FollowersOf
    <3>3. InLoadOrder(Runtime!InsertByOrder(Runtime!Followers(e), m), FollowersOf(e) \union {m})
      BY <1>7, <3>2, LoadOrderInserts
    <3>. QED
      BY <1>3, <1>8, <2>1, <3>3
  <2>2. CASE ~enabled
    <3>1. InLoadOrder(Runtime!Without(Runtime!Followers(e), m), FollowersOf(e) \ {m})
      BY <1>7, LoadOrderErases
    <3>. QED
      BY <1>3, <1>8, <2>2, <3>1
  <2>. QED
    BY <2>1, <2>2
<1>10. (list = <<>> <=> FollowersOf(e)' = {}) /\ list \in Seq(Runtime!Modules)
  BY <1>9, LoadOrderOfNothing DEF InLoadOrder
<1>11. \A k \in Runtime!Lists :
          lists'[k] = IF recipients = k \/ \E f \in Events : subscribers'[f] = k
                      THEN IF k = l THEN list ELSE lists[k] ELSE <<>>
  BY <1>4, <1>5 DEF Runtime!Freed, RuntimeTypes
<1>12. /\ subscribers' \in [Events -> Runtime!Lists \union {NoList}]
       /\ subscribers'[e] = IF list = <<>> THEN NoList ELSE l
       /\ \A f \in Events : f # e => subscribers'[f] = subscribers[f]
  BY <1>4, <1>5, <1>6 DEF RuntimeTypes
<1>13. RuntimeTypes'
  <2>1. events' \in [Runtime!Modules -> SUBSET Events]
    BY <1>2, <1>4, <1>5 DEF RuntimeTypes
  <2>2. lists' \in [Runtime!Lists -> Seq(Runtime!Modules)]
    <3>1. lists' = [k \in Runtime!Lists |-> lists'[k]]
      BY <1>4 DEF Runtime!Freed
    <3>2. \A k \in Runtime!Lists : lists'[k] \in Seq(Runtime!Modules)
      <4>1. \A k \in Runtime!Lists : lists[k] \in Seq(Runtime!Modules)
        BY <1>5 DEF RuntimeTypes
      <4>2. <<>> \in Seq(Runtime!Modules)
        OBVIOUS
      <4>. QED
        BY <1>10, <1>11, <4>1, <4>2, Zenon
    <3>. QED
      BY <3>1, <3>2
  <2>. QED
    BY <1>5, <1>12, <2>1, <2>2
    DEF RuntimeTypes, Runtime!flagVars, Runtime!requestVars, Runtime!emuVars
<1>14. RuntimeLists'
  <2>1. \A f \in Events : f # e /\ subscribers[f] # NoList =>
           lists'[subscribers[f]] = lists[subscribers[f]]
    BY <1>5, <1>6, <1>11, <1>12 DEF RuntimeTypes
  <2>2. list # <<>> => lists'[l] = list
    BY <1>6, <1>11, <1>12
  <2>3. \A f \in Events : subscribers'[f] = NoList => FollowersOf(f)' = {}
    BY <1>5, <1>6, <1>8, <1>10, <1>12 DEF RuntimeLists
  <2>4. ASSUME NEW f \in Events, subscribers'[f] # NoList
        PROVE  /\ InLoadOrder(lists'[subscribers'[f]], FollowersOf(f)')
               /\ lists'[subscribers'[f]] # <<>>
    <3>1. CASE f = e
      BY <1>6, <1>9, <1>12, <2>2, <2>4, <3>1
    <3>2. CASE f # e
      BY <1>5, <1>6, <1>8, <1>12, <2>1, <2>4, <3>2 DEF RuntimeLists
    <3>. QED
      BY <3>1, <3>2
  <2>5. \A f, g \in Events : subscribers'[f] = subscribers'[g] /\ f # g => subscribers'[f] = NoList
    BY <1>5, <1>6, <1>12 DEF RuntimeLists
  <2>. QED
    BY <2>3, <2>4, <2>5 DEF RuntimeLists
<1>15. RuntimeTurns'
  BY <1>5 DEF RuntimeTurns, Runtime!emuVars
<1>16. RuntimeRequests'
  <2>1. freed = {} /\ doing # "release"
    BY <1>1, <1>5 DEF RuntimeRequests
  <2>. QED
    BY <1>5, <2>1, RequestsStay DEF RuntimeRequests, Runtime!flagVars, Runtime!emuVars
<1>17. RuntimeDelivery'
  <2>1. recipients # NoList => lists'[recipients] = lists[recipients]
    BY <1>5, <1>6, <1>11 DEF RuntimeTypes
  <2>. QED
    BY <1>5, <2>1, DeliveryStays DEF Runtime!flagVars, Runtime!emuVars
<1>. QED
  BY <1>13, <1>14, <1>15, <1>16, <1>17 DEF RuntimeInv

\* The call of a module ends.
LEMMA RuntimeReturns == ASSUME RuntimeInv, Runtime!Return PROVE RuntimeInv'
<1>1. RuntimeTypes /\ RuntimeLists /\ RuntimeTurns /\ RuntimeRequests /\ RuntimeDelivery
  BY DEF RuntimeInv
<1>2. RuntimeTypes'
  BY <1>1 DEF RuntimeTypes, Runtime!Return, Runtime!listVars, Runtime!requestVars,
     Runtime!Nobody
<1>3. RuntimeLists'
  BY <1>1, ListsStay DEF Runtime!Return
<1>4. RuntimeTurns'
  BY <1>1 DEF RuntimeTurns, Runtime!Return
<1>5. RuntimeRequests'
  BY <1>1, RequestsStay DEF RuntimeRequests, Runtime!Return, Runtime!listVars,
     Runtime!Nobody
<1>6. RuntimeDelivery'
  BY <1>1, DeliveryStays DEF Runtime!Return, Runtime!listVars
<1>. QED
  BY <1>2, <1>3, <1>4, <1>5, <1>6 DEF RuntimeInv

\* A module traps: what it missed before may be missing from what was heard.
LEMMA RuntimeTraps == ASSUME RuntimeInv, Runtime!Trap PROVE RuntimeInv'
<1>1. RuntimeTypes /\ RuntimeLists /\ RuntimeTurns /\ RuntimeRequests /\ RuntimeDelivery
  BY DEF RuntimeInv
<1>2. RuntimeTypes'
  BY <1>1 DEF RuntimeTypes, Runtime!Trap, Runtime!listVars, Runtime!requestVars,
     Runtime!Nobody
<1>3. RuntimeLists'
  BY <1>1, ListsStay DEF Runtime!Trap
<1>4. RuntimeTurns'
  BY <1>1 DEF RuntimeTurns, Runtime!Trap
<1>5. RuntimeRequests'
  BY <1>1, RequestsStay DEF RuntimeRequests, Runtime!Trap, Runtime!listVars, Runtime!Nobody
<1>6. RuntimeDelivery'
  BY <1>1, DeliveryStays DEF Runtime!Trap, Runtime!listVars
<1>. QED
  BY <1>2, <1>3, <1>4, <1>5, <1>6 DEF RuntimeInv

\* On_Init of the next module.
LEMMA RuntimeInits == ASSUME RuntimeInv, Runtime!InitModule PROVE RuntimeInv'
<1>1. RuntimeTypes /\ RuntimeLists /\ RuntimeTurns /\ RuntimeRequests /\ RuntimeDelivery
  BY DEF RuntimeInv
<1>2. turn \in Runtime!Modules /\ turn' = turn + 1 /\ turn' \in 1..(ModuleCount + 1)
  BY <1>1, RuntimeConstants DEF RuntimeTurns, Runtime!InitModule
<1>3. RuntimeTypes'
  BY <1>1, <1>2 DEF RuntimeTypes, Runtime!InitModule, Runtime!Enters, Runtime!Nobody,
     Runtime!listVars, Runtime!flagVars, Runtime!requestVars
<1>4. RuntimeLists'
  BY <1>1, ListsStay DEF Runtime!InitModule
<1>5. RuntimeTurns'
  BY <1>1, <1>2, RuntimeConstants DEF RuntimeTurns, Runtime!InitModule
<1>6. RuntimeRequests'
  BY <1>1, RequestsStay DEF RuntimeRequests, Runtime!InitModule, Runtime!flagVars,
     Runtime!listVars
<1>7. RuntimeDelivery'
  BY <1>1 DEF RuntimeDelivery, Runtime!InitModule
<1>. QED
  BY <1>3, <1>4, <1>5, <1>6, <1>7 DEF RuntimeInv

\* All modules had their On_Init.
LEMMA RuntimeInitDone == ASSUME RuntimeInv, Runtime!InitDone PROVE RuntimeInv'
<1>1. RuntimeTypes /\ RuntimeLists /\ RuntimeTurns /\ RuntimeRequests /\ RuntimeDelivery
  BY DEF RuntimeInv
<1>2. RuntimeTypes'
  BY <1>1 DEF RuntimeTypes, Runtime!InitDone, Runtime!listVars, Runtime!flagVars,
     Runtime!requestVars
<1>3. RuntimeLists'
  BY <1>1, ListsStay DEF Runtime!InitDone
<1>4. RuntimeTurns'
  BY <1>1, RuntimeConstants DEF RuntimeTurns, Runtime!InitDone
<1>5. RuntimeRequests'
  BY <1>1, RequestsStay DEF RuntimeRequests, Runtime!InitDone, Runtime!flagVars,
     Runtime!listVars
<1>6. RuntimeDelivery'
  BY <1>1 DEF RuntimeDelivery, Runtime!InitDone
<1>. QED
  BY <1>2, <1>3, <1>4, <1>5, <1>6 DEF RuntimeInv

\* The machine raises an event.
LEMMA RuntimeRaises ==
    ASSUME RuntimeInv, NEW e \in Events, Runtime!Event(e)
    PROVE  RuntimeInv'
<1>1. RuntimeTypes /\ RuntimeLists /\ RuntimeTurns /\ RuntimeRequests /\ RuntimeDelivery
  BY DEF RuntimeInv
<1>2. InLoadOrder(Runtime!Followers(e), FollowersOf(e))
  BY <1>1, FollowersInOrder
<1>3. first' = Runtime!Followers(e) /\ first' \in Seq(Runtime!Modules)
      /\ Len(first') \in 0..ModuleCount
  BY <1>2, InLoadOrderIsShort DEF Runtime!Event, InLoadOrder
<1>4. /\ doing' = IF subscribers[e] = NoList THEN "swap" ELSE "deliver"
      /\ recipients' = subscribers[e] /\ turn' = 1 /\ heard' = heard /\ heard = <<>>
      /\ doing = "machine" /\ UNCHANGED <<Runtime!listVars, Runtime!flagVars, Runtime!requestVars>>
      /\ pending' = pending /\ inside' = inside
  BY <1>1 DEF Runtime!Event, RuntimeDelivery
<1>5. RuntimeTypes'
  BY <1>1, <1>3, <1>4 DEF RuntimeTypes, Runtime!listVars, Runtime!flagVars,
     Runtime!requestVars
<1>6. RuntimeLists'
  BY <1>1, <1>4, ListsStay
<1>7. RuntimeTurns'
  BY <1>1, <1>4, RuntimeConstants DEF RuntimeTurns
<1>8. RuntimeRequests'
  BY <1>1, <1>4, RequestsStay DEF RuntimeRequests, Runtime!flagVars, Runtime!listVars
<1>9. RuntimeDelivery'
  <2>1. subscribers[e] # NoList => first' = lists'[recipients']
    BY <1>3, <1>4 DEF Runtime!Followers, Runtime!listVars
  <2>2. HeardBut({})'
    <3>1. 1..(turn' - 1) = {}
      BY <1>4
    <3>2. heard' = Picked(SubSeq(Runtime!Calls(first'), 1, turn' - 1), {})
      BY <1>4, PickedNone
    <3>. QED
      BY <3>1, <3>2 DEF HeardBut
  <2>3. \E K \in SUBSET (1..(turn' - 1)) : HeardBut(K)'
    BY <2>2
  <2>4. Len(first') <= ModuleCount /\ turn' \in 1..(3 * Len(first') + 1)
    BY <1>3, <1>4, RuntimeConstants
  <2>. QED
    BY <1>4, <2>1, <2>3, <2>4 DEF RuntimeDelivery
<1>. QED
  BY <1>5, <1>6, <1>7, <1>8, <1>9 DEF RuntimeInv

\* The calls of a delivery to a list of n modules.
LEMMA CallsOfList ==
    ASSUME NEW list \in Seq(Runtime!Modules)
    PROVE  /\ Runtime!Calls(list) \in Seq(Runtime!Modules \X Phases)
           /\ Len(Runtime!Calls(list)) = 3 * Len(list)
<1>. DEFINE a == [i \in 1..Len(list) |-> <<list[i], "pre">>]
            b == [i \in 1..Len(list) |-> <<list[i], "normal">>]
            c == [i \in 1..Len(list) |-> <<list[Len(list) + 1 - i], "post">>]
<1>1. PICK n \in Nat : n = Len(list)
  OBVIOUS
<1>2. a \in Seq(Runtime!Modules \X Phases) /\ Len(a) = n
  BY <1>1 DEF Phases
<1>3. b \in Seq(Runtime!Modules \X Phases) /\ Len(b) = n
  BY <1>1 DEF Phases
<1>4. c \in Seq(Runtime!Modules \X Phases) /\ Len(c) = n
  <2>1. \A i \in 1..n : n + 1 - i \in 1..n
    OBVIOUS
  <2>2. \A i \in 1..n : list[n + 1 - i] \in Runtime!Modules
    BY <1>1, <2>1
  <2>. QED
    BY <1>1, <2>2 DEF Phases
<1>5. Runtime!Calls(list) = a \o b \o c
  BY DEF Runtime!Calls
<1>. HIDE DEF a, b, c
<1>6. a \o b \in Seq(Runtime!Modules \X Phases) /\ Len(a \o b) = n + n
  BY <1>2, <1>3, ConcatProperties, Zenon
<1>7. (a \o b) \o c \in Seq(Runtime!Modules \X Phases) /\ Len((a \o b) \o c) = n + n + n
  <2>1. /\ (a \o b) \o c \in Seq(Runtime!Modules \X Phases)
        /\ Len((a \o b) \o c) = Len(a \o b) + Len(c)
    BY <1>4, <1>6, ConcatProperties, Zenon
  <2>. QED
    BY <1>4, <1>6, <2>1
<1>. QED
  BY <1>1, <1>5, <1>7

\* The calls up to one of them.
LEMMA CallsSoFar ==
    ASSUME NEW S, NEW s \in Seq(S), NEW k \in 1..Len(s)
    PROVE  /\ SubSeq(s, 1, k - 1) \in Seq(S) /\ Len(SubSeq(s, 1, k - 1)) = k - 1
           /\ SubSeq(s, 1, k) = Append(SubSeq(s, 1, k - 1), s[k])
           /\ s[k] \in S
<1>1. PICK n \in Nat : n = Len(s)
  OBVIOUS
<1>2. k \in 1..n /\ s \in [1..n -> S]
  BY <1>1
<1>3. SubSeq(s, 1, k - 1) = [i \in 1..(k - 1) |-> s[i]]
  BY <1>2
<1>4. SubSeq(s, 1, k) = [i \in 1..k |-> s[i]]
  BY <1>2
<1>5. SubSeq(s, 1, k - 1) \in Seq(S) /\ Len(SubSeq(s, 1, k - 1)) = k - 1
  BY <1>2, <1>3
<1>6. Append(SubSeq(s, 1, k - 1), s[k]) = [i \in 1..k |-> s[i]]
  BY <1>2, <1>3
<1>. QED
  BY <1>2, <1>4, <1>5, <1>6

\* Deliver_Phase reaches the next module of the list.
LEMMA RuntimeDelivers == ASSUME RuntimeInv, Runtime!DeliverPhase PROVE RuntimeInv'
<1>1. RuntimeTypes /\ RuntimeLists /\ RuntimeTurns /\ RuntimeRequests /\ RuntimeDelivery
  BY DEF RuntimeInv
<1>2. /\ doing = "deliver" /\ first = lists[recipients] /\ Len(first) <= ModuleCount
      /\ recipients # NoList /\ first \in Seq(Runtime!Modules)
      /\ UNCHANGED <<Runtime!listVars, Runtime!flagVars, Runtime!requestVars,
                     doing, recipients, pending, first>>
  BY <1>1 DEF Runtime!DeliverPhase, RuntimeDelivery, RuntimeTypes
<1>3. PICK calls \in Seq(Runtime!Modules \X Phases), n \in Nat :
         calls = Runtime!Calls(first) /\ n = Len(first) /\ Len(calls) = 3 * n
  <2>1. /\ Runtime!Calls(first) \in Seq(Runtime!Modules \X Phases)
        /\ Len(Runtime!Calls(first)) = 3 * Len(first)
    BY <1>2, CallsOfList
  <2>2. Len(first) \in Nat
    BY <1>2
  <2>. QED
    BY <2>1, <2>2
<1>4. PICK t \in 1..(3 * n) : t = turn
  <2>1. turn \in 1..(3 * n + 1) /\ turn <= 3 * n
    BY <1>1, <1>2, <1>3 DEF RuntimeDelivery, Runtime!DeliverPhase
  <2>. QED
    BY <2>1
<1>5. /\ turn' = t + 1 /\ inside' = IF calls[t][1] \in dead THEN 0 ELSE calls[t][1]
      /\ heard' = IF calls[t][1] \in dead THEN heard ELSE Append(heard, calls[t])
  BY <1>2, <1>3, <1>4 DEF Runtime!DeliverPhase, Runtime!Enters, Runtime!Nobody
<1>6. PICK prefix \in Seq(Runtime!Modules \X Phases) :
         /\ prefix = SubSeq(calls, 1, t - 1) /\ Len(prefix) = t - 1
         /\ SubSeq(calls, 1, t) = Append(prefix, calls[t])
         /\ calls[t] \in Runtime!Modules \X Phases
  <2>1. t \in 1..Len(calls)
    BY <1>3
  <2>2. /\ SubSeq(calls, 1, t - 1) \in Seq(Runtime!Modules \X Phases)
        /\ Len(SubSeq(calls, 1, t - 1)) = t - 1
        /\ SubSeq(calls, 1, t) = Append(SubSeq(calls, 1, t - 1), calls[t])
        /\ calls[t] \in Runtime!Modules \X Phases
    BY <2>1, CallsSoFar
  <2>. QED
    BY <2>2
<1>7. PICK K \in SUBSET (1..(t - 1)) : HeardBut(K)
  BY <1>1, <1>2, <1>4 DEF RuntimeDelivery
<1>8. heard = Picked(prefix, K) /\ \A i \in 1..(t - 1) : i \notin K => calls[i][1] \in dead
  BY <1>3, <1>4, <1>6, <1>7 DEF HeardBut
<1>9. /\ Picked(Append(prefix, calls[t]), K) = Picked(prefix, K)
      /\ Picked(Append(prefix, calls[t]), K \union {t}) = Append(Picked(prefix, K), calls[t])
  <2>1. K \in SUBSET (1..Len(prefix)) /\ Len(prefix) + 1 = t
    BY <1>6
  <2>2. /\ Picked(Append(prefix, calls[t]), K) = Picked(prefix, K)
        /\ Picked(Append(prefix, calls[t]), K \union {Len(prefix) + 1})
              = Append(Picked(prefix, K), calls[t])
    <3>1. PICK T, c : T = Runtime!Modules \X Phases /\ c = calls[t]
      OBVIOUS
    <3>4. prefix \in Seq(T) /\ c \in T
      BY <1>6, <3>1
    <3>5. PICK more : OneMore(more, prefix, c, K)
      BY <2>1 DEF OneMore
    <3>2. PickedMore(more, prefix, c, K)
      BY <3>4, <3>5, PickedOneMore, Zenon
    <3>3. /\ Picked(more, K) = Picked(prefix, K)
          /\ Picked(more, K \union {Len(prefix) + 1}) = Append(Picked(prefix, K), c)
      BY <3>2 DEF PickedMore
    <3>6. more = Append(prefix, calls[t])
      BY <3>1, <3>5 DEF OneMore
    <3>. QED
      BY <3>1, <3>3, <3>6
  <2>. QED
    BY <2>1, <2>2
<1>10. \E L \in SUBSET (1..(turn' - 1)) : HeardBut(L)'
  <2>1. turn' - 1 = t /\ \A i \in 1..t : i \in 1..(t - 1) \/ i = t
    <3>1. turn' = t + 1
      BY <1>5, Zenon
    <3>2. turn' - 1 = t
      BY <3>1
    <3>3. \A i \in 1..t : i \in 1..(t - 1) \/ i = t
      OBVIOUS
    <3>. QED
      BY <3>2, <3>3
  <2>2. first' = first /\ dead' = dead
    BY <1>2 DEF Runtime!flagVars
  <2>3. CASE calls[t][1] \in dead
    <3>1. K \in SUBSET (1..t)
      OBVIOUS
    <3>2. heard' = Picked(SubSeq(calls, 1, t), K)
      BY <1>5, <1>6, <1>8, <1>9, <2>3
    <3>3. \A i \in 1..t : i \notin K => calls[i][1] \in dead
      BY <1>8, <2>1, <2>3
    <3>4. HeardBut(K)'
      BY <1>3, <2>1, <2>2, <3>1, <3>2, <3>3 DEF HeardBut
    <3>. QED
      BY <2>1, <3>1, <3>4
  <2>4. CASE calls[t][1] \notin dead
    <3>. DEFINE L == K \union {t}
    <3>1. L \in SUBSET (1..t)
      OBVIOUS
    <3>2. heard' = Picked(SubSeq(calls, 1, t), L)
      BY <1>5, <1>6, <1>8, <1>9, <2>4
    <3>3. \A i \in 1..t : i \notin L => calls[i][1] \in dead
      BY <1>8, <2>1
    <3>. HIDE DEF L
    <3>4. HeardBut(L)'
      BY <1>3, <2>1, <2>2, <3>1, <3>2, <3>3 DEF HeardBut
    <3>. QED
      BY <2>1, <3>1, <3>4
  <2>. QED
    BY <2>3, <2>4
<1>11. calls[t][1] \in Runtime!Modules
  BY <1>6
<1>12. heard' \in Seq(Runtime!Modules \X Phases)
  <2>1. heard \in Seq(Runtime!Modules \X Phases)
    BY <1>1 DEF RuntimeTypes
  <2>. QED
    BY <1>5, <1>6, <2>1
<1>13. RuntimeTypes'
  BY <1>1, <1>2, <1>5, <1>11, <1>12
  DEF RuntimeTypes, Runtime!listVars, Runtime!flagVars, Runtime!requestVars
<1>14. RuntimeLists'
  BY <1>1, <1>2, ListsStay
<1>15. turn' \in 1..(3 * n + 1) /\ turn' \in 0..(3 * ModuleCount + 1)
  <2>1. n <= ModuleCount /\ ModuleCount \in Nat
    BY <1>2, <1>3, RuntimeConstants
  <2>. QED
    BY <1>5, <2>1
<1>16. RuntimeTurns'
  BY <1>1, <1>2, <1>15 DEF RuntimeTurns
<1>17. RuntimeRequests'
  BY <1>1, <1>2, RequestsStay DEF RuntimeRequests, Runtime!flagVars, Runtime!listVars
<1>18. RuntimeDelivery'
  BY <1>1, <1>2, <1>3, <1>10, <1>15 DEF RuntimeDelivery, Runtime!listVars
<1>. QED
  BY <1>13, <1>14, <1>16, <1>17, <1>18 DEF RuntimeInv

\* A list that an event has stays as it is when the delivery lets go of its own.
LEMMA RuntimeDelivered == ASSUME RuntimeInv, Runtime!DeliverDone PROVE RuntimeInv'
<1>1. RuntimeTypes /\ RuntimeLists /\ RuntimeTurns /\ RuntimeRequests /\ RuntimeDelivery
  BY DEF RuntimeInv
<1>2. /\ subscribers' = subscribers /\ events' = events
      /\ UNCHANGED <<Runtime!flagVars, Runtime!requestVars, pending, inside>>
      /\ doing' = "swap" /\ doing = "deliver" /\ turn' = 1
      /\ recipients' = NoList /\ first' = <<>> /\ heard' = <<>>
      /\ lists' = Runtime!Freed(lists, NoList)
  BY DEF Runtime!DeliverDone
<1>3. \A k \in Runtime!Lists :
         lists'[k] = IF NoList = k \/ \E e \in Events : subscribers'[e] = k
                     THEN lists[k] ELSE <<>>
  BY <1>2 DEF Runtime!Freed
<1>4. \A e \in Events : subscribers[e] # NoList => lists'[subscribers[e]] = lists[subscribers[e]]
  BY <1>1, <1>2, <1>3 DEF RuntimeTypes
<1>5. <<>> \in Seq(Runtime!Modules) /\ <<>> \in Seq(Runtime!Modules \X Phases)
  OBVIOUS
<1>6. lists' \in [Runtime!Lists -> Seq(Runtime!Modules)]
  <2>1. \A k \in Runtime!Lists : lists[k] \in Seq(Runtime!Modules)
    BY <1>1 DEF RuntimeTypes
  <2>2. \A k \in Runtime!Lists : lists'[k] \in Seq(Runtime!Modules)
    BY <1>3, <1>5, <2>1, Zenon
  <2>3. lists' = [k \in Runtime!Lists |-> lists'[k]]
    BY <1>2 DEF Runtime!Freed
  <2>. QED
    BY <2>2, <2>3
<1>7. RuntimeTypes'
  BY <1>1, <1>2, <1>5, <1>6 DEF RuntimeTypes, Runtime!flagVars, Runtime!requestVars
<1>8. RuntimeLists'
  BY <1>1, <1>2, <1>4 DEF RuntimeLists, FollowersOf
<1>9. RuntimeTurns'
  BY <1>2, RuntimeConstants DEF RuntimeTurns
<1>10. RuntimeRequests'
  BY <1>1, <1>2, RequestsStay DEF RuntimeRequests, Runtime!flagVars
<1>11. RuntimeDelivery'
  BY <1>2 DEF RuntimeDelivery
<1>. QED
  BY <1>7, <1>8, <1>9, <1>10, <1>11 DEF RuntimeInv

\* A thread asks for a dispatch.
LEMMA RuntimeRequestsDispatch ==
    ASSUME RuntimeInv, NEW m \in Runtime!Modules, Runtime!RequestDispatch(m)
    PROVE  RuntimeInv'
<1>1. RuntimeTypes /\ RuntimeLists /\ RuntimeTurns /\ RuntimeRequests /\ RuntimeDelivery
  BY DEF RuntimeInv
<1>2. /\ m \notin freed /\ asked' = asked \union {m}
      /\ UNCHANGED <<Runtime!listVars, Runtime!flagVars, Runtime!emuVars>>
  BY DEF Runtime!RequestDispatch
<1>3. PICK n \in Nat, s \in Seq(Runtime!Modules) : s = pendingDispatch /\ n = Len(s)
  BY <1>1 DEF RuntimeTypes
<1>4. /\ s \in [1..n -> Runtime!Modules] /\ DOMAIN s = 1..n
      /\ dispatchPending = {s[i] : i \in 1..n}
      /\ \A i, j \in 1..n : s[i] = s[j] => i = j
  BY <1>1, <1>3 DEF RuntimeRequests, Runtime!RequestsAgree, Runtime!ToSet,
     Runtime!IsInjective
<1>5. ASSUME m \notin dispatchPending \union ending \union dead
      PROVE  RuntimeTypes' /\ RuntimeRequests'
  <2>1. dispatchPending' = dispatchPending \union {m} /\ pendingDispatch' = Append(s, m)
    BY <1>3, <1>5 DEF Runtime!RequestDispatch
  <2>2. PICK t \in Seq(Runtime!Modules) : t = Append(s, m)
    BY AppendProperties
  <2>3. /\ Len(t) = n + 1 /\ DOMAIN t = 1..(n + 1) /\ t[n + 1] = m
        /\ \A i \in 1..n : t[i] = s[i]
    BY <1>3, <2>2
  <2>4. \A i \in 1..(n + 1) : i \in 1..n \/ i = n + 1
    OBVIOUS
  <2>5. dispatchPending' = {t[i] : i \in 1..(n + 1)}
    BY <1>4, <2>1, <2>3, <2>4
  <2>6. \A i \in 1..n : s[i] # m
    BY <1>4, <1>5
  <2>7. \A i, j \in 1..(n + 1) : t[i] = t[j] => i = j
    BY <1>4, <2>3, <2>4, <2>6
  <2>8. m \in dispatchPending'
    BY <2>1
  <2>9. pendingDispatch' = t
    BY <2>1, <2>2
  <2>10. Runtime!RequestsAgree'
    <3>1. dispatchPending' = Runtime!ToSet(pendingDispatch') /\ Runtime!IsInjective(pendingDispatch')
      BY <2>3, <2>5, <2>7, <2>9 DEF Runtime!ToSet, Runtime!IsInjective
    <3>2. \A k \in freed' : k \notin dispatchPending' /\ events'[k] = {}
      BY <1>1, <1>2, <2>1
      DEF RuntimeRequests, Runtime!RequestsAgree, Runtime!listVars, Runtime!flagVars
    <3>. QED
      BY <3>1, <3>2 DEF Runtime!RequestsAgree
  <2>11. Runtime!RequestsKept'
    <3>1. Runtime!ToSet(pendingDispatch') = Runtime!ToSet(pendingDispatch) \union {m}
      BY <2>1, <2>10, <1>1 DEF RuntimeRequests, Runtime!RequestsAgree
    <3>. QED
      BY <1>1, <1>2, <3>1
      DEF RuntimeRequests, Runtime!RequestsKept, Runtime!flagVars, Runtime!emuVars
  <2>12. RuntimeRequests'
    BY <1>1, <1>2, <2>10, <2>11 DEF RuntimeRequests, Runtime!flagVars, Runtime!emuVars
  <2>13. RuntimeTypes'
    BY <1>1, <1>2, <2>1, <2>9
    DEF RuntimeTypes, Runtime!listVars, Runtime!flagVars, Runtime!emuVars
  <2>. QED
    BY <2>12, <2>13
<1>6. ASSUME m \in dispatchPending \union ending \union dead
      PROVE  RuntimeTypes' /\ RuntimeRequests'
  <2>1. UNCHANGED <<dispatchPending, pendingDispatch>>
    BY <1>6 DEF Runtime!RequestDispatch
  <2>2. Runtime!RequestsAgree'
    BY <1>1, <1>2, <2>1
    DEF RuntimeRequests, Runtime!RequestsAgree, Runtime!listVars, Runtime!flagVars
  <2>3. Runtime!RequestsKept'
    BY <1>1, <1>2, <1>6, <2>1
    DEF RuntimeRequests, Runtime!RequestsAgree, Runtime!RequestsKept, Runtime!flagVars,
        Runtime!emuVars
  <2>4. RuntimeRequests'
    BY <1>1, <1>2, <2>2, <2>3 DEF RuntimeRequests, Runtime!flagVars, Runtime!emuVars
  <2>5. RuntimeTypes'
    BY <1>1, <1>2, <2>1
    DEF RuntimeTypes, Runtime!listVars, Runtime!flagVars, Runtime!emuVars
  <2>. QED
    BY <2>4, <2>5
<1>7. RuntimeTypes' /\ RuntimeRequests'
  BY <1>5, <1>6
<1>8. RuntimeLists'
  BY <1>1, <1>2, ListsStay
<1>9. RuntimeTurns'
  BY <1>1, <1>2 DEF RuntimeTurns, Runtime!emuVars
<1>10. RuntimeDelivery'
  BY <1>1, <1>2, DeliveryStays DEF Runtime!listVars, Runtime!flagVars, Runtime!emuVars
<1>. QED
  BY <1>7, <1>8, <1>9, <1>10 DEF RuntimeInv

\* Dispatch_Pending takes the list.
LEMMA RuntimeSwaps == ASSUME RuntimeInv, Runtime!SwapPending PROVE RuntimeInv'
<1>1. RuntimeTypes /\ RuntimeLists /\ RuntimeTurns /\ RuntimeRequests /\ RuntimeDelivery
  BY DEF RuntimeInv
<1>2. <<>> \in Seq(Runtime!Modules) /\ Runtime!ToSet(<<>>) = {} /\ Runtime!IsInjective(<<>>)
  BY DEF Runtime!ToSet, Runtime!IsInjective
<1>3. dispatchPending' = {}
  BY <1>1 DEF RuntimeRequests, Runtime!RequestsAgree, Runtime!SwapPending, Runtime!FlagsLeft
<1>4. RuntimeTypes'
  BY <1>1, <1>2, <1>3 DEF RuntimeTypes, Runtime!SwapPending, Runtime!listVars,
     Runtime!flagVars
<1>5. RuntimeLists'
  BY <1>1, ListsStay DEF Runtime!SwapPending
<1>6. RuntimeTurns'
  BY <1>1 DEF RuntimeTurns, Runtime!SwapPending
<1>7. RuntimeRequests'
  <2>1. Runtime!RequestsAgree'
    BY <1>1, <1>2, <1>3 DEF RuntimeRequests, Runtime!RequestsAgree, Runtime!SwapPending,
       Runtime!listVars, Runtime!flagVars
  <2>2. Runtime!RequestsKept'
    <3>1. pending = <<>>
      BY <1>1 DEF RuntimeRequests, Runtime!SwapPending
    <3>. QED
      BY <1>1, <1>2, <3>1 DEF RuntimeRequests, Runtime!RequestsKept, Runtime!SwapPending,
         Runtime!flagVars
  <2>. QED
    BY <1>1, <2>1, <2>2 DEF RuntimeRequests, Runtime!SwapPending, Runtime!flagVars
<1>8. RuntimeDelivery'
  BY <1>1 DEF RuntimeDelivery, Runtime!SwapPending
<1>. QED
  BY <1>4, <1>5, <1>6, <1>7, <1>8 DEF RuntimeInv

\* It calls the next module of the list that it took.
LEMMA RuntimeDispatches == ASSUME RuntimeInv, Runtime!DispatchNext PROVE RuntimeInv'
<1>1. RuntimeTypes /\ RuntimeLists /\ RuntimeTurns /\ RuntimeRequests /\ RuntimeDelivery
  BY DEF RuntimeInv
<1>2. PICK p \in Seq(Runtime!Modules) : p = pending /\ p # <<>>
  BY <1>1 DEF RuntimeTypes, Runtime!DispatchNext
<1>3. /\ Head(p) \in Runtime!Modules /\ Tail(p) \in Seq(Runtime!Modules)
      /\ Runtime!ToSet(p) = Runtime!ToSet(Tail(p)) \union {Head(p)}
  <2>1. PICK n \in Nat : n = Len(p) /\ n # 0
    BY <1>2
  <2>2. /\ Head(p) = p[1] /\ DOMAIN p = 1..n
        /\ Len(Tail(p)) = n - 1 /\ \A i \in 1..(n - 1) : Tail(p)[i] = p[i + 1]
    BY <1>2, <2>1, HeadTailProperties
  <2>3. Head(p) \in Runtime!Modules /\ Tail(p) \in Seq(Runtime!Modules)
    BY <1>2
  <2>4. DOMAIN Tail(p) = 1..(n - 1) /\ \A i \in 1..(n - 1) : Tail(p)[i] = p[i + 1]
    BY <2>2, <2>3
  <2>5. \A x : (\E i \in 1..n : x = p[i]) <=> (\E i \in 1..(n - 1) : x = p[i + 1]) \/ x = p[1]
    <3>1. \A i \in 1..n : i = 1 \/ (i - 1 \in 1..(n - 1) /\ (i - 1) + 1 = i)
      OBVIOUS
    <3>2. 1 \in 1..n /\ \A i \in 1..(n - 1) : i + 1 \in 1..n
      BY <2>1
    <3>. QED
      BY <3>1, <3>2
  <2>6. PICK q : q = Tail(p) /\ DOMAIN q = 1..(n - 1) /\ \A i \in 1..(n - 1) : q[i] = p[i + 1]
    BY <2>4
  <2>7. /\ Runtime!ToSet(p) = {p[i] : i \in 1..n}
        /\ Runtime!ToSet(q) = {q[i] : i \in 1..(n - 1)}
    BY <2>2, <2>6, Zenon DEF Runtime!ToSet
  <2>8. \A x : x \in {p[i] : i \in 1..n} <=> x \in {q[i] : i \in 1..(n - 1)} \/ x = p[1]
    BY <2>5, <2>6
  <2>9. Runtime!ToSet(p) = Runtime!ToSet(Tail(p)) \union {Head(p)}
    BY <2>2, <2>6, <2>7, <2>8
  <2>. QED
    BY <2>3, <2>9
<1>4. /\ inside' = (IF Head(p) \in dead THEN 0 ELSE Head(p))
      /\ asked' = asked \ {Head(p)} /\ pending' = Tail(p) /\ doing = "dispatch"
      /\ UNCHANGED <<Runtime!listVars, Runtime!flagVars, pendingDispatch, dispatchPending,
                     doing, turn, recipients, first, heard>>
  BY <1>2 DEF Runtime!DispatchNext, Runtime!Enters, Runtime!Nobody
<1>5. RuntimeTypes'
  BY <1>1, <1>3, <1>4 DEF RuntimeTypes, Runtime!listVars, Runtime!flagVars
<1>6. RuntimeLists'
  BY <1>1, <1>4, ListsStay
<1>7. RuntimeTurns'
  BY <1>1, <1>4 DEF RuntimeTurns
<1>8. RuntimeRequests'
  <2>1. Runtime!RequestsAgree'
    BY <1>1, <1>4 DEF RuntimeRequests, Runtime!RequestsAgree, Runtime!listVars,
       Runtime!flagVars
  <2>2. Runtime!RequestsKept'
    BY <1>1, <1>2, <1>3, <1>4 DEF RuntimeRequests, Runtime!RequestsKept, Runtime!flagVars
  <2>. QED
    BY <1>1, <1>4, <2>1, <2>2 DEF RuntimeRequests, Runtime!flagVars
<1>9. RuntimeDelivery'
  BY <1>1, <1>4, DeliveryStays DEF Runtime!listVars, Runtime!flagVars
<1>. QED
  BY <1>5, <1>6, <1>7, <1>8, <1>9 DEF RuntimeInv

\* All modules of the list that was taken have been called.
LEMMA RuntimeDispatched == ASSUME RuntimeInv, Runtime!DispatchDone PROVE RuntimeInv'
<1>1. RuntimeTypes /\ RuntimeLists /\ RuntimeTurns /\ RuntimeRequests /\ RuntimeDelivery
  BY DEF RuntimeInv
<1>2. RuntimeTypes'
  BY <1>1 DEF RuntimeTypes, Runtime!DispatchDone, Runtime!listVars, Runtime!flagVars,
     Runtime!requestVars
<1>3. RuntimeLists'
  BY <1>1, ListsStay DEF Runtime!DispatchDone
<1>4. RuntimeTurns'
  BY <1>1 DEF RuntimeTurns, Runtime!DispatchDone
<1>5. RuntimeRequests'
  BY <1>1, RequestsStay DEF RuntimeRequests, Runtime!DispatchDone, Runtime!flagVars,
     Runtime!listVars
<1>6. RuntimeDelivery'
  BY <1>1 DEF RuntimeDelivery, Runtime!DispatchDone
<1>. QED
  BY <1>2, <1>3, <1>4, <1>5, <1>6 DEF RuntimeInv

\* Shutdown_Modules marks all modules.
LEMMA RuntimeShutsDown == ASSUME RuntimeInv, Runtime!Shutdown PROVE RuntimeInv'
<1>1. RuntimeTypes /\ RuntimeLists /\ RuntimeTurns /\ RuntimeRequests /\ RuntimeDelivery
  BY DEF RuntimeInv
<1>2. RuntimeTypes'
  BY <1>1 DEF RuntimeTypes, Runtime!Shutdown, Runtime!listVars, Runtime!requestVars
<1>3. RuntimeLists'
  BY <1>1, ListsStay DEF Runtime!Shutdown
<1>4. RuntimeTurns'
  BY <1>1, RuntimeConstants DEF RuntimeTurns, Runtime!Shutdown
<1>5. RuntimeRequests'
  BY <1>1, RequestsStay DEF RuntimeRequests, RuntimeTypes, Runtime!Shutdown,
     Runtime!listVars
<1>6. RuntimeDelivery'
  BY <1>1 DEF RuntimeDelivery, Runtime!Shutdown
<1>. QED
  BY <1>2, <1>3, <1>4, <1>5, <1>6 DEF RuntimeInv

\* The next module, from the end, is shut down.
LEMMA RuntimeShutsDownModule == ASSUME RuntimeInv, Runtime!ShutdownModule PROVE RuntimeInv'
<1>1. RuntimeTypes /\ RuntimeLists /\ RuntimeTurns /\ RuntimeRequests /\ RuntimeDelivery
  BY DEF RuntimeInv
<1>2. turn \in Runtime!Modules /\ turn' = turn - 1 /\ turn' \in 0..ModuleCount
  BY <1>1, RuntimeConstants DEF RuntimeTurns, Runtime!ShutdownModule
<1>3. RuntimeTypes'
  BY <1>1, <1>2 DEF RuntimeTypes, Runtime!ShutdownModule, Runtime!Enters, Runtime!Nobody,
     Runtime!listVars, Runtime!requestVars
<1>4. RuntimeLists'
  BY <1>1, ListsStay DEF Runtime!ShutdownModule
<1>5. RuntimeTurns'
  BY <1>1, <1>2, RuntimeConstants DEF RuntimeTurns, Runtime!ShutdownModule
<1>6. RuntimeRequests'
  BY <1>1, RequestsStay DEF RuntimeRequests, Runtime!ShutdownModule, Runtime!listVars
<1>7. RuntimeDelivery'
  BY <1>1 DEF RuntimeDelivery, Runtime!ShutdownModule
<1>. QED
  BY <1>3, <1>4, <1>5, <1>6, <1>7 DEF RuntimeInv

\* All modules are shut down, and their release begins.
LEMMA RuntimeShutDown == ASSUME RuntimeInv, Runtime!ShutdownDone PROVE RuntimeInv'
<1>1. RuntimeTypes /\ RuntimeLists /\ RuntimeTurns /\ RuntimeRequests /\ RuntimeDelivery
  BY DEF RuntimeInv
<1>2. RuntimeTypes'
  BY <1>1 DEF RuntimeTypes, Runtime!ShutdownDone, Runtime!listVars, Runtime!flagVars,
     Runtime!requestVars
<1>3. RuntimeLists'
  BY <1>1, ListsStay DEF Runtime!ShutdownDone
<1>4. RuntimeTurns'
  BY <1>1, RuntimeConstants DEF RuntimeTurns, Runtime!ShutdownDone
<1>5. RuntimeRequests'
  BY <1>1, RequestsStay DEF RuntimeRequests, Runtime!ShutdownDone, Runtime!flagVars,
     Runtime!listVars, Runtime!Nobody
<1>6. RuntimeDelivery'
  BY <1>1 DEF RuntimeDelivery, Runtime!ShutdownDone
<1>. QED
  BY <1>2, <1>3, <1>4, <1>5, <1>6 DEF RuntimeInv

\* Release takes a module out of every list.
LEMMA RuntimeReleases == ASSUME RuntimeInv, Runtime!ReleaseModule PROVE RuntimeInv'
<1>1. RuntimeTypes /\ RuntimeLists /\ RuntimeTurns /\ RuntimeRequests /\ RuntimeDelivery
  BY DEF RuntimeInv
<1>2. PICK m \in Runtime!Modules : m = turn
  <2>1. turn \in Runtime!Modules
    BY <1>1, RuntimeConstants DEF RuntimeTurns, Runtime!ReleaseModule
  <2>. QED
    BY <2>1
<1>3. /\ doing = "release" /\ doing' = doing /\ turn' = turn - 1
      /\ freed' = freed \union {m} /\ initialized' = initialized \ {m}
      /\ pendingDispatch' = Runtime!Without(pendingDispatch, m)
      /\ dispatchPending' = dispatchPending \ {m}
      /\ events' = [events EXCEPT ![m] = {}]
      /\ UNCHANGED <<dead, ending, asked, recipients, pending, inside, first, heard>>
  BY <1>2 DEF Runtime!ReleaseModule, Runtime!RequestsWithout
<1>4. /\ subscribers' \in [Events -> Runtime!Lists \union {NoList}]
      /\ \A e \in Events : subscribers'[e] =
            IF Runtime!Without(Runtime!Followers(e), m) = <<>> THEN NoList ELSE subscribers[e]
  BY <1>1, <1>2 DEF Runtime!ReleaseModule, RuntimeTypes
<1>5. \A k \in Runtime!Lists :
         lists'[k] = IF NoList = k \/ \E e \in Events : subscribers'[e] = k
                     THEN Runtime!Without(lists[k], m) ELSE <<>>
  BY <1>2 DEF Runtime!ReleaseModule, Runtime!Freed
<1>6. \A k \in Runtime!Lists : lists'[k] \in Seq(Runtime!Modules)
  <2>1. ASSUME NEW k \in Runtime!Lists PROVE lists'[k] \in Seq(Runtime!Modules)
    <3>1. lists[k] \in Seq(Runtime!Modules)
      BY <1>1 DEF RuntimeTypes
    <3>2. Runtime!Without(lists[k], m) \in Seq(Runtime!Modules)
      BY <3>1, WithoutKeeps
    <3>3. <<>> \in Seq(Runtime!Modules)
      OBVIOUS
    <3>. QED
      BY <1>5, <3>2, <3>3
  <2>. QED
    BY <2>1
<1>7. /\ events' \in [Runtime!Modules -> SUBSET Events]
      /\ \A e \in Events : FollowersOf(e)' = FollowersOf(e) \ {m}
  BY <1>1, <1>2, <1>3 DEF RuntimeTypes, FollowersOf
<1>8. PICK s \in Seq(Runtime!Modules), n \in Nat : s = pendingDispatch /\ n = Len(s)
  BY <1>1 DEF RuntimeTypes
<1>9. PICK t \in Seq(Runtime!Modules) :
         /\ t = Runtime!Without(s, m)
         /\ \A i \in 1..Len(t) : t[i] # m /\ \E k \in 1..Len(s) : t[i] = s[k]
         /\ \A k \in 1..Len(s) : s[k] # m => \E i \in 1..Len(t) : t[i] = s[k]
         /\ \E g \in [1..Len(t) -> 1..Len(s)] :
               /\ \A i \in 1..Len(t) : t[i] = s[g[i]]
               /\ \A i, j \in 1..Len(t) : i < j => g[i] < g[j]
  <2>1. PICK t : t = Runtime!Without(s, m)
    OBVIOUS
  <2>2. t \in Seq(Runtime!Modules)
    BY <2>1, WithoutKeeps
  <2>3. \A i \in 1..Len(t) : t[i] # m /\ \E k \in 1..Len(s) : t[i] = s[k]
    BY <2>1, WithoutKeeps
  <2>4. \A k \in 1..Len(s) : s[k] # m => \E i \in 1..Len(t) : t[i] = s[k]
    BY <2>1, WithoutKeeps
  <2>5. \E g \in [1..Len(t) -> 1..Len(s)] :
           /\ \A i \in 1..Len(t) : t[i] = s[g[i]]
           /\ \A i, j \in 1..Len(t) : i < j => g[i] < g[j]
    BY <2>1, WithoutKeeps
  <2>. QED
    BY <2>1, <2>2, <2>3, <2>4, <2>5, Zenon
<1>10. Runtime!RequestsAgree'
  <2>1. /\ DOMAIN s = 1..n /\ dispatchPending = {s[i] : i \in 1..n}
        /\ \A i, j \in 1..n : s[i] = s[j] => i = j
    BY <1>1, <1>8 DEF RuntimeRequests, Runtime!RequestsAgree, Runtime!ToSet,
       Runtime!IsInjective
  <2>2. PICK c \in Nat : c = Len(t) /\ DOMAIN t = 1..c
    OBVIOUS
  <2>3. dispatchPending' = {t[i] : i \in 1..c}
    BY <1>3, <1>8, <1>9, <2>1, <2>2
  <2>4. PICK g \in [1..c -> 1..n] :
           /\ \A i \in 1..c : t[i] = s[g[i]]
           /\ \A i, j \in 1..c : i < j => g[i] < g[j]
    <3>1. 1..Len(t) = 1..c /\ 1..Len(s) = 1..n
      BY <1>8, <2>2
    <3>2. \E g \in [1..Len(t) -> 1..Len(s)] :
             /\ \A i \in 1..Len(t) : t[i] = s[g[i]]
             /\ \A i, j \in 1..Len(t) : i < j => g[i] < g[j]
      BY <1>9
    <3>. QED
      BY <3>1, <3>2
  <2>5. \A i, j \in 1..c : t[i] = t[j] => i = j
    <3>1. SUFFICES ASSUME NEW i \in 1..c, NEW j \in 1..c, t[i] = t[j], i < j PROVE FALSE
      OBVIOUS
    <3>2. g[i] \in 1..n /\ g[j] \in 1..n /\ s[g[i]] = s[g[j]] /\ g[i] < g[j]
      BY <2>4, <3>1
    <3>3. g[i] = g[j]
      BY <2>1, <3>2
    <3>. QED
      BY <3>2, <3>3
  <2>6. pendingDispatch' = t
    BY <1>3, <1>8, <1>9
  <2>7. \A k \in freed' : k \notin dispatchPending' /\ events'[k] = {}
    BY <1>1, <1>2, <1>3 DEF RuntimeRequests, Runtime!RequestsAgree, RuntimeTypes
  <2>8. dispatchPending' = Runtime!ToSet(pendingDispatch') /\ Runtime!IsInjective(pendingDispatch')
    BY <2>2, <2>3, <2>5, <2>6 DEF Runtime!ToSet, Runtime!IsInjective
  <2>. QED
    BY <2>7, <2>8 DEF Runtime!RequestsAgree
<1>11. RuntimeTypes'
  <2>1. lists' = [k \in Runtime!Lists |-> lists'[k]]
    BY DEF Runtime!ReleaseModule, Runtime!Freed
  <2>2. lists' \in [Runtime!Lists -> Seq(Runtime!Modules)]
    BY <1>6, <2>1
  <2>3. pendingDispatch' \in Seq(Runtime!Modules)
    BY <1>3, <1>8, <1>9
  <2>. QED
    BY <1>1, <1>3, <1>4, <1>7, <2>2, <2>3 DEF RuntimeTypes
<1>12. RuntimeLists'
  <2>1. ASSUME NEW e \in Events
        PROVE  /\ InLoadOrder(Runtime!Without(Runtime!Followers(e), m), FollowersOf(e)')
               /\ Runtime!Without(Runtime!Followers(e), m) = <<>> <=> FollowersOf(e)' = {}
               /\ subscribers[e] = NoList => FollowersOf(e)' = {}
    <3>1. /\ InLoadOrder(Runtime!Followers(e), FollowersOf(e))
          /\ FollowersOf(e) \in SUBSET Runtime!Modules
      BY <1>1, FollowersInOrder
    <3>2. InLoadOrder(Runtime!Without(Runtime!Followers(e), m), FollowersOf(e)')
      BY <1>7, <3>1, LoadOrderErases
    <3>3. subscribers[e] = NoList => FollowersOf(e)' = {}
      BY <1>1, <1>7 DEF RuntimeLists
    <3>. QED
      BY <3>2, <3>3, LoadOrderOfNothing
  <2>2. \A e \in Events : subscribers'[e] = NoList => FollowersOf(e)' = {}
    BY <1>4, <2>1
  <2>3. ASSUME NEW e \in Events, subscribers'[e] # NoList
        PROVE  /\ InLoadOrder(lists'[subscribers'[e]], FollowersOf(e)')
               /\ lists'[subscribers'[e]] # <<>>
    <3>1. /\ subscribers'[e] = subscribers[e] /\ subscribers[e] # NoList
          /\ Runtime!Without(Runtime!Followers(e), m) # <<>>
      BY <1>4, <2>3
    <3>2. lists'[subscribers'[e]] = Runtime!Without(Runtime!Followers(e), m)
      <4>1. subscribers'[e] \in Runtime!Lists /\ Runtime!Followers(e) = lists[subscribers'[e]]
        BY <1>4, <2>3, <3>1 DEF Runtime!Followers
      <4>2. \E f \in Events : subscribers'[f] = subscribers'[e]
        OBVIOUS
      <4>. QED
        BY <1>5, <4>1, <4>2
    <3>. QED
      BY <2>1, <3>1, <3>2
  <2>4. \A e, f \in Events : subscribers'[e] = subscribers'[f] /\ e # f => subscribers'[e] = NoList
    BY <1>1, <1>4 DEF RuntimeLists
  <2>. QED
    BY <2>2, <2>3, <2>4 DEF RuntimeLists
<1>13. RuntimeTurns'
  BY <1>1, <1>3, RuntimeConstants DEF RuntimeTurns, Runtime!ReleaseModule
<1>14. RuntimeRequests'
  <2>1. Runtime!RequestsKept'
    BY <1>1, <1>3 DEF RuntimeRequests, RuntimeTypes, Runtime!RequestsKept
  <2>. QED
    BY <1>1, <1>3, <1>10, <2>1 DEF RuntimeRequests
<1>15. RuntimeDelivery'
  BY <1>1, <1>3 DEF RuntimeDelivery
<1>. QED
  BY <1>11, <1>12, <1>13, <1>14, <1>15 DEF RuntimeInv

\* What was heard of modules that live is what was called of them.
LEMMA HeardIsLive ==
    ASSUME NEW prefix \in Seq(Runtime!Modules \X Phases), NEW K \in SUBSET (1..Len(prefix)),
           \A i \in 1..Len(prefix) : i \notin K => prefix[i][1] \in dead
    PROVE  Runtime!Filter(Picked(prefix, K), LAMBDA c : c[1] \notin dead)
              = Runtime!Filter(prefix, LAMBDA c : c[1] \notin dead)
<1>. DEFINE L == {i \in 1..Len(prefix) : prefix[i][1] \notin dead}
<1>1. PICK T, p : T = Runtime!Modules \X Phases /\ p = Picked(prefix, K)
  OBVIOUS
<1>2. prefix \in Seq(T)
  BY <1>1
<1>3. L \in SUBSET K
  OBVIOUS
<1>4. /\ Len(p) = Cardinality(K)
      /\ \A i \in 1..Cardinality(K) : Nth(K, i) \in K /\ p[i] = prefix[Nth(K, i)]
  BY <1>1, <1>2, PickedOf
<1>5. {i \in 1..Len(p) : p[i][1] \notin dead} = {i \in 1..Cardinality(K) : Nth(K, i) \in L}
  BY <1>4
<1>6. Picked(p, {i \in 1..Cardinality(K) : Nth(K, i) \in L}) = Picked(prefix, L)
  <2>. HIDE DEF L
  <2>. QED
    BY <1>1, <1>2, <1>3, PickedOfPicked
<1>7. /\ Runtime!Filter(p, LAMBDA c : c[1] \notin dead)
            = Picked(p, {i \in 1..Len(p) : p[i][1] \notin dead})
      /\ Runtime!Filter(prefix, LAMBDA c : c[1] \notin dead) = Picked(prefix, L)
  BY RuntimePicked DEF Runtime!Filter
<1>. QED
  BY <1>1, <1>5, <1>6, <1>7

\* The inductive invariant says all that RuntimeSound does.
LEMMA RuntimeInvIsSound == ASSUME RuntimeInv PROVE Runtime!RuntimeSound
<1>1. RuntimeTypes /\ RuntimeLists /\ RuntimeTurns /\ RuntimeRequests /\ RuntimeDelivery
  BY DEF RuntimeInv
<1>2. Runtime!TypeOK
  BY <1>1 DEF RuntimeTypes, RuntimeTurns, Runtime!TypeOK, Runtime!Nobody, Phases
<1>3. Runtime!SubscribersAgree
  <2>1. SUFFICES ASSUME NEW e \in Events
                 PROVE  /\ Runtime!ToSet(Runtime!Followers(e)) = {m \in Runtime!Modules : e \in events[m]}
                        /\ \A i, j \in DOMAIN Runtime!Followers(e) :
                              i < j => Runtime!Followers(e)[i] < Runtime!Followers(e)[j]
                        /\ subscribers[e] # NoList => Runtime!Followers(e) # <<>>
    BY DEF Runtime!SubscribersAgree
  <2>2. PICK s : s = Runtime!Followers(e)
    OBVIOUS
  <2>3. /\ InLoadOrder(s, FollowersOf(e)) /\ FollowersOf(e) \in SUBSET Runtime!Modules
        /\ s = <<>> <=> subscribers[e] = NoList
    BY <1>1, <2>2, FollowersInOrder
  <2>4. DOMAIN s = 1..Len(s)
    BY <2>3 DEF InLoadOrder
  <2>5. Runtime!ToSet(s) = FollowersOf(e)
    BY <2>3, <2>4 DEF InLoadOrder, Runtime!ToSet
  <2>6. \A i, j \in DOMAIN s : i < j => s[i] < s[j]
    BY <2>3, <2>4 DEF InLoadOrder
  <2>. QED
    BY <2>2, <2>3, <2>5, <2>6 DEF FollowersOf
<1>4. Runtime!DeliveredInPhases
  <2>1. CASE doing = "deliver"
    <3>1. /\ first = lists[recipients] /\ Len(first) <= ModuleCount
          /\ turn \in 1..(3 * Len(first) + 1)
          /\ first \in Seq(Runtime!Modules)
      BY <1>1, <2>1 DEF RuntimeDelivery, RuntimeTypes
    <3>2. PICK calls \in Seq(Runtime!Modules \X Phases), n \in Nat :
             calls = Runtime!Calls(first) /\ n = Len(first) /\ Len(calls) = 3 * n
      <4>1. /\ Runtime!Calls(first) \in Seq(Runtime!Modules \X Phases)
            /\ Len(Runtime!Calls(first)) = 3 * Len(first)
        BY <3>1, CallsOfList
      <4>2. Len(first) \in Nat
        BY <3>1
      <4>. QED
        BY <4>1, <4>2
    <3>3. PICK K \in SUBSET (1..(turn - 1)) : HeardBut(K)
      BY <1>1, <2>1 DEF RuntimeDelivery
    <3>4. turn - 1 \in 0..Len(calls)
      BY <3>1, <3>2
    <3>5. PICK prefix : prefix = SubSeq(calls, 1, turn - 1)
      OBVIOUS
    <3>6. /\ prefix \in Seq(Runtime!Modules \X Phases) /\ Len(prefix) = turn - 1
          /\ \A i \in 1..(turn - 1) : prefix[i] = calls[i]
      BY <3>4, <3>5
    <3>7. heard = Picked(prefix, K) /\ \A i \in 1..(turn - 1) : i \notin K => calls[i][1] \in dead
      BY <3>2, <3>3, <3>5 DEF HeardBut
    <3>8. Runtime!Filter(heard, LAMBDA c : c[1] \notin dead)
             = Runtime!Filter(prefix, LAMBDA c : c[1] \notin dead)
      BY <3>6, <3>7, HeardIsLive
    <3>9. ASSUME turn > 3 * n PROVE prefix = calls
      <4>5. turn \in 1..(3 * n + 1)
        BY <3>1, <3>2
      <4>6. turn = 3 * n + 1
        BY <3>9, <4>5
      <4>1. turn - 1 = Len(calls)
        BY <3>2, <4>6
      <4>2. PICK t : t = turn - 1
        OBVIOUS
      <4>3. prefix = SubSeq(calls, 1, t) /\ t = Len(calls)
        BY <3>5, <4>1, <4>2
      <4>4. SubSeq(calls, 1, Len(calls)) = calls
        BY <3>2
      <4>. QED
        BY <4>3, <4>4
    <3>. QED
      BY <3>1, <3>2, <3>5, <3>8, <3>9 DEF Runtime!DeliveredInPhases
  <2>. QED
    BY <2>1 DEF Runtime!DeliveredInPhases
<1>. QED
  BY <1>1, <1>2, <1>3, <1>4 DEF RuntimeRequests, Runtime!RuntimeSound

\* The runtime starts with no subscriptions and no requests.
LEMMA RuntimeInitially == Runtime!Init => RuntimeInv
<1>. SUFFICES ASSUME Runtime!Init PROVE RuntimeInv
  OBVIOUS
<1>1. /\ \A S : <<>> \in Seq(S)
      /\ Runtime!ToSet(<<>>) = {} /\ Runtime!IsInjective(<<>>)
  BY DEF Runtime!ToSet, Runtime!IsInjective
<1>2. RuntimeTypes
  BY <1>1 DEF Runtime!Init, RuntimeTypes, Runtime!Nobody
<1>3. RuntimeTurns
  BY RuntimeConstants DEF Runtime!Init, RuntimeTurns
<1>4. RuntimeLists
  BY DEF Runtime!Init, RuntimeLists, FollowersOf
<1>5. RuntimeRequests
  BY <1>1 DEF Runtime!Init, RuntimeRequests, Runtime!RequestsAgree, Runtime!RequestsKept
<1>6. RuntimeDelivery
  BY DEF Runtime!Init, RuntimeDelivery
<1>. QED
  BY <1>2, <1>3, <1>4, <1>5, <1>6 DEF RuntimeInv

\* Steps of the other parts.
LEMMA RuntimeStutters == ASSUME RuntimeInv, UNCHANGED runtimeVars PROVE RuntimeInv'
<1>1. RuntimeTypes /\ RuntimeLists /\ RuntimeTurns /\ RuntimeRequests /\ RuntimeDelivery
  BY DEF RuntimeInv
<1>2. RuntimeTypes' /\ RuntimeTurns'
  BY <1>1 DEF RuntimeTypes, RuntimeTurns, runtimeVars
<1>3. RuntimeLists'
  BY <1>1, ListsStay DEF runtimeVars, Runtime!listVars
<1>4. RuntimeRequests'
  BY <1>1, RequestsStay DEF RuntimeRequests, runtimeVars, Runtime!requestVars
<1>5. RuntimeDelivery'
  BY <1>1, DeliveryStays DEF runtimeVars
<1>. QED
  BY <1>1, <1>2, <1>3, <1>4, <1>5 DEF RuntimeInv

\* Every step of the runtime keeps the invariant.
LEMMA RuntimeStep == ASSUME RuntimeInv, Runtime!Next PROVE RuntimeInv'
<1>1. CASE \E e \in Events, enabled \in BOOLEAN : Runtime!GuestSubscribes(e, enabled)
  BY <1>1, RuntimeSubscribes
<1>2. CASE \E e \in Events : Runtime!Event(e)
  BY <1>2, RuntimeRaises
<1>3. CASE \E m \in Runtime!Modules : Runtime!RequestDispatch(m)
  BY <1>3, RuntimeRequestsDispatch
<1>4. CASE Runtime!Continue
  BY <1>4, RuntimeReturns, RuntimeInits, RuntimeInitDone, RuntimeDelivers, RuntimeDelivered,
     RuntimeSwaps, RuntimeDispatches, RuntimeDispatched, RuntimeShutsDownModule,
     RuntimeShutDown, RuntimeReleases DEF Runtime!Continue
<1>. QED
  BY <1>1, <1>2, <1>3, <1>4, RuntimeTraps, RuntimeShutsDown DEF Runtime!Next

\* Whatever modules subscribe and unsubscribe while they are called, trap, or request from
\* their threads: the list of an event is its followers in load order, a delivery calls every
\* follower it began with in the three phases, and no dispatch that was requested is dropped
\* (Event_Deliver, Event_Subscribe, Request_Dispatch and Dispatch_Pending of runtime.cpp).
THEOREM RuntimeIsSound == Spec => []RuntimeSound
<1>1. Init => RuntimeInv
  BY RuntimeInitially DEF Init
<1>2. RuntimeInv /\ [Next]_vars => RuntimeInv'
  BY RuntimeStep, RuntimeStutters DEF Next, RuntimeNext, SessionNext, SocketsNext, vars
<1>3. RuntimeInv => RuntimeSound
  BY RuntimeInvIsSound DEF RuntimeSound
<1>. QED
  BY <1>1, <1>2, <1>3, PTL DEF Spec
=============================================================================
