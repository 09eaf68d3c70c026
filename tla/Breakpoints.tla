---------------------------- MODULE Breakpoints ----------------------------
(***************************************************************************)
(* Breakpoints: the records of every module (sdk/src/guest/breakpoint.cpp),*)
(* the list of the host (client/src/breakpoints.cpp) and the copy that the *)
(* adapter of the emulator works from.  All of it is on the emulation      *)
(* thread: a module runs in an event, in the handler of a hit, or while    *)
(* the host holds the game in a pause; the processor runs in between.      *)
(*                                                                         *)
(* The adapter is external: it reports a hit of an entry of its list, or   *)
(* the end of the step it was asked for, which disarms the step.           *)
(* Processors are the valid ones; ranges and the CPU state are left out.   *)
(***************************************************************************)
EXTENDS Naturals, SequencesExt, Vectors

CONSTANTS
    Modules, Processors,
    Nobody,                 \* nullptr, UINT32_MAX: no owner, no processor
    MaxToken, MaxId         \* bounds on the counters of a module and of the host

\* The module that instantiates this one assumes it of its constants.
BreakpointAssumption == MaxToken \in Nat /\ MaxId \in Nat /\ Nobody \notin Modules \cup Processors

VARIABLES
    breakpoints, nextId,                        \* Runtime
    stepOwner, stepHandler, stepProcessor, paused,
    adapter,                                    \* [list, step]: what the adapter has
    records,                                    \* [Modules -> [token -> record]]
    nextToken, stepToken,                       \* of every module
    gone,                                       \* trapped, or released
    released,
    phase,                                      \* "run", "handler" or "held"
    handling                                    \* the module and record whose handler runs

hostVars == <<breakpoints, nextId, stepOwner, stepHandler, stepProcessor, paused, adapter>>
stepVars == <<stepOwner, stepHandler, stepProcessor>>
moduleVars == <<records, nextToken, stepToken>>
lifeVars == <<gone, released>>
phaseVars == <<phase, handling>>
vars == <<hostVars, moduleVars, lifeVars, phaseVars>>

-----------------------------------------------------------------------------
(* Helpers of the two sides                                                 *)

Without(f, x) == [t \in DOMAIN f \ {x} |-> f[t]]

\* Push: the adapter gets the whole list and the processor to step.
Push(owner) ==
    adapter' = [list |-> breakpoints', step |-> IF stepOwner' # Nobody THEN stepProcessor' ELSE Nobody]

Entry(m, token, id, processor) == [id |-> id, owner |-> m, handler |-> token, processor |-> processor]

\* A module can run when it was called.
Runs(m) == ~ gone[m] /\ (phase = "handler" => handling.module = m)

\* Insert: token 0 once the module has none left.
CanInsert(m) == nextToken[m] <= MaxToken

\* Disable of a record takes its entry from the host's list.
Removed(m, id) == Filter(breakpoints, LAMBDA e : ~ (e.id = id /\ e.owner = m))
EraseEntry(m, id) ==
    /\ breakpoints' = Removed(m, id)
    /\ IF breakpoints' # breakpoints THEN Push(m) ELSE UNCHANGED adapter

-----------------------------------------------------------------------------
(* The operations of a module                                               *)

\* Breakpoint::Create
Create(m, p) ==
    /\ Runs(m) /\ CanInsert(m)
    /\ records' = [records EXCEPT ![m] = [t \in DOMAIN @ \cup {nextToken[m]} |->
                      IF t = nextToken[m] THEN [processor |-> p, id |-> 0] ELSE @[t]]]
    /\ nextToken' = [nextToken EXCEPT ![m] = @ + 1]
    /\ UNCHANGED <<hostVars, stepToken, lifeVars, phaseVars>>

\* Breakpoint::Enable and the host's Add, which refuses at the end of the ids.
Enable(m, t) ==
    /\ Runs(m) /\ t \in DOMAIN records[m] \ {stepToken[m]}
    /\ records[m][t].id = 0 /\ nextId < MaxId
    /\ nextId' = nextId + 1
    /\ breakpoints' = Append(breakpoints, Entry(m, t, nextId', records[m][t].processor))
    /\ records' = [records EXCEPT ![m][t].id = nextId']
    /\ UNCHANGED <<stepVars, paused>> /\ Push(m)
    /\ UNCHANGED <<nextToken, stepToken, lifeVars, phaseVars>>

\* Breakpoint::Disable
Disable(m, t) ==
    /\ Runs(m) /\ t \in DOMAIN records[m] /\ records[m][t].id # 0
    /\ records' = [records EXCEPT ![m][t].id = 0]
    /\ UNCHANGED <<nextId, stepVars, paused>> /\ EraseEntry(m, records[m][t].id)
    /\ UNCHANGED <<nextToken, stepToken, lifeVars, phaseVars>>

\* Breakpoint::Destroy and Remove
Destroy(m, t) ==
    /\ Runs(m) /\ t \in DOMAIN records[m] \ {stepToken[m]}
    /\ records' = [records EXCEPT ![m] = Without(@, t)]
    /\ UNCHANGED <<nextId, stepVars, paused>> /\ EraseEntry(m, records[m][t].id)
    /\ UNCHANGED <<nextToken, stepToken, lifeVars, phaseVars>>

\* Pause while the game runs and Step while it is paused: a record for the next
\* stop in place of the last one, and the host resumes with a step.
Stop_Next(m, p) ==
    /\ Runs(m) /\ CanInsert(m)
    /\ LET token == nextToken[m]
           kept == Without(records[m], stepToken[m])
       IN  /\ records' = [records EXCEPT ![m] = [t \in DOMAIN kept \cup {token} |->
                             IF t = token THEN [processor |-> p, id |-> 0] ELSE kept[t]]]
           /\ nextToken' = [nextToken EXCEPT ![m] = token + 1]
           /\ stepToken' = [stepToken EXCEPT ![m] = token]
           /\ stepHandler' = token
    /\ paused' = FALSE /\ stepOwner' = m /\ stepProcessor' = p
    /\ UNCHANGED <<breakpoints, nextId, lifeVars, phaseVars>> /\ Push(m)

\* Breakpoint::Resume, which cancels the step of whichever module asked for one.
Resume(m) ==
    /\ Runs(m)
    /\ records' = [records EXCEPT ![m] = Without(@, stepToken[m])]
    /\ stepToken' = [stepToken EXCEPT ![m] = 0]
    /\ paused' = FALSE /\ stepOwner' = Nobody
    /\ UNCHANGED <<breakpoints, nextId, stepHandler, stepProcessor, nextToken, lifeVars, phaseVars>>
    /\ Push(m)

\* The module traps: it is not called again, and what it left stays with the host.
Trap(m) ==
    /\ Runs(m)
    /\ gone' = [gone EXCEPT ![m] = TRUE]
    /\ phase' = IF phase = "handler" THEN "run" ELSE phase
    /\ handling' = IF phase = "handler" THEN Nobody ELSE handling
    /\ UNCHANGED <<hostVars, moduleVars, released>>

StillSteps(m) == stepOwner          \* mutant: the step of the module stays armed
StepWithout(m) == IF stepOwner = m THEN Nobody ELSE stepOwner

\* Breakpoints_Shutdown, unless it trapped, and Breakpoints_Release_Owner.
Release(m) ==
    /\ ~ released[m] /\ phase # "handler"
    /\ released' = [released EXCEPT ![m] = TRUE]
    /\ gone' = [gone EXCEPT ![m] = TRUE]
    /\ records' = [records EXCEPT ![m] = <<>>]
    /\ stepToken' = [stepToken EXCEPT ![m] = 0]
    /\ breakpoints' = Filter(breakpoints, LAMBDA e : e.owner # m)
    /\ stepOwner' = StepWithout(m)
    /\ UNCHANGED <<nextId, stepHandler, stepProcessor, paused, nextToken, phaseVars>>
    /\ IF breakpoints' # breakpoints \/ stepOwner = m THEN Push(m) ELSE UNCHANGED adapter

-----------------------------------------------------------------------------
(* Runtime::Breakpoint                                                      *)

\* Breakpoint_Event: the record, if the module still has it for this hit.
Answers(m, token, processor, id) ==
    /\ token \in DOMAIN records[m]
    /\ records[m][token].processor = processor
    /\ IF id # 0 THEN records[m][token].id = id ELSE token = stepToken[m]

Call_Handler(m, token, processor, id) ==
    IF m # Nobody /\ ~ gone[m] /\ Answers(m, token, processor, id)
    THEN /\ phase' = "handler"
         /\ handling' = [module |-> m, record |-> token, id |-> id]
         /\ IF id # 0 THEN UNCHANGED <<records, stepToken>>
            ELSE /\ records' = [records EXCEPT ![m] = Without(@, token)]
                 /\ stepToken' = [stepToken EXCEPT ![m] = 0]
    ELSE UNCHANGED <<phase, handling, records, stepToken>>

\* The processor runs into an entry of the adapter's list.
Hit ==
    /\ phase = "run"
    /\ \E i \in DOMAIN adapter.list :
          LET hit == adapter.list[i]
              same == SelectSeq(breakpoints, LAMBDA e : e.id = hit.id /\ e.processor = hit.processor)
          IN  IF same = <<>> THEN Call_Handler(Nobody, 0, hit.processor, hit.id)
              ELSE Call_Handler(same[1].owner, same[1].handler, hit.processor, hit.id)
    /\ UNCHANGED <<hostVars, nextToken, lifeVars>>

\* The step ends; the handler of its owner is called once.
Stepped ==
    /\ phase = "run" /\ adapter.step # Nobody
    /\ adapter' = [adapter EXCEPT !.step = Nobody]
    /\ stepOwner' = IF adapter.step = stepProcessor THEN Nobody ELSE stepOwner
    /\ IF stepOwner # Nobody /\ adapter.step = stepProcessor
       THEN Call_Handler(stepOwner, stepHandler, adapter.step, 0)
       ELSE UNCHANGED <<phase, handling, records, stepToken>>
    /\ UNCHANGED <<breakpoints, nextId, stepHandler, stepProcessor, paused, nextToken, lifeVars>>

\* The handler returns whether to pause; Hold keeps the game in the pause.
Return(pause) ==
    /\ phase = "handler"
    /\ paused' = pause
    /\ phase' = IF pause THEN "held" ELSE "run"
    /\ handling' = Nobody
    /\ UNCHANGED <<breakpoints, nextId, stepVars, adapter, moduleVars, lifeVars>>

\* Hold ends when a module resumes, or with a restart or the end of the session.
Continue ==
    /\ phase = "held"
    /\ paused' = FALSE /\ phase' = "run"
    /\ UNCHANGED <<breakpoints, nextId, stepVars, adapter, moduleVars, lifeVars, handling>>

-----------------------------------------------------------------------------
Init ==
    /\ breakpoints = <<>> /\ nextId = 0
    /\ stepOwner = Nobody /\ stepHandler = 0 /\ stepProcessor = Nobody
    /\ paused = FALSE
    /\ adapter = [list |-> <<>>, step |-> Nobody]
    /\ records = [m \in Modules |-> <<>>]
    /\ nextToken = [m \in Modules |-> 1]
    /\ stepToken = [m \in Modules |-> 0]
    /\ gone = [m \in Modules |-> FALSE]
    /\ released = [m \in Modules |-> FALSE]
    /\ phase = "run" /\ handling = Nobody

Next ==
    \/ \E m \in Modules, p \in Processors : Create(m, p)
    \/ \E m \in Modules, p \in Processors : Stop_Next(m, p)
    \/ \E m \in Modules, t \in 1..MaxToken : Enable(m, t)
    \/ \E m \in Modules, t \in 1..MaxToken : Disable(m, t)
    \/ \E m \in Modules, t \in 1..MaxToken : Destroy(m, t)
    \/ \E m \in Modules : Resume(m)
    \/ \E m \in Modules : Trap(m)
    \/ \E m \in Modules : Release(m)
    \/ Hit
    \/ Stepped
    \/ \E pause \in BOOLEAN : Return(pause)
    \/ Continue

Spec == Init /\ [][Next]_vars

-----------------------------------------------------------------------------
TypeOK ==
    /\ \A i \in DOMAIN breakpoints :
          breakpoints[i] \in [id : 1..MaxId, owner : Modules, handler : 1..MaxToken,
                              processor : Processors]
    /\ stepOwner \in Modules \cup {Nobody}
    /\ phase \in {"run", "handler", "held"}
    /\ paused = (phase = "held" /\ paused)

Entries(m) == {e \in ToSet(breakpoints) : e.owner = m}

\* The list of the host is what the live modules have enabled, entry for record.
RecordsAgree ==
    \A m \in Modules : ~ gone[m] =>
        /\ Entries(m) = {Entry(m, t, records[m][t].id, records[m][t].processor) :
                            t \in {x \in DOMAIN records[m] : records[m][x].id # 0}}
        /\ stepToken[m] # 0 => stepToken[m] \in DOMAIN records[m]
        /\ stepOwner = m => stepToken[m] # 0 /\ stepHandler = stepToken[m]

\* The adapter stops the processor where the host's list says, and nowhere else.
AdapterAgrees ==
    /\ adapter.list = breakpoints
    /\ adapter.step = IF stepOwner # Nobody THEN stepProcessor ELSE Nobody

\* Nothing of a released module is left that the host would call.
NoOwnerReleased ==
    \A m \in Modules : released[m] => Entries(m) = {} /\ stepOwner # m

\* The three tables of breakpoints agree and have no released owner: TypeOK,
\* RecordsAgree, AdapterAgrees and NoOwnerReleased.
BreakpointsSound == TypeOK /\ RecordsAgree /\ AdapterAgrees /\ NoOwnerReleased

=============================================================================
