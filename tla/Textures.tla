------------------------------ MODULE Textures ------------------------------
(***************************************************************************)
(* The texture sources of client/src/textures.cpp.  Modules create sources *)
(* on the emulation thread; the user interface switches, moves and reloads *)
(* them from a thread of its own; Dispatch, on the emulation thread, gives *)
(* the enabled ones to the renderer and tells each module the state and    *)
(* the priority of its sources.  The mutex is dropped while the renderer   *)
(* answers and while a module is called, and a revision tells whether the  *)
(* sources changed meanwhile.                                              *)
(***************************************************************************)
EXTENDS Integers, SequencesExt

CONSTANTS
    Ids,                \* the identities of sources: their owner and id
    Packs,              \* those that are files of the user and have no module
    MaxHandle, MaxRevision                  \* bounds of the checked instances

\* The module that instantiates this one assumes it of its constants.
TexturesAssumption == Packs \subseteq Ids /\ MaxHandle \in Nat /\ MaxRevision \in Nat

\* Each source that is not a pack has a module of its own.
Owners == Ids \ Packs

Never == -1

VARIABLES
    sources,            \* the sources, first priority first
    preferences,        \* identities with their switch, in the order of the user
    nextHandle, revision, dirty, savePending,
    stored,             \* the preferences on disk
    gone,               \* modules that trapped or were released
    step,               \* where Dispatch is
    paths, applied, reload, state,          \* locals of Dispatch
    queue,              \* its events that are still to be delivered
    shown, loaded,      \* history: what the renderer has, the revision it loaded
    heard               \* history: handle -> the last state and priority it was told

tableVars == <<sources, preferences, nextHandle, revision, dirty, savePending>>
dispatchVars == <<step, paths, applied, reload, state, queue>>
vars == <<tableVars, stored, gone, dispatchVars, shown, loaded, heard>>

-----------------------------------------------------------------------------
(* The table                                                                *)

\* preferences.end() for an identity that has none.
Rank(prefs, id) ==
    IF \E i \in DOMAIN prefs : prefs[i].id = id
    THEN CHOOSE i \in DOMAIN prefs : prefs[i].id = id
    ELSE Len(prefs) + 1

Find(h) == SelectInSeq(sources, LAMBDA s : s.handle = h)

Created(table, prefs, id, enabled, handle) ==
    LET rank == Rank(prefs, id)
        all == IF rank > Len(prefs) THEN Append(prefs, [id |-> id, enabled |-> enabled]) ELSE prefs
        source == [handle |-> handle, id |-> id, enabled |-> all[rank].enabled,
                   state |-> IF all[rank].enabled THEN "pending" ELSE "disabled",
                   notified |-> <<>>]
        Before(s) == Rank(all, s.id) <= rank
    IN  [preferences |-> all,
         sources |-> SelectSeq(table, Before) \o <<source>>
                         \o SelectSeq(table, LAMBDA s : ~Before(s))]

\* The preferences on disk may be of an earlier session, with other modules.
Init ==
    \E p \in {<<>>} \union SetToAllKPermutations(Ids), pack \in Packs :
        LET prefs == [i \in DOMAIN p |-> [id |-> p[i], enabled |-> TRUE]]
            made == Created(<<>>, prefs, pack, FALSE, 1)
        IN
        /\ stored = prefs
        /\ sources = made.sources /\ preferences = made.preferences
        /\ nextHandle = 1 /\ revision = 1 /\ dirty = TRUE /\ savePending = TRUE
        /\ gone = {}
        /\ step = "idle" /\ paths = <<>> /\ applied = Never /\ reload = FALSE
        /\ state = "pending" /\ queue = <<>>
        /\ shown = <<>> /\ loaded = Never
        /\ heard = [h \in 1..MaxHandle |-> <<>>]

\* The revision after a change.
Bumped == revision + 1

Changed == revision < MaxRevision /\ revision' = Bumped /\ dirty' = TRUE

\* The code of a module runs on the emulation thread: in an event of the machine,
\* or in one that Dispatch delivers.
GuestRuns == step \in {"idle", "inside"}

Create(id, enabled) ==
    /\ GuestRuns /\ id \notin Packs \union gone
    /\ nextHandle < MaxHandle
    /\ \A i \in DOMAIN sources : sources[i].id # id
    /\ LET made == Created(sources, preferences, id, enabled, nextHandle + 1)
       IN  sources' = made.sources /\ preferences' = made.preferences
    /\ nextHandle' = nextHandle + 1
    /\ Changed /\ savePending' = TRUE
    /\ UNCHANGED <<stored, gone, dispatchVars, shown, loaded, heard>>

Destroy(h) ==
    /\ GuestRuns
    /\ Find(h) # 0 /\ sources[Find(h)].id \in Owners \ gone
    /\ sources' = RemoveAt(sources, Find(h))
    /\ Changed
    /\ UNCHANGED <<preferences, nextHandle, savePending, stored, gone, dispatchVars,
                   shown, loaded, heard>>

\* By the user interface, or by the module the source belongs to.
Enable(h, enabled) ==
    LET i == Find(h) IN
    /\ i # 0 /\ sources[i].enabled # enabled
    /\ sources' = [sources EXCEPT ![i].enabled = enabled,
                                  ![i].state = IF enabled THEN "pending" ELSE "disabled"]
    /\ preferences' = [preferences EXCEPT ![Rank(preferences, sources[i].id)].enabled = enabled]
    /\ Changed /\ savePending' = TRUE
    /\ UNCHANGED <<nextHandle, stored, gone, dispatchVars, shown, loaded, heard>>

Swap(s, i, j) == [s EXCEPT ![i] = s[j], ![j] = s[i]]

\* The preferences after the sources at two places changed theirs.
NeighboursSwapped(i, j) == Swap(preferences, i, j)
PreferencesSwapped(i, j) ==
    Swap(preferences, Rank(preferences, sources[i].id), Rank(preferences, sources[j].id))

Move(h, delta) ==
    LET i == Find(h)
        j == i + delta
    IN
    /\ i # 0 /\ j \in DOMAIN sources
    /\ preferences' = PreferencesSwapped(i, j)
    /\ sources' = Swap(sources, i, j)
    /\ Changed /\ savePending' = TRUE
    /\ UNCHANGED <<nextHandle, stored, gone, dispatchVars, shown, loaded, heard>>

Reload(h) ==
    /\ Find(h) # 0
    /\ Changed
    /\ UNCHANGED <<sources, preferences, nextHandle, savePending, stored, gone, dispatchVars,
                   shown, loaded, heard>>

\* Runtime::Release of a module, between events.
Release(m) ==
    /\ step = "idle"
    /\ gone' = gone \union {m}
    /\ sources' = SelectSeq(sources, LAMBDA s : s.id # m)
    /\ IF sources' = sources THEN UNCHANGED <<revision, dirty>> ELSE Changed
    /\ UNCHANGED <<preferences, nextHandle, savePending, stored, dispatchVars,
                   shown, loaded, heard>>

-----------------------------------------------------------------------------
(* Dispatch                                                                 *)

Enabled(table) == SelectSeq(table, LAMBDA s : s.enabled)

PathsOf(table) == Reverse([i \in DOMAIN Enabled(table) |-> Enabled(table)[i].id])

\* What the first critical section leaves of the flag.
DirtyTaken == FALSE

\* The first critical section: sources of trapped modules are erased, the paths and
\* the revision are taken, the preferences saved.
Collect ==
    LET left == SelectSeq(sources, LAMBDA s : s.id \notin gone)
        erased == left # sources
    IN
    /\ step = "idle"
    /\ sources' = left
    /\ erased => revision < MaxRevision
    /\ revision' = IF erased THEN Bumped ELSE revision
    /\ applied' = revision'
    /\ reload' = (dirty \/ erased)
    /\ dirty' = DirtyTaken
    /\ paths' = PathsOf(left)
    /\ stored' = IF savePending THEN preferences ELSE stored
    /\ savePending' = FALSE
    /\ step' = "ask"
    /\ UNCHANGED <<preferences, nextHandle, gone, state, queue, shown, loaded, heard>>

\* The renderer takes the paths and answers; sources that need no time are ready.
Ask(answer) ==
    /\ step = "ask"
    /\ shown' = paths
    /\ loaded' = IF reload THEN applied ELSE loaded
    /\ state' = answer
    /\ step' = "answer"
    /\ UNCHANGED <<tableVars, stored, gone, paths, applied, reload, queue, heard>>

\* The second critical section: an answer for sources that have changed is dropped;
\* else every source takes its state, and its module is to hear what is new.
Answer ==
    LET StateOf(s) == IF s.enabled THEN state ELSE "disabled"
        told == {i \in DOMAIN sources :
                    sources[i].notified # <<StateOf(sources[i]), i>> /\ sources[i].id \in Owners}
        Event(i) == [id |-> sources[i].id, handle |-> sources[i].handle,
                     news |-> <<StateOf(sources[i]), i>>]
        indices == SelectSeq([i \in DOMAIN sources |-> i], LAMBDA i : i \in told)
    IN
    /\ step = "answer"
    /\ IF revision = applied
       THEN /\ sources' = [i \in DOMAIN sources |-> [sources[i] EXCEPT !.state = StateOf(sources[i])]]
            /\ queue' = [k \in DOMAIN indices |-> Event(indices[k])]
       ELSE sources' = sources /\ queue' = <<>>
    /\ step' = "deliver"
    /\ UNCHANGED <<preferences, nextHandle, revision, dirty, savePending, stored, gone,
                   paths, applied, reload, state, shown, loaded, heard>>

\* The third critical section, once for each event, and the call of the module.
Deliver ==
    LET event == Head(queue) IN
    /\ step = "deliver" /\ queue # <<>> /\ revision = applied
    /\ queue' = Tail(queue)
    /\ IF event.id \in gone
       THEN UNCHANGED <<sources, heard, step>>
       ELSE /\ sources' = [sources EXCEPT ![Find(event.handle)].notified = event.news]
            /\ heard' = [heard EXCEPT ![event.handle] = event.news]
            /\ step' = "inside"
    /\ UNCHANGED <<preferences, nextHandle, revision, dirty, savePending, stored, gone,
                   paths, applied, reload, state, shown, loaded>>

Finish ==
    /\ step = "deliver" /\ (queue = <<>> \/ revision # applied)
    /\ step' = "idle" /\ queue' = <<>>
    /\ UNCHANGED <<tableVars, stored, gone, paths, applied, reload, state, shown, loaded, heard>>

Return ==
    /\ step = "inside"
    /\ step' = "deliver"
    /\ UNCHANGED <<tableVars, stored, gone, paths, applied, reload, state, queue, shown, loaded, heard>>

\* A module may trap in an event of its own, or on another of its threads.
Trap(m) ==
    /\ m \notin gone
    /\ gone' = gone \union {m}
    /\ UNCHANGED <<tableVars, stored, dispatchVars, shown, loaded, heard>>

-----------------------------------------------------------------------------
Next ==
    \/ \E id \in Ids, enabled \in BOOLEAN : Create(id, enabled)
    \/ \E h \in 1..MaxHandle : Destroy(h)
    \/ \E h \in 1..MaxHandle, enabled \in BOOLEAN : Enable(h, enabled)
    \/ \E h \in 1..MaxHandle, delta \in {-1, 1} : Move(h, delta)
    \/ \E h \in 1..MaxHandle : Reload(h)
    \/ \E m \in Owners : Release(m)
    \/ Collect
    \/ \E answer \in {"pending", "ready"} : Ask(answer)
    \/ Answer
    \/ Deliver
    \/ Finish
    \/ Return
    \/ \E m \in Owners : Trap(m)

Spec == Init /\ [][Next]_vars

-----------------------------------------------------------------------------
TypeOK ==
    /\ \A i \in DOMAIN sources :
          /\ sources[i].handle \in 1..MaxHandle /\ sources[i].id \in Ids
          /\ sources[i].enabled \in BOOLEAN
          /\ sources[i].state \in {"disabled", "pending", "ready"}
    /\ \A i \in DOMAIN preferences : preferences[i].id \in Ids /\ preferences[i].enabled \in BOOLEAN
    /\ nextHandle \in 0..MaxHandle /\ revision \in 0..MaxRevision
    /\ dirty \in BOOLEAN /\ savePending \in BOOLEAN /\ reload \in BOOLEAN
    /\ gone \subseteq Owners
    /\ step \in {"idle", "ask", "answer", "deliver", "inside"}

\* The sources are in the order of the preferences and switched as they say, and the
\* file holds the preferences unless they are still to be saved.
PreferencesKept ==
    /\ \A i, j \in DOMAIN sources :
          i < j => Rank(preferences, sources[i].id) < Rank(preferences, sources[j].id)
    /\ \A i \in DOMAIN sources :
          sources[i].enabled = preferences[Rank(preferences, sources[i].id)].enabled
    /\ ~savePending => stored = preferences

\* An event that is about to be delivered is of a source that still exists: Dispatch
\* writes to what Find returns.
EventsHaveSources ==
    step = "deliver" /\ revision = applied =>
        \A i \in DOMAIN queue : Find(queue[i].handle) # 0

\* When the sources have not changed since the last dispatch took them, the renderer
\* has those that are enabled, and once nothing is dirty it has loaded their last
\* contents: no change that falls into a dispatch is lost.
RendererAgrees ==
    step = "idle" =>
        /\ applied = revision => shown = PathsOf(sources)
        /\ ~dirty => loaded = revision

\* Between dispatches, when nothing changed since the last, every module has been told
\* the state and the priority that its sources have.
ModulesAgree ==
    step = "idle" /\ applied = revision =>
        \A i \in DOMAIN sources :
            sources[i].id \in Owners \ gone => heard[sources[i].handle] = <<sources[i].state, i>>

\* The order of the user is kept, no change is lost that another thread makes while
\* Dispatch waits for the renderer or a module, and the modules hear the last state.
TexturesAgree == TypeOK /\ PreferencesKept /\ EventsHaveSources /\ RendererAgrees /\ ModulesAgree
=============================================================================
