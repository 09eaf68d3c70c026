----------------------------- MODULE PatchChain -----------------------------
(***************************************************************************)
(* The detours of one function of an N64 game: sdk/src/platforms/n64/      *)
(* patch_chain.cpp with the part of patch.cpp that keeps, moves and        *)
(* maintains them.                                                         *)
(*                                                                         *)
(* Every module links its own copy of the SDK, so two modules that patch   *)
(* one function meet only in the memory of the game.  There, the site (the *)
(* first words of the function) jumps to the cave of the first patch, each *)
(* cave holds a header and code, and the code ends with a jump to the next *)
(* cave or back into the function.  An operation reads the chain back from *)
(* that memory, which the game, a reset and a loaded savestate rewrite     *)
(* behind the back of the modules; they repair it at their next event.     *)
(*                                                                         *)
(* Addresses are members of Slots; checksums, relocated words and range    *)
(* checks are abstracted to what they tell apart.  The function starts     *)
(* with a direct jump, the case in which the jump at the site depends on   *)
(* the preservation.  Reads and writes of the game's memory do not fail.   *)
(***************************************************************************)
EXTENDS Naturals, SequencesExt

CONSTANTS
    Patches, Slots,
    Module,                 \* [Patches -> modules]: whose copy of the SDK holds the patch
    Kind,                   \* [Patches -> {"none", "source"}]: Patch::Preserve
    None,                   \* no node, no jump, no slot
    MaxChains,              \* bound on the numbers of chains a module hands out
    MaxRewrites             \* bound on the times that the game's memory is rewritten

Modules == {Module[p] : p \in Patches}

ASSUME PatchAssumption ==
    /\ Kind \in [Patches -> {"none", "source"}]
    /\ MaxChains \in Nat /\ MaxRewrites \in Nat
    /\ None \notin Slots \cup Patches

VARIABLES
    memory,                 \* the game's: site, None for the original words, and cave
    image,                  \* the memory of a savestate; None before the first
    patches,                \* sPatches of each module, the latest first
    slot,                   \* [Patches -> Slots or None]: the storage
    enabled,                \* Patch_Chain::enabled
    requested, pinned,      \* Patch_State
    nextChain,              \* sNextChain of each module
    unrepaired,             \* modules without an event since the memory was rewritten
    rewrites                \* number of rewrites so far

patchVars == <<memory, image, patches, slot, enabled, requested, pinned, nextChain, unrepaired, rewrites>>

-----------------------------------------------------------------------------
(* Reading the chain back.  An operation works on a record of what it can   *)
(* change: site and cave of the memory, chains and enabled of the module.   *)

Work == [site |-> memory.site, cave |-> memory.cave, chains |-> nextChain, enabled |-> enabled]

Back(replay) == IF replay THEN "replay" ELSE "skip"
Continuation(node) == IF node.next # None THEN node.next ELSE Back(node.replay)

\* Description: the node of a patch that is not linked; preserve is its own wish
\* and replay (preserveChain) what the chain does.
Description(p) ==
    [next |-> None, linked |-> FALSE, chain |-> None,
     preserve |-> Kind[p] = "source", replay |-> Kind[p] = "source",
     code |-> p, then |-> Back(Kind[p] = "source")]

\* Encode at the storage replaces the header and leaves the code.
Header(w, s, node) ==
    [node EXCEPT !.code = IF w.cave[s] = None THEN None ELSE w.cave[s].code,
                 !.then = IF w.cave[s] = None THEN None ELSE w.cave[s].then]

\* Read_Head
Missing(w) == w.site = None \/ (w.site # None /\ w.cave[w.site.to] = None)
Invalid(w) == ~ Missing(w) /\ w.site.replay # w.cave[w.site.to].replay
Present(w) == ~ Missing(w) /\ ~ Invalid(w)
First(w) == w.cave[w.site.to]
Stale(w) == Present(w) /\ ~ First(w).linked
Linked(w) == Present(w) /\ First(w).linked

Member(w, node) ==
    /\ node # None
    /\ node.linked /\ node.chain = First(w).chain /\ node.replay = First(w).replay

\* Walk: the linked caves from the head to the end, or nothing when it fails.
Routes == UNION {{r \in [1..n -> Slots] : IsInjective(r)} : n \in 1..Cardinality(Slots)}
IsWalk(w, r) ==
    /\ r[1] = w.site.to
    /\ \A i \in 1..Len(r) :
          /\ Member(w, w.cave[r[i]])
          /\ w.cave[r[i]].next = IF i < Len(r) THEN r[i + 1] ELSE None
Walk(w) ==
    IF \E r \in Routes : IsWalk(w, r) THEN CHOOSE r \in Routes : IsWalk(w, r) ELSE <<>>

-----------------------------------------------------------------------------
(* Enable and Disable.                                                      *)

\* Update_Chain: headers and ends of all nodes, and the jump at the site.
Replays(nodes) == \A i \in 1..Len(nodes) : nodes[i].node.preserve

Update_Chain(w, nodes) ==
    LET After(i) == IF i < Len(nodes) THEN nodes[i + 1].at ELSE None
        Written(i) == [nodes[i].node EXCEPT !.replay = Replays(nodes), !.next = After(i)]
        At(s) == {i \in 1..Len(nodes) : nodes[i].at = s}
        Node(s) == Written(CHOOSE i \in At(s) : TRUE)
    IN  [w EXCEPT !.site = [to |-> nodes[1].at, replay |-> Replays(nodes)],
                  !.cave = [s \in Slots |->
                      IF At(s) = {} THEN @[s]
                      ELSE [Node(s) EXCEPT !.then = Continuation(Node(s))]]]

Nodes(w, r) == [i \in 1..Len(r) |-> [at |-> r[i], node |-> w.cave[r[i]]]]

Failed(w) == [ok |-> FALSE, work |-> w]
Done(p, on, w) == [ok |-> TRUE, work |-> [w EXCEPT !.enabled[p] = on]]

\* The patch is in its place already: only its code is written again.
Installed(w, p) ==
    Linked(w) /\ Member(w, w.cave[slot[p]]) /\ w.cave[slot[p]].preserve = (Kind[p] = "source")

Reinstall(w, p) ==
    LET current == w.cave[slot[p]]
    IN  IF current.next # None /\ ~ Member(w, w.cave[current.next]) THEN Failed(w)
        ELSE Done(p, TRUE, [w EXCEPT !.cave[slot[p]].code = p,
                                     !.cave[slot[p]].then = Continuation(current)])

ModuleNumber(w, p) == <<Module[p], 0>>    \* mutant: a module reuses its number

\* The number that tells the nodes of a new chain from those of any other.
ChainNumber(w, p) == <<Module[p], w.chains[Module[p]]>>

Insert(w, p) ==
    LET first == ~ Linked(w)
        walk == IF first THEN <<>> ELSE Walk(w)
        own == [Description(p) EXCEPT
                  !.linked = TRUE,
                  !.chain = IF first THEN ChainNumber(w, p) ELSE First(w).chain]
        counted == IF first THEN [w EXCEPT !.chains[Module[p]] = @ + 1] ELSE w
    IN  IF (first /\ ~ Stale(w) /\ w.site # None) \/ (~ first /\ walk = <<>>) THEN Failed(w)
        ELSE IF slot[p] \in ToSet(walk) THEN Done(p, TRUE, w)
        ELSE Done(p, TRUE, Update_Chain(counted, <<[at |-> slot[p], node |-> own]>> \o Nodes(w, walk)))

Enable(w, p) ==
    IF Invalid(w) \/ (Stale(w) /\ w.site.to # slot[p]) THEN Failed(w)
    ELSE IF Installed(w, p) THEN Reinstall(w, p) ELSE Insert(w, p)

\* The chain without the patch; the original words when nothing is left.
Unlink(w, p) ==
    LET rest == SelectSeq(Walk(w), LAMBDA s : s # slot[p])
    IN  IF ~ Linked(w) \/ slot[p] \notin ToSet(Walk(w)) THEN w
        ELSE IF rest = <<>> THEN [w EXCEPT !.site = None]
        ELSE Update_Chain(w, Nodes(w, rest))

Disable(w, p) ==
    LET s == slot[p]
        Released(v) == [v EXCEPT !.cave[s] = Header(v, s, Description(p))]
        already == w.cave[s] # None /\ ~ w.cave[s].linked
    IN  IF Invalid(w) \/ (Stale(w) /\ w.site.to # s) THEN Failed(w)
        ELSE IF Stale(w) THEN Done(p, FALSE, Released([w EXCEPT !.site = None]))
        ELSE IF already THEN Done(p, FALSE, w)
        ELSE IF Linked(w) /\ Walk(w) = <<>> THEN Failed(w)
        ELSE Done(p, FALSE, Released(Unlink(w, p)))

Set_Enabled(w, p, on) == IF on THEN Enable(w, p) ELSE Disable(w, p)

\* Prepare_Relocation and Commit_Relocation: the patch is brought up to date, then
\* its code and header move and the jump to it follows.
Relocate(w, p, to) ==
    LET synced == Set_Enabled(w, p, w.enabled[p])
        v == synced.work
        from == slot[p]
        walk == IF Linked(v) THEN Walk(v) ELSE <<>>
        linked == from \in ToSet(walk)
        node == IF linked THEN v.cave[from] ELSE Description(p)
        own == [node EXCEPT !.code = p, !.then = Continuation(node)]
        Before == {s \in ToSet(walk) : v.cave[s].next = from}
        Cave(s) ==
            IF s = to THEN own
            ELSE IF s = from THEN None
            ELSE IF linked /\ s \in Before THEN [v.cave[s] EXCEPT !.next = to, !.then = to]
            ELSE v.cave[s]
        moved == [v EXCEPT !.site = IF linked /\ @.to = from THEN [@ EXCEPT !.to = to] ELSE @,
                           !.cave = [s \in Slots |-> Cave(s)]]
    IN  IF \/ ~ synced.ok \/ Invalid(v) \/ (Present(v) /\ walk = <<>>)
           \/ linked # w.enabled[p] \/ to \in ToSet(walk)
        THEN Failed(v)
        ELSE [ok |-> TRUE, work |-> moved]

-----------------------------------------------------------------------------
(* The operations of a module.                                              *)

Created(p) == slot[p] # None

\* MODEL BOUND: a module hands out no more than MaxChains numbers.
Written(w) ==
    /\ \A m \in Modules : w.chains[m] <= MaxChains
    /\ memory' = [site |-> w.site, cave |-> w.cave]
    /\ nextChain' = w.chains
    /\ enabled' = w.enabled

\* Create_Detour, Finish_Create and Bind into free storage: nothing is linked yet.
Create(p, s) ==
    /\ ~ Created(p) /\ \A q \in Patches : slot[q] # s
    /\ ~ Invalid(Work)
    /\ memory' = [memory EXCEPT !.cave[s] = Description(p)]
    /\ slot' = [slot EXCEPT ![p] = s]
    /\ patches' = [patches EXCEPT ![Module[p]] = <<p>> \o @]
    /\ UNCHANGED <<image, enabled, requested, pinned, nextChain, unrepaired, rewrites>>

\* Patch::Enable
TurnOn(p) ==
    LET result == Enable(Work, p) IN
    /\ Created(p)
    /\ Written(result.work)
    /\ requested' = IF result.ok THEN [requested EXCEPT ![p] = TRUE] ELSE requested
    /\ pinned' = IF result.ok THEN [pinned EXCEPT ![p] = TRUE] ELSE pinned
    /\ UNCHANGED <<image, patches, slot, unrepaired, rewrites>>

\* Patch::Disable; the storage stays pinned.
TurnOff(p) ==
    LET result == Disable(Work, p) IN
    /\ Created(p)
    /\ Written(result.work)
    /\ requested' = IF result.ok THEN [requested EXCEPT ![p] = FALSE] ELSE requested
    /\ UNCHANGED <<image, patches, slot, pinned, unrepaired, rewrites>>

Allow_Relocation(p) ==
    /\ Created(p) /\ pinned[p]
    /\ pinned' = [pinned EXCEPT ![p] = FALSE]
    /\ UNCHANGED <<memory, image, patches, slot, enabled, requested, nextChain, unrepaired, rewrites>>

\* Guest::Heap moves the block of the patch into free storage.
Move(p, to) ==
    LET result == Relocate(Work, p, to) IN
    /\ Created(p) /\ ~ pinned[p] /\ \A q \in Patches : slot[q] # to
    /\ Written(result.work)
    /\ slot' = IF result.ok THEN [slot EXCEPT ![p] = to] ELSE slot
    /\ UNCHANGED <<image, patches, requested, pinned, unrepaired, rewrites>>

\* Patch::Destroy, which leaves the patch as it is when it cannot be disabled.
Destroy(p) ==
    LET result == Disable(Work, p) IN
    /\ Created(p) /\ result.ok
    /\ Written([result.work EXCEPT !.cave[slot[p]] = None])
    /\ slot' = [slot EXCEPT ![p] = None]
    /\ requested' = [requested EXCEPT ![p] = FALSE]
    /\ pinned' = [pinned EXCEPT ![p] = FALSE]
    /\ patches' = [patches EXCEPT ![Module[p]] = SelectSeq(@, LAMBDA q : q # p)]
    /\ UNCHANGED <<image, unrepaired, rewrites>>

\* Platform_Maintain at an event of the module: every patch is put as requested,
\* whatever became of the ones before.
Restored(w, p) == Set_Enabled(w, p, requested[p]).work
Maintain(m) ==
    /\ Written(FoldLeft(Restored, Work, patches[m]))
    /\ unrepaired' = unrepaired \ {m}
    /\ UNCHANGED <<image, patches, slot, requested, pinned, rewrites>>

-----------------------------------------------------------------------------
(* The game's memory changes behind the modules.                            *)

Clear == [site |-> None, cave |-> [s \in Slots |-> None]]

\* MODEL BOUND: no more than MaxRewrites of them.
Rewrite(content) ==
    /\ rewrites < MaxRewrites
    /\ memory' = content
    /\ unrepaired' = Modules
    /\ rewrites' = rewrites + 1
    /\ UNCHANGED <<patches, slot, enabled, requested, pinned, nextChain>>

\* Between frames, when every module has had its event.
Save ==
    /\ unrepaired = {}
    /\ image' = memory
    /\ UNCHANGED <<memory, patches, slot, enabled, requested, pinned, nextChain, unrepaired, rewrites>>

\* MODEL BOUND: a savestate is not loaded once a patch that it holds has been moved
\* or destroyed; the modules cannot tell such a node from a patch of another module.
Owned(s) == \E p \in Patches : slot[p] = s /\ image.cave[s].code \in {p, None}
Load ==
    /\ image # None
    /\ \A s \in Slots : image.cave[s] # None => Owned(s)
    /\ Rewrite(image) /\ UNCHANGED image

Reset == Rewrite(Clear) /\ UNCHANGED image

\* The game loads the code of the function again.
Reload == Rewrite([memory EXCEPT !.site = None]) /\ UNCHANGED image

-----------------------------------------------------------------------------
PatchInit ==
    /\ memory = Clear /\ image = None
    /\ patches = [m \in Modules |-> <<>>]
    /\ slot = [p \in Patches |-> None]
    /\ enabled = [p \in Patches |-> FALSE]
    /\ requested = [p \in Patches |-> FALSE]
    /\ pinned = [p \in Patches |-> FALSE]
    /\ nextChain = [m \in Modules |-> 1]
    /\ unrepaired = {} /\ rewrites = 0

PatchNext ==
    \/ \E p \in Patches, s \in Slots : Create(p, s)
    \/ \E p \in Patches, s \in Slots : Move(p, s)
    \/ \E p \in Patches : TurnOn(p)
    \/ \E p \in Patches : TurnOff(p)
    \/ \E p \in Patches : Allow_Relocation(p)
    \/ \E p \in Patches : Destroy(p)
    \/ \E m \in Modules : Maintain(m)
    \/ Save
    \/ Load
    \/ Reset
    \/ Reload

PatchSpec == PatchInit /\ [][PatchNext]_patchVars

-----------------------------------------------------------------------------
PatchTypeOK ==
    /\ memory.cave \in [Slots -> {None} \cup [
          next : Slots \cup {None}, linked : BOOLEAN, chain : {None} \cup (Modules \X Nat),
          preserve : BOOLEAN, replay : BOOLEAN, code : Patches \cup {None},
          then : Slots \cup {"skip", "replay", None}]]
    /\ slot \in [Patches -> Slots \cup {None}]
    /\ \A p \in Patches : Created(p) <=> p \in ToSet(patches[Module[p]])

\* What the processor runs: the caves it jumps through from the site.
Runs(r) ==
    /\ memory.site # None /\ r[1] = memory.site.to
    /\ \A i \in 1..Len(r) :
          /\ memory.cave[r[i]] # None
          /\ IF i < Len(r) THEN memory.cave[r[i]].then = r[i + 1]
                           ELSE memory.cave[r[i]].then \in {"skip", "replay"}
Codes(r) == [i \in 1..Len(r) |-> memory.cave[r[i]].code]
End(r) == memory.cave[r[Len(r)]].then

Requested == {p \in Patches : requested[p]}

\* Every module has seen its event: the function runs the payload of each requested
\* patch once and no other, and it replays its own first instructions unless a
\* patch asked to skip them; without a patch it has its original words back.
\* Before that it may run patches that are out of date, but never runs astray.
RunsTheRequested ==
    /\ memory.site # None => \E r \in Routes : Runs(r) /\ None \notin ToSet(Codes(r))
    /\ unrepaired = {} =>
          /\ enabled = requested
          /\ memory.site = None <=> Requested = {}
          /\ memory.site # None =>
                \E r \in Routes :
                   /\ Runs(r)
                   /\ IsInjective(Codes(r)) /\ ToSet(Codes(r)) = Requested
                   /\ End(r) = Back(\A p \in Requested : Kind[p] = "source")

\* PatchTypeOK and RunsTheRequested.
PatchesSound == PatchTypeOK /\ RunsTheRequested

=============================================================================
