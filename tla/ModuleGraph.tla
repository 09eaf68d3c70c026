---------------------------- MODULE ModuleGraph ----------------------------
(***************************************************************************)
(* Prepare_Link of client/src/module_graph.cpp: the modules that the user  *)
(* selected are read with what they depend on, put in an order in which    *)
(* they can be linked, and divided into the groups that share a memory.    *)
(* The program is sequential; a step is one iteration of one of its loops, *)
(* and `frames' is the stack of the recursive calls of Visit.              *)
(*                                                                         *)
(* A file that cannot be read, has bad metadata, no runtime or a manifest  *)
(* that does not fit its package is broken.  A fingerprint is what the     *)
(* contents of a file are, a runtime is the SDK that it names.             *)
(***************************************************************************)
EXTENDS Integers, FiniteSets, SequencesExt

CONSTANTS
    Names,              \* module names are numbers in their alphabetical order
    Files,              \* [dir, name]: the paths that may hold a module
    Disks,              \* what the disk may hold, see DiskOK
    Selections,         \* what the user may select: sequences of files
    NoModule            \* no index: a file that cannot be read

VARIABLES
    disk,               \* file -> its module, on the files that exist
    selected, position, \* the selection and how much of it has been read
    modules,            \* the modules read so far, by index
    paths,              \* file -> index
    visits, parents,    \* index -> Visit_State and groupParents
    order,              \* the modules that are complete
    roots, frames,      \* the modules that are to be visited, and the calls of Visit
    at                  \* "read", "visit", "linked", or why it is refused

vars == <<disk, selected, position, modules, paths, visits, parents, order, roots, frames, at>>

\* A module is what its file says of it; one that is broken says nothing.
DiskOK(d) ==
    /\ DOMAIN d \subseteq Files
    /\ \A f \in DOMAIN d :
          /\ d[f].name \in Names /\ d[f].dependencies \subseteq Names \ {d[f].name}
          /\ DOMAIN d[f] = {"name", "dependencies", "runtime", "folder", "fingerprint", "broken"}

\* The module that instantiates this one assumes it of its constants.
ModuleGraphAssumption ==
    /\ Names \subseteq Nat \ {0} /\ IsFiniteSet(Names)
    /\ \A f \in Files : f.name \in Names
    /\ \A d \in Disks : DiskOK(d)
    /\ NoModule \notin Nat

Init ==
    /\ disk \in Disks
    /\ selected \in {s \in Selections : ToSet(s) \subseteq DOMAIN disk} /\ position = 1
    /\ modules = <<>> /\ paths = <<>>
    /\ visits = <<>> /\ parents = <<>>
    /\ order = <<>> /\ roots = <<>> /\ frames = <<>>
    /\ at = "read"

-----------------------------------------------------------------------------
(* Read                                                                     *)

\* names: the index of the module of a name.
Indices == DOMAIN modules
Known(name) == \E i \in Indices : modules[i].name = name
IndexOf(name) == CHOOSE i \in Indices : modules[i].name = name

\* Where the file is read to: the index it was read to before, that of an equal copy, or
\* a new one.
SameCopy(i, f) == modules[i].fingerprint = disk[f].fingerprint
FolderTaken(f) == \E i \in Indices : modules[i].folder = disk[f].folder

Target(f) ==
    IF f \in DOMAIN paths THEN paths[f]
    ELSE IF disk[f].broken THEN NoModule
    ELSE IF Known(disk[f].name)
         THEN IF SameCopy(IndexOf(disk[f].name), f) THEN IndexOf(disk[f].name) ELSE NoModule
    ELSE IF FolderTaken(f) THEN NoModule
    ELSE Len(modules) + 1

Read(f) ==
    LET index == Target(f)
        module == [name |-> disk[f].name, dependencies |-> disk[f].dependencies,
                   runtime |-> disk[f].runtime, folder |-> disk[f].folder,
                   fingerprint |-> disk[f].fingerprint, dir |-> f.dir]
    IN
    /\ index # NoModule
    /\ paths' = [g \in DOMAIN paths \union {f} |-> IF g = f THEN index ELSE paths[g]]
    /\ IF index \in Indices
       THEN UNCHANGED <<modules, visits, parents>>
       ELSE /\ modules' = Append(modules, module)
            /\ visits' = Append(visits, "unseen")
            /\ parents' = Append(parents, index)

Refuse(reason) ==
    /\ at' = reason
    /\ UNCHANGED <<disk, selected, position, modules, paths, visits, parents, order, roots, frames>>

AllRead == position > Len(selected)

ReadSelected ==
    /\ at = "read" /\ ~AllRead
    /\ Read(selected[position])
    /\ position' = position + 1
    /\ UNCHANGED <<disk, selected, order, roots, frames, at>>

ReadFails ==
    /\ at = "read" /\ ~AllRead /\ Target(selected[position]) = NoModule
    /\ Refuse("file")

-----------------------------------------------------------------------------
(* Visit                                                                    *)

ByName(S) == SetToSortSeq(S, LAMBDA i, j : modules[i].name < modules[j].name)

\* Only what was selected is a root; what Visit reads it visits itself.
Roots ==
    /\ at = "read" /\ AllRead
    /\ roots' = ByName(Indices)
    /\ at' = IF modules = <<>> THEN "linked" ELSE "visit"
    /\ UNCHANGED <<disk, selected, position, modules, paths, visits, parents, order, frames>>

\* A call of Visit: the dependencies that it has still to look at, sorted as in the
\* manifest, and the one that it has just visited.
Entered(index, vs) == [vs EXCEPT ![index] = "visiting"]
Frame(index, ms) ==
    [index |-> index, dependencies |-> SetToSortSeq(ms[index].dependencies, <), target |-> NoModule]

VisitRoot ==
    /\ at = "visit" /\ frames = <<>> /\ roots # <<>>
    /\ roots' = Tail(roots)
    /\ IF visits[Head(roots)] = "complete"
       THEN UNCHANGED <<visits, frames>>
       ELSE visits' = Entered(Head(roots), visits) /\ frames' = <<Frame(Head(roots), modules)>>
    /\ UNCHANGED <<disk, selected, position, modules, paths, parents, order, at>>

Top == Last(frames)
Looks == at = "visit" /\ frames # <<>> /\ Top.target = NoModule /\ Top.dependencies # <<>>
Wants == Head(Top.dependencies)

\* The file next to the module, which goes before a module of that name from elsewhere.
Sibling == [dir |-> modules[Top.index].dir, name |-> Wants]

\* The index that the dependency has or gets.
Dependency ==
    IF Sibling \in DOMAIN disk THEN Target(Sibling)
    ELSE IF Known(Wants) THEN IndexOf(Wants)
    ELSE NoModule

Misnamed == Sibling \in DOMAIN disk /\ disk[Sibling].name # Wants

\* A module that is being visited cannot be linked before itself.
InCircle == Dependency \in Indices /\ visits[Dependency] = "visiting"

\* The dependency is read; unless it is complete it is visited next.
LookAt ==
    /\ Looks /\ Dependency # NoModule /\ ~Misnamed /\ ~InCircle
    /\ IF Sibling \in DOMAIN disk THEN Read(Sibling) ELSE UNCHANGED <<modules, paths, visits, parents>>
    /\ frames' = [frames EXCEPT ![Len(frames)] =
                      [@ EXCEPT !.dependencies = Tail(@), !.target = Dependency]]
    /\ UNCHANGED <<disk, selected, position, order, roots, at>>

LookFails ==
    /\ Looks
    /\ \/ Dependency = NoModule /\ Refuse(IF Sibling \in DOMAIN disk THEN "file" ELSE "missing")
       \/ Dependency # NoModule /\ Misnamed /\ Refuse("file")
       \/ Dependency # NoModule /\ ~Misnamed /\ InCircle /\ Refuse("circle")

Enter ==
    /\ at = "visit" /\ frames # <<>> /\ Top.target # NoModule /\ visits[Top.target] = "unseen"
    /\ visits' = Entered(Top.target, visits)
    /\ frames' = Append(frames, Frame(Top.target, modules))
    /\ UNCHANGED <<disk, selected, position, modules, paths, parents, order, roots, at>>

Visited == at = "visit" /\ frames # <<>> /\ Top.target # NoModule /\ visits[Top.target] = "complete"

\* Group: the root of the union.
Group(index) ==
    LET root[i \in Indices] == IF parents[i] = i THEN i ELSE root[parents[i]] IN root[index]

\* A module and what it depends on share a memory, so they need one SDK.
SameRuntime == modules[Top.index].runtime = modules[Top.target].runtime

\* What is put below the group of the dependency: the group of the module.
Alone == Top.index                  \* mutant: the module without its group
Joining == Group(Top.index)

Join ==
    /\ Visited /\ SameRuntime
    /\ parents' = [parents EXCEPT ![Joining] = Group(Top.target)]
    /\ frames' = [frames EXCEPT ![Len(frames)].target = NoModule]
    /\ UNCHANGED <<disk, selected, position, modules, paths, visits, order, roots, at>>

JoinFails ==
    /\ Visited /\ ~SameRuntime
    /\ Refuse("runtime")

Complete ==
    /\ at = "visit" /\ frames # <<>> /\ Top.target = NoModule /\ Top.dependencies = <<>>
    /\ visits' = [visits EXCEPT ![Top.index] = "complete"]
    /\ order' = Append(order, Top.index)
    /\ frames' = Front(frames)
    /\ UNCHANGED <<disk, selected, position, modules, paths, parents, roots, at>>

Linked ==
    /\ at = "visit" /\ frames = <<>> /\ roots = <<>>
    /\ at' = "linked"
    /\ UNCHANGED <<disk, selected, position, modules, paths, visits, parents, order, roots, frames>>

Next ==
    \/ ReadSelected
    \/ ReadFails
    \/ Roots
    \/ VisitRoot
    \/ LookAt
    \/ LookFails
    \/ Enter
    \/ Join
    \/ JoinFails
    \/ Complete
    \/ Linked

Spec == Init /\ [][Next]_vars

-----------------------------------------------------------------------------
TypeOK ==
    /\ DOMAIN disk \subseteq Files /\ ToSet(selected) \subseteq DOMAIN disk
    /\ position \in 1..(Len(selected) + 1)
    /\ ToSet(modules) \subseteq [name : Names, dependencies : SUBSET Names, runtime : Nat,
                                 folder : Names, fingerprint : Nat, dir : {f.dir : f \in Files}]
    /\ Len(visits) = Len(modules) /\ Len(parents) = Len(modules)
    /\ ToSet(visits) \subseteq {"unseen", "visiting", "complete"} /\ ToSet(parents) \subseteq Indices
    /\ DOMAIN paths \subseteq Files /\ Range(paths) \subseteq Indices
    /\ ToSet(order) \union ToSet(roots) \subseteq Indices
    /\ at \in {"read", "visit", "linked", "file", "missing", "circle", "runtime"}

\* The edges of the graph: module i needs module j.
Needs(i, j) == modules[j].name \in modules[i].dependencies

\* One module of each name and folder, whatever files and copies it was found in, and
\* every file that was asked for is one of them.
OneOfEach ==
    /\ \A i, j \in Indices :
          i # j => modules[i].name # modules[j].name /\ modules[i].folder # modules[j].folder
    /\ \A f \in DOMAIN paths :
          modules[paths[f]].name = disk[f].name /\ modules[paths[f]].fingerprint = disk[f].fingerprint
    /\ at \in {"visit", "linked"} => ToSet(selected) \subseteq DOMAIN paths

\* What is complete is so with everything that it needs: that is complete before it, in
\* its group and of its runtime.
OrderedByNeed ==
    \A p \in DOMAIN order :
        LET i == order[p] IN
        \A name \in modules[i].dependencies :
            \E q \in 1..(p - 1) :
                LET j == order[q] IN
                /\ modules[j].name = name
                /\ Group(j) = Group(i)
                /\ modules[j].runtime = modules[i].runtime

\* The plan has every module once and none that nobody selected or needs; modules are in
\* one group only if needs connect them.
PlanExact ==
    at = "linked" =>
        /\ Len(order) = Len(modules) /\ ToSet(order) = Indices
        /\ \A i \in Indices :
              (\E f \in ToSet(selected) : paths[f] = i) \/ (\E j \in Indices : Needs(j, i))
        /\ \A S \in SUBSET Indices \ {{}} :
              LET group == {i \in Indices : \E j \in S : Group(i) = Group(j)} IN
              S # group => \E i \in S, j \in group \ S : Needs(i, j) \/ Needs(j, i)

\* A plan is refused for a circle only if there is one, and for a runtime only if a
\* module needs one of another.
RefusedForCause ==
    /\ at = "circle" =>
          \E S \in SUBSET Indices \ {{}} : \A i \in S : \E j \in S : Needs(i, j)
    /\ at = "runtime" => \E i, j \in Indices : Needs(i, j) /\ modules[i].runtime # modules[j].runtime

\* The plan is the modules that were selected and what they need, each once and after its
\* needs, and it is refused for cause: TypeOK, OneOfEach, OrderedByNeed, PlanExact and
\* RefusedForCause.
GraphSound == TypeOK /\ OneOfEach /\ OrderedByNeed /\ PlanExact /\ RefusedForCause
=============================================================================
