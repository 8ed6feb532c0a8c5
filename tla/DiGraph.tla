------------------------------- MODULE DiGraph -------------------------------
(***************************************************************************)
(* The DiGraph of entry_files_analyser.rs.  Vertices and adjacency lists   *)
(* grow by add_vertex and add_edge in any order; between two of these      *)
(* calls the graph may be asked for its cycles (find_cycles) or for the    *)
(* descendants of a vertex (get_deep_children).  The answers are worked    *)
(* out step by step: the calls of find_deep_dependencies are a stack, and  *)
(* each turn of a loop is a step.  Adjacency lists are sequences because   *)
(* the traversals depend on their order.                                   *)
(*                                                                         *)
(* Operators marked (faulty) are the operator that follows them with a     *)
(* plausible mistake.                                                      *)
(***************************************************************************)
EXTENDS Integers, Sequences, FiniteSets, SequencesExt

CONSTANTS
    Id,        \* names of vertices
    Limits,    \* what get_deep_children is given as depth_limit
    None       \* no vertex

ASSUME GraphAssumption == Limits \subseteq Nat /\ None \notin Id

VARIABLES
    ids,       \* vertices in the order of their insertion
    adjacent,  \* [vertices -> Seq(Id)]: adjacent_to
    phase,     \* what is being worked out
    root,      \* root_id of the search
    limit,     \* depth_limit; Unlimited in find_cycles
    calls,     \* calls of find_deep_dependencies under way, innermost last
    found,     \* visited and out, which are always equal
    row,       \* position in collect_root_adjacency_lists: vertex
    column,    \*   and adjacent vertex
    path,      \* vertices_in_cyclic_path
    position,  \* i of the backtracking, then the position of the filter
    cycle,     \* what the filter has let through
    cycles     \* the paths that keep_unique_vertices_paths keeps

graph  == <<ids, adjacent>>
search == <<root, limit, calls, found>>
loop   == <<row, column, cycles>>
cut    == <<path, position, cycle>>
vars   == <<graph, phase, search, loop, cut>>

HasVertex(v) == v \in DOMAIN adjacent
Edge(u, v) == HasVertex(u) /\ Contains(adjacent[u], v)

Init ==
    /\ ids = << >> /\ adjacent = << >> /\ phase = "idle"
    /\ root = None /\ limit = 0 /\ calls = << >> /\ found = << >>
    /\ row = 1 /\ column = 1 /\ cycles = << >>
    /\ path = << >> /\ position = 0 /\ cycle = << >>

EndSearch == root' = None /\ limit' = 0 /\ calls' = << >> /\ found' = << >>

-----------------------------------------------------------------------------
AddVertex(v) ==
    /\ phase = "idle" /\ ~HasVertex(v)
    /\ ids' = Append(ids, v)
    /\ adjacent' = [u \in DOMAIN adjacent \cup {v} |->
                       IF u = v THEN << >> ELSE adjacent[u]]
    /\ UNCHANGED <<phase, search, loop, cut>>

AddParallelEdge(from, to) ==                             \* (faulty)
    /\ phase = "idle"
    /\ from # to /\ HasVertex(to) /\ HasVertex(from)
    /\ adjacent' = [adjacent EXCEPT ![from] = Append(@, to)]
    /\ UNCHANGED <<ids, phase, search, loop, cut>>
AddEdge(from, to) ==
    /\ phase = "idle"
    /\ from # to /\ HasVertex(to) /\ HasVertex(from)
    /\ ~Contains(adjacent[from], to)
    /\ adjacent' = [adjacent EXCEPT ![from] = Append(@, to)]
    /\ UNCHANGED <<ids, phase, search, loop, cut>>

-----------------------------------------------------------------------------
(***************************************************************************)
(* find_deep_dependencies.  A call is at the vertex it expands, has still  *)
(* to look at the vertices todo and gives each of them the depth left.     *)
(* The innermost call meets the next vertex: it has been visited, it is a  *)
(* leaf of the search (the root, or no depth is left), or it is expanded.  *)
(***************************************************************************)
Unlimited == -1

Call(v, todo, left) == [of |-> v, todo |-> todo, left |-> left]
Deeper(left) == IF left = Unlimited THEN Unlimited ELSE left - 1

Innermost == Last(calls)
Met == Head(Innermost.todo)
Meeting ==
    /\ phase \in {"children", "deep"}
    /\ calls # << >> /\ Innermost.todo # << >>
IsLeaf(v, left) == v = root \/ left = 0

Advanced ==
    [calls EXCEPT ![Len(calls)] = [Innermost EXCEPT !.todo = Tail(Innermost.todo)]]

SkipVisited ==
    /\ Meeting /\ Contains(found, Met)
    /\ calls' = Advanced
    /\ UNCHANGED <<graph, phase, root, limit, found, loop, cut>>

VisitLeaf ==
    /\ Meeting /\ ~Contains(found, Met) /\ IsLeaf(Met, Innermost.left)
    /\ found' = Append(found, Met)
    /\ calls' = Advanced
    /\ UNCHANGED <<graph, phase, root, limit, loop, cut>>

VisitInner ==
    /\ Meeting /\ ~Contains(found, Met) /\ ~IsLeaf(Met, Innermost.left)
    /\ found' = Append(found, Met)
    /\ calls' = Append(Advanced, Call(Met, adjacent[Met], Deeper(Innermost.left)))
    /\ UNCHANGED <<graph, phase, root, limit, loop, cut>>

Return ==
    /\ phase \in {"children", "deep"}
    /\ calls # << >> /\ Innermost.todo = << >>
    /\ calls' = Front(calls)
    /\ UNCHANGED <<graph, phase, root, limit, found, loop, cut>>

-----------------------------------------------------------------------------
(***************************************************************************)
(* get_deep_children: the root's own loop is the outermost call.           *)
(***************************************************************************)
AskDeeperChildren(r, n) ==                               \* (faulty)
    /\ phase = "idle"
    /\ phase' = "children" /\ root' = r /\ limit' = n /\ found' = << >>
    /\ calls' = IF HasVertex(r) THEN <<Call(r, adjacent[r], n)>> ELSE << >>
    /\ UNCHANGED <<graph, loop, cut>>
AskChildren(r, n) ==
    /\ phase = "idle"
    /\ phase' = "children" /\ root' = r /\ limit' = n /\ found' = << >>
    /\ calls' = IF HasVertex(r)
                THEN <<Call(r, adjacent[r], IF n = 0 THEN 0 ELSE n - 1)>>
                ELSE << >>
    /\ UNCHANGED <<graph, loop, cut>>

ChildrenAnswered == phase = "children" /\ calls = << >>

TakeChildren ==
    /\ ChildrenAnswered
    /\ phase' = "idle" /\ EndSearch
    /\ UNCHANGED <<graph, loop, cut>>

-----------------------------------------------------------------------------
(***************************************************************************)
(* find_cycles: one search for each vertex and each vertex adjacent to it, *)
(* without a limit.                                                        *)
(***************************************************************************)
AskCycles ==
    /\ phase = "idle"
    /\ phase' = "pairs"
    /\ UNCHANGED <<graph, search, loop, cut>>

NextRoot ==
    /\ phase = "pairs" /\ row <= Len(ids) /\ column > Len(adjacent[ids[row]])
    /\ row' = row + 1 /\ column' = 1
    /\ UNCHANGED <<graph, phase, search, cycles, cut>>

NextPair ==
    /\ phase = "pairs" /\ row <= Len(ids) /\ column <= Len(adjacent[ids[row]])
    /\ phase' = "deep" /\ root' = ids[row] /\ limit' = Unlimited /\ found' = << >>
    /\ calls' = <<Call(ids[row], <<adjacent[ids[row]][column]>>, Unlimited)>>
    /\ column' = column + 1
    /\ UNCHANGED <<graph, row, cycles, cut>>

NoCycleHere ==
    /\ phase = "deep" /\ calls = << >> /\ ~Contains(found, root)
    /\ phase' = "pairs" /\ EndSearch
    /\ UNCHANGED <<graph, loop, cut>>

(***************************************************************************)
(* The root was met: the path is the root and what was found up to it.     *)
(* For each vertex found after the root the code makes the same path once  *)
(* more, of which keep_unique_vertices_paths keeps the first; so one is    *)
(* made here.                                                              *)
(***************************************************************************)
RootAt == CHOOSE k \in DOMAIN found : found[k] = root
CycleHere ==
    /\ phase = "deep" /\ calls = << >> /\ Contains(found, root)
    /\ phase' = "backtrack"
    /\ path' = <<root>> \o SubSeq(found, 1, RootAt)
    /\ position' = Len(path')
    /\ UNCHANGED <<graph, search, loop, cycle>>

(***************************************************************************)
(* backtrack_vertices_involved_in_cycle: from the end, drop every vertex   *)
(* that is not a parent of the one after it, then repeated vertices.       *)
(***************************************************************************)
KeepDeadEnd ==                                           \* (faulty)
    /\ phase = "backtrack" /\ position > 1
    /\ position' = position - 1
    /\ UNCHANGED <<graph, phase, search, loop, path, cycle>>
DropDeadEnd ==
    /\ phase = "backtrack" /\ position > 1
    /\ path' = IF Edge(path[position - 1], path[position])
               THEN path ELSE RemoveAt(path, position - 1)
    /\ position' = position - 1
    /\ UNCHANGED <<graph, phase, search, loop, cycle>>

BacktrackEnds ==
    /\ phase = "backtrack" /\ position <= 1
    /\ phase' = "filter" /\ position' = 1
    /\ UNCHANGED <<graph, search, loop, path, cycle>>

Filter ==
    /\ phase = "filter" /\ position <= Len(path)
    /\ cycle' = IF Contains(cycle, path[position]) THEN cycle
                ELSE Append(cycle, path[position])
    /\ position' = position + 1
    /\ UNCHANGED <<graph, phase, search, loop, path>>

(***************************************************************************)
(* keep_unique_vertices_paths, told of one path at a time: the sorted      *)
(* copies are equal when the paths, which repeat no vertex, have the same  *)
(* ones.                                                                   *)
(***************************************************************************)
SameLength(p, q) == Len(p) = Len(q)                      \* (faulty)
SamePath(p, q) == p = q                                  \* (faulty)
SameVertices(p, q) == Len(p) = Len(q) /\ ToSet(p) = ToSet(q)

KeepCycle ==
    /\ phase = "filter" /\ position > Len(path)
    /\ cycles' = IF \E k \in DOMAIN cycles : SameVertices(cycles[k], cycle)
                 THEN cycles ELSE Append(cycles, cycle)
    /\ phase' = "pairs" /\ EndSearch
    /\ path' = << >> /\ position' = 0 /\ cycle' = << >>
    /\ UNCHANGED <<graph, row, column>>

CyclesAnswered == phase = "pairs" /\ row > Len(ids)

TakeCycles ==
    /\ CyclesAnswered
    /\ phase' = "idle"
    /\ row' = 1 /\ column' = 1 /\ cycles' = << >>
    /\ UNCHANGED <<graph, search, cut>>

Next ==
    \/ \E v \in Id : AddVertex(v)
    \/ \E from, to \in Id : AddEdge(from, to)
    \/ SkipVisited \/ VisitLeaf \/ VisitInner \/ Return
    \/ \E r \in Id, n \in Limits : AskChildren(r, n)
    \/ TakeChildren
    \/ AskCycles \/ NextRoot \/ NextPair \/ NoCycleHere \/ CycleHere
    \/ DropDeadEnd \/ BacktrackEnds \/ Filter \/ KeepCycle \/ TakeCycles

Spec == Init /\ [][Next]_vars

-----------------------------------------------------------------------------
(***************************************************************************)
(* Reference definitions: the vertices reachable by one edge or more are   *)
(* those in every set that holds the neighbours of the root and with a     *)
(* vertex its neighbours; a walk is given by the vertices after the root.  *)
(***************************************************************************)
Vertices == DOMAIN adjacent
Neighbours(v) == ToSet(adjacent[v])

Closed(S) == \A v \in S : Neighbours(v) \subseteq S
Reachable(r) ==
    {v \in Vertices : \A S \in SUBSET Vertices :
                         Closed(S) /\ Neighbours(r) \subseteq S => v \in S}

IsWalk(r, w) == \A k \in DOMAIN w : Edge(IF k = 1 THEN r ELSE w[k - 1], w[k])
Within(r, n) ==
    {v \in Vertices : \E k \in 1..n : \E w \in [1..k -> Vertices] :
                         IsWalk(r, w) /\ w[k] = v}

IsSimpleCycle(c) ==
    /\ IsInjective(c) /\ Len(c) > 1
    /\ \A k \in DOMAIN c : Edge(c[k], c[IF k = Len(c) THEN 1 ELSE k + 1])

-----------------------------------------------------------------------------
Calls == [of : Vertices, todo : Seq(Vertices), left : Nat \cup {Unlimited}]

GraphOK ==
    /\ ids \in Seq(Id) /\ IsInjective(ids) /\ ToSet(ids) = Vertices
    /\ adjacent \in [Vertices -> Seq(Id)]
    /\ \A v \in Vertices :
          IsInjective(adjacent[v]) /\ Neighbours(v) \subseteq Vertices \ {v}

TypeOK ==
    /\ GraphOK
    /\ phase \in {"idle", "children", "pairs", "deep", "backtrack", "filter"}
    /\ root \in Id \cup {None} /\ limit \in Limits \cup {0, Unlimited}
    /\ calls \in Seq(Calls) /\ found \in Seq(Id)
    /\ row \in 1..(Len(ids) + 1) /\ column \in Nat \ {0}
    /\ path \in Seq(Id) /\ position \in 0..(Len(path) + 1)
    /\ phase = "filter" => position >= 1
    /\ cycle \in Seq(Id) /\ cycles \in Seq(Seq(Id))

(***************************************************************************)
(* Every list find_cycles returns is a cycle of the graph without repeated *)
(* vertices: backtracking over the flattened depth-first order never       *)
(* leaves a vertex that is not on the way back to the root.                *)
(***************************************************************************)
CyclesAreCycles == \A k \in DOMAIN cycles : IsSimpleCycle(cycles[k])

(***************************************************************************)
(* find_cycles does not enumerate all cycles, but every edge that lies on  *)
(* some cycle has both its ends on a returned one.                         *)
(***************************************************************************)
CyclicEdgesAreFound ==
    CyclesAnswered =>
        \A u, v \in Vertices :
            Edge(u, v) /\ u \in Reachable(v)
                => \E k \in DOMAIN cycles : {u, v} \subseteq ToSet(cycles[k])

(***************************************************************************)
(* No two returned cycles have the same vertices.                          *)
(***************************************************************************)
CyclesDiffer ==
    \A j, k \in DOMAIN cycles : ToSet(cycles[j]) = ToSet(cycles[k]) => j = k

(***************************************************************************)
(* get_deep_children with a limit that is no smaller than the graph lists  *)
(* the vertices reachable from the root, each once; with limit 1 (or 0)    *)
(* the adjacent ones; in between nothing that is further away than the     *)
(* limit.                                                                  *)
(***************************************************************************)
DeepChildrenInRange ==
    ChildrenAnswered /\ HasVertex(root) =>
        /\ IsInjective(found)
        /\ limit <= 1 => ToSet(found) = Neighbours(root)
        /\ limit >= Cardinality(Vertices) => ToSet(found) = Reachable(root)
        /\ limit >= 1 => \A v \in ToSet(found) : v \in Within(root, limit)

(***************************************************************************)
(* "DiGraph truncates by true depth": a finite limit keeps exactly the     *)
(* vertices at most that many edges away.                                  *)
(***************************************************************************)
TruncatesByTrueDepth ==
    ChildrenAnswered /\ HasVertex(root) /\ limit >= 1 =>
        ToSet(found) = Within(root, limit)
=============================================================================
