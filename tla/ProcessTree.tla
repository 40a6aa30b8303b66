------------------------------- MODULE ProcessTree --------------------------------
(***************************************************************************)
(* The rows of the process table: filter, sort and tree (process/*.rs) as  *)
(* ProcessRows::build puts them together, and the subtree that a followed  *)
(* process scopes them to.                                                 *)
(*                                                                         *)
(* A snapshot is a racing read of the machine.  Its processes come in any  *)
(* order, a parent may be missing, be the process itself, close a cycle,   *)
(* or be a PID that two processes were seen with.                          *)
(***************************************************************************)
EXTENDS Integers, SequencesExt

CONSTANTS
  Identities,    \* [pid, start]
  Parents,       \* parent PIDs a process may report, 0 for none
  NoMetric,
  Metric,        \* the sorted column: [value, age] of each identity, or NoMetric
  Filters,       \* the sets of processes that the filters may hide
  Followable,    \* processes the table may be scoped to
  Nobody,
  TreeModes,     \* of the run
  MaxProcesses   \* bound: of a snapshot

ASSUME ProcessTreeAssumption ==
  /\ Identities \subseteq [pid : Nat \ {0}, start : Nat]
  /\ Parents \subseteq Nat
  /\ \A identity \in Identities :
       Metric[identity] = NoMetric \/ Metric[identity] \in [value : Int, age : Int]
  /\ Filters \subseteq SUBSET Identities
  /\ Followable \subseteq Identities /\ Nobody \notin Identities
  /\ TreeModes \subseteq BOOLEAN /\ MaxProcesses \in Nat

VARIABLES
  processes,   \* SystemSnapshot::processes of the one on display: [identity, parent]
  hidden,      \* ProcessFilter without its subtree
  descending,  \* ProcessSort::direction
  treeMode,
  followed,    \* AppState::followed
  rows         \* ProcessRows: the list, and the processes whose link was cut

vars == <<processes, hidden, descending, treeMode, followed, rows>>

\* ProcessIdentity: by PID, then by start key.
Lower(one, other) == one.pid < other.pid \/ (one.pid = other.pid /\ one.start < other.start)

\* The process of a table with the lowest identity, of those in S.
Lowest(table, S) ==
  CHOOSE i \in S : \A j \in S : i = j \/ Lower(table[i].identity, table[j].identity)
-----------------------------------------------------------------------------
(* Sort *)

\* ProcessSort::compare, of a column that is a metric.
Precedes(one, other, down) ==
  LET x == Metric[one]
      y == Metric[other]
  IN \/ x # NoMetric /\ y = NoMetric
     \/ x = y /\ Lower(one, other)
     \/ /\ x # NoMetric /\ y # NoMetric
        /\ \/ IF down THEN x.value > y.value ELSE x.value < y.value
           \/ x.value = y.value /\ x.age < y.age

\* The process that comes before the others of S.
First(table, S, down) ==
  CHOOSE i \in S : \A j \in S : i = j \/ Precedes(table[i].identity, table[j].identity, down)

\* The members of S, one after the other, the first of those left first.
InOrder(S, first(_)) ==
  LET order[n \in 0..Cardinality(S)] ==
        IF n = 0 THEN << >> ELSE Append(order[n - 1], first(S \ Range(order[n - 1])))
  IN order[Cardinality(S)]

Sorted(table, S, down) == InOrder(S, LAMBDA left : First(table, left, down))
-----------------------------------------------------------------------------
(* Tree *)

\* Mutant: the process read last owns its PID.
LastOwner(table, pid) == Max({i \in DOMAIN table : table[i].identity.pid = pid})

\* index_by_pid: of processes with one PID, the one that started first.
Owner(table, pid) == Lowest(table, {i \in DOMAIN table : table[i].identity.pid = pid})

\* resolve_parents: the process each parent PID names, 0 for none and for itself.
ParentLinks(table) ==
  [i \in DOMAIN table |->
     LET parent == table[i].parent
         listed == \E j \in DOMAIN table : table[j].identity.pid = parent
     IN IF listed /\ Owner(table, parent) # i THEN Owner(table, parent) ELSE 0]

SelfParents(table) ==
  {i \in DOMAIN table : table[i].parent = table[i].identity.pid /\ ParentLinks(table)[i] = 0}

\* One step up a chain of parents, unless the process on top has none, or one that is done
\* or on the chain already.
Climbed(links, done, chain) ==
  LET above == links[Last(chain)]
  IN IF above \in {0} \cup done \cup Range(chain) THEN chain ELSE Append(chain, above)

\* The chain from start.  A step adds a process.
Climb(links, done, start) ==
  LET chain[n \in Nat] ==
        IF n = 0 THEN <<start>> ELSE Climbed(links, done, chain[n - 1])
  IN chain[Cardinality(DOMAIN links)]

\* Mutant: the link that closes the cycle is cut, wherever the walk began.
ClosingLink(table, cycle) == Last(cycle)

\* The process of a cycle whose link is cut.
Victim(table, cycle) == Lowest(table, Range(cycle))

\* One walk of break_cycles, from a process that no earlier walk reached.
CycleWalk(table, state, start) ==
  LET chain == Climb(state.links, state.done, start)
      done  == state.done \cup Range(chain)
      above == state.links[Last(chain)]
      from  == CHOOSE k \in DOMAIN chain : chain[k] = above
      cut   == Victim(table, SubSeq(chain, from, Len(chain)))
  IN IF start \in state.done THEN state
     ELSE IF above \notin Range(chain) THEN [state EXCEPT !.done = done]
     ELSE [done |-> done, cut |-> state.cut \cup {cut},
           links |-> [state.links EXCEPT ![cut] = 0]]

\* break_cycles: one walk from every process, in the order of the table.
Broken(table) ==
  LET walked[n \in 0..Len(table)] ==
        IF n = 0 THEN [links |-> ParentLinks(table), cut |-> SelfParents(table), done |-> {}]
        ELSE CycleWalk(table, walked[n - 1], n)
  IN walked[Len(table)]

\* Mutant: a hidden process orphans its children.
InheritNothing(above, nearest, retained) == IF above \in retained THEN above ELSE 0

\* What a chain takes over from the resolved process above it.
Inherited(above, nearest, retained) ==
  IF above = 0 \/ above \in retained THEN above ELSE nearest[above]

\* The next process of a chain, from the top, takes over what was resolved above it.
Resolve(retained, state, node) ==
  [nearest     |-> [state.nearest EXCEPT ![node] = state.accumulated],
   resolved    |-> state.resolved \cup {node},
   accumulated |-> IF node \in retained THEN node ELSE state.accumulated]

\* One walk of nearest_retained, from a process that no earlier walk resolved.
NearestWalk(links, retained, state, start) ==
  LET chain == Climb(links, state.resolved, start)
      above == Inherited(links[Last(chain)], state.nearest, retained)
      down[n \in 0..Len(chain)] ==
        IF n = 0 THEN [state EXCEPT !.accumulated = above]
        ELSE Resolve(retained, down[n - 1], chain[Len(chain) + 1 - n])
  IN IF start \in state.resolved THEN state ELSE down[Len(chain)]

\* nearest_retained: one walk after the other.
Nearest(table, links, retained) ==
  LET walked[n \in 0..Len(table)] ==
        IF n = 0
        THEN [nearest |-> [i \in DOMAIN links |-> 0], resolved |-> {}, accumulated |-> 0]
        ELSE NearestWalk(links, retained, walked[n - 1], n)
  IN walked[Len(table)].nearest

\* push_group: the frames of a group of siblings, the first on top.
Frames(group, depth, parentRow) ==
  [k \in DOMAIN group |-> [node |-> group[k], depth |-> depth, parentRow |-> parentRow,
                           isLast |-> k = Len(group)]]

\* One round of emit_rows, with the top of the stack at its head.
Emit(children, state) ==
  LET frame == Head(state.stack)
      group == Frames(children[frame.node], frame.depth + 1, Len(state.emitted) + 1)
  IN IF state.stack = << >> THEN state
     ELSE [stack |-> group \o Tail(state.stack), emitted |-> Append(state.emitted, frame)]

\* emit_rows: the stack machine.  A round emits a row, and there is a row for a process.
Emitted(children) ==
  LET state[n \in Nat] ==
        IF n = 0 THEN [stack |-> Frames(children[0], 0, 0), emitted |-> << >>]
        ELSE Emit(children, state[n - 1])
  IN state[Cardinality(DOMAIN children)].emitted

\* Mutant: rows as deep as this one are taken for descendants.
AsDeep(depth, row) == depth >= row.depth

Inside(depth, row) == depth > row.depth

\* A row takes the size on top of the stack if it is one of its descendants.
Take(row, state) ==
  IF state.pending = << >> \/ ~Inside(Last(state.pending).depth, row) THEN state
  ELSE [total   |-> state.total + Last(state.pending).size,
        pending |-> Front(state.pending)]

\* One row of fill_descendants, which takes all it can.
Fill(row, state) ==
  LET taken[n \in 0..Len(state.pending)] ==
        IF n = 0 THEN [total |-> 0, pending |-> state.pending] ELSE Take(row, taken[n - 1])
      all == taken[Len(state.pending)]
  IN [totals  |-> <<all.total>> \o state.totals,
      pending |-> Append(all.pending, [depth |-> row.depth, size |-> all.total + 1])]

\* fill_descendants: backwards, with the sizes that wait for their parent on a stack.
Descendants(emitted) ==
  LET filled[n \in 0..Len(emitted)] ==
        IF n = 0 THEN [totals |-> << >>, pending |-> << >>]
        ELSE Fill(emitted[Len(emitted) + 1 - n], filled[n - 1])
  IN filled[Len(emitted)].totals

Row(frame, descendants) ==
  [node |-> frame.node, depth |-> frame.depth, parentRow |-> frame.parentRow,
   isLast |-> frame.isLast, descendants |-> descendants]

\* ProcessTree::build_filtered.
TreeRows(table, retained, down) ==
  LET broken   == Broken(table)
      nearest  == Nearest(table, broken.links, retained)
      children == [p \in DOMAIN table \cup {0} |->
                     Sorted(table, {i \in retained : nearest[i] = p}, down)]
      emitted  == Emitted(children)
      total    == Descendants(emitted)
  IN [list |-> [k \in DOMAIN emitted |-> Row(emitted[k], total[k])],
      cut  |-> broken.cut]
-----------------------------------------------------------------------------
(* Subtree and rows *)

\* The children of a PID in SubtreeUsage::over.
ChildrenOf(table, pid) ==
  {i \in DOMAIN table : table[i].parent = pid /\ table[i].identity.pid # pid}

\* One round of SubtreeUsage::over: breadth first, siblings by their identities, counting
\* the links that lead back.
Visit(table, walk) ==
  LET seen     == Range(walk.members) \cup Range(walk.queue)
      children == ChildrenOf(table, table[Head(walk.queue)].identity.pid)
      new      == InOrder(children \ seen, LAMBDA left : Lowest(table, left))
  IN IF walk.queue = << >> THEN walk
     ELSE [queue        |-> Tail(walk.queue) \o new,
           members      |-> Append(walk.members, Head(walk.queue)),
           cyclesBroken |-> walk.cyclesBroken + Cardinality(children \cap seen)]

\* SubtreeUsage::over, without the sums.  A round visits a process.
Walk(table, queue) ==
  LET walk[n \in Nat] ==
        IF n = 0 THEN [queue |-> queue, members |-> << >>, cyclesBroken |-> 0]
        ELSE Visit(table, walk[n - 1])
  IN walk[Len(table)]

Present(table, identity) == \E i \in DOMAIN table : table[i].identity = identity

\* SubtreeUsage::of; empty when the root is gone.
Subtree(table, root) ==
  Walk(table, IF Present(table, root)
              THEN <<CHOOSE i \in DOMAIN table : table[i].identity = root>> ELSE << >>)

\* Mutant: a followed process that is gone lifts the scope.
RetainedUnlessGone(table, filtered, root) ==
  {i \in DOMAIN table :
     /\ table[i].identity \notin filtered
     /\ Present(table, root) => i \in Range(Subtree(table, root).members)}

\* ProcessFilter::matches, with the scope that followed_members computes.
Retained(table, filtered, root) ==
  {i \in DOMAIN table :
     /\ table[i].identity \notin filtered
     /\ root # Nobody => i \in Range(Subtree(table, root).members)}

\* ProcessRows::build.
Build(table, retained, down, asTree) ==
  IF asTree THEN TreeRows(table, retained, down)
  ELSE LET order == Sorted(table, retained, down)
       IN [list |-> [k \in DOMAIN order |-> [node |-> order[k]]], cut |-> {}]

\* Every handler ends in resync_rows.
ResyncRows ==
  rows' = Build(processes', Retained(processes', hidden', followed'), descending', treeMode')
-----------------------------------------------------------------------------

\* A snapshot in which one more process was read.
Read(identity, parent) ==
  /\ Len(processes) < MaxProcesses /\ ~Present(processes, identity)
  /\ processes' = Append(processes, [identity |-> identity, parent |-> parent])
  /\ UNCHANGED <<hidden, descending, treeMode, followed>>
  /\ ResyncRows

\* A snapshot of the same processes, read in another order.
Reorder(i) ==
  /\ processes' = [processes EXCEPT ![i] = processes[i + 1], ![i + 1] = processes[i]]
  /\ UNCHANGED <<hidden, descending, treeMode, followed>>
  /\ ResyncRows

\* A snapshot without one of them.  The scope ends with its root while the view is live,
\* and stays when the table shows an earlier sample.
Vanish(i) ==
  /\ processes' = RemoveAt(processes, i)
  /\ \/ UNCHANGED followed
     \/ followed = processes[i].identity /\ followed' = Nobody
  /\ UNCHANGED <<hidden, descending, treeMode>>
  /\ ResyncRows

SetFilter(set) ==
  /\ hidden' = set
  /\ UNCHANGED <<processes, descending, treeMode, followed>>
  /\ ResyncRows

ReverseSort ==
  /\ descending' = ~descending
  /\ UNCHANGED <<processes, hidden, treeMode, followed>>
  /\ ResyncRows

ToggleTree ==
  /\ treeMode' \in TreeModes \ {treeMode}
  /\ UNCHANGED <<processes, hidden, descending, followed>>
  /\ ResyncRows

Follow(identity) ==
  /\ identity = Nobody \/ Present(processes, identity)
  /\ followed' = identity
  /\ UNCHANGED <<processes, hidden, descending, treeMode>>
  /\ ResyncRows

Init ==
  /\ processes = << >> /\ hidden = {} /\ descending = TRUE
  /\ treeMode \in TreeModes /\ followed = Nobody
  /\ rows = [list |-> << >>, cut |-> {}]

Next ==
  \/ \E identity \in Identities, parent \in Parents : Read(identity, parent)
  \/ \E i \in 1..Len(processes) - 1 : Reorder(i)
  \/ \E i \in DOMAIN processes : Vanish(i)
  \/ \E set \in Filters \ {hidden} : SetFilter(set)
  \/ ReverseSort
  \/ ToggleTree
  \/ \E identity \in (Followable \cup {Nobody}) \ {followed} : Follow(identity)

Spec == Init /\ [][Next]_vars
-----------------------------------------------------------------------------
(* Properties *)

All == DOMAIN processes
Id(i) == processes[i].identity

\* Everything above a node: the least set that holds its parents and theirs.
Ancestors(parents) ==
  [i \in DOMAIN parents |->
     {j \in DOMAIN parents :
        \A S \in SUBSET DOMAIN parents :
          parents[i] \subseteq S /\ (\A m \in S : parents[m] \subseteq S) => j \in S}]

\* What a snapshot says of parents.
ReportedParents ==
  [i \in All |-> {j \in All : processes[i].parent = Id(j).pid /\ j = Owner(processes, Id(j).pid)}]
CycleOf(i) == LET above == Ancestors(ReportedParents) IN {j \in above[i] : i \in above[j]}
UniquePids == \A i, j \in All : Id(i).pid = Id(j).pid => i = j

Shown == rows.list
Node(k) == Shown[k].node
RowsAbove == Ancestors([k \in DOMAIN Shown |-> {Shown[k].parentRow} \ {0}])

\* Every cycle, a process that is its own parent included, loses exactly one link: that of
\* its lowest identity, wherever the walks began.
OneCutPerCycle ==
  treeMode =>
    rows.cut = {i \in All : LET cycle == CycleOf(i)
                            IN cycle # {} /\ i = Lowest(processes, cycle)}

\* A process the system reported and no filter hides is on screen exactly once, however its
\* parent links tangle; it hangs under the nearest of its ancestors that no filter hides,
\* across hidden ones and memoized chains, and is a root only if there is none.
NearestSurvivor ==
  LET above == Ancestors([i \in All |-> IF i \in rows.cut THEN {} ELSE ReportedParents[i]])
      shown == {Node(k) : k \in DOMAIN Shown}
  IN /\ shown = Retained(processes, hidden, followed)
     /\ Len(Shown) = Cardinality(shown)
     /\ treeMode =>
          \A k \in DOMAIN Shown :
            LET survivors == above[Node(k)] \cap shown
                parent    == Shown[k].parentRow
            IN IF survivors = {} THEN parent = 0
               ELSE /\ parent # 0
                    /\ Node(parent) \in survivors
                    /\ survivors \subseteq {Node(parent)} \cup above[Node(parent)]

\* What the renderer draws branches from: a row's descendants are the rows right below it,
\* one level deeper per generation, and the last sibling is the last.
RowsFormTrees ==
  LET above == RowsAbove
  IN treeMode =>
    \A k \in DOMAIN Shown :
      /\ Shown[k].parentRow < k
      /\ Shown[k].depth = Cardinality(above[k])
      /\ {m \in DOMAIN Shown : k \in above[m]} = k + 1..k + Shown[k].descendants
      /\ Shown[k].isLast <=>
           \A m \in k + 1..Len(Shown) : Shown[m].parentRow # Shown[k].parentRow

\* A followed process scopes the table to one tree, itself on top unless a cycle through
\* it was cut elsewhere; when it is gone the table is empty, not whole again.
ScopeIsOneTree ==
  /\ followed # Nobody /\ ~Present(processes, followed) => Shown = << >>
  /\ treeMode /\ UniquePids /\ hidden = {} /\ followed # Nobody /\ Present(processes, followed)
     => /\ Cardinality({k \in DOMAIN Shown : Shown[k].depth = 0}) = 1
        /\ Id(Node(1)) = followed \/ \E i \in CycleOf(Node(1)) : Id(i) = followed

\* The subtree of a row that is summed, and that a scope is made of, is found downwards by
\* PID; it is the one the tree shows, found upwards by index, and both agree on what is a
\* cycle.
SubtreesAgree ==
  /\ ScopeIsOneTree
  /\ treeMode /\ UniquePids /\ hidden = {} /\ followed = Nobody
     => \A k \in DOMAIN Shown :
          LET subtree == Subtree(processes, Id(Node(k)))
              block   == {Node(m) : m \in k..k + Shown[k].descendants}
          IN /\ subtree.cyclesBroken = (IF Cardinality(CycleOf(Node(k))) > 1 THEN 1 ELSE 0)
             /\ subtree.cyclesBroken = 0 =>
                  Range(subtree.members) = block /\ Len(subtree.members) = Cardinality(block)

\* What a reader of the table sees, without the places in the snapshot.
Picture ==
  [k \in DOMAIN Shown |->
     <<Id(Node(k)), Node(k) \in rows.cut,
       IF treeMode THEN <<Shown[k].depth, Shown[k].isLast>> ELSE << >> >>]

\* Two snapshots of the same processes give the same table: the order in which the system
\* lists them decides no cut, no owner of a PID and no tie.
NoReshuffle ==
  [][Range(processes') = Range(processes) /\ UNCHANGED <<hidden, descending, treeMode, followed>>
       => Picture' = Picture]_vars
=============================================================================
