-------------------------------- MODULE VProf --------------------------------
(***************************************************************************)
(* The scope profiler CVProfile (src/tier0/vprof.cpp): a tree of named     *)
(* nodes, the cursor EnterScope and ExitScope move in it, the stack of     *)
(* budget groups that follows the cursor, and the time each node collects. *)
(*                                                                         *)
(* A node is the path of names from the root to it; the root is <<>>.      *)
(* EnterScope and ExitScope do nothing while the profiler is disabled, so  *)
(* a scope that is open across Start or Stop makes one of its two calls    *)
(* only.  A behaviour is of one of three regimes:                          *)
(*   "plain"      scopes nest, Start, Stop and Term are called outside all *)
(*                of them, time passes;                                    *)
(*   "pausing"    the same, with Pause and Resume between the calls;       *)
(*   "straddling" Start, Stop and Term are called wherever the caller is.  *)
(***************************************************************************)
EXTENDS Integers, Sequences, SequencesExt

CONSTANTS
  ScopeName,   \* names of scopes
  GroupOf,     \* the budget group each is entered with
  MaxScopes,   \* bound: scopes a caller has open at once
  MaxNesting,  \* bound: depth of the tree
  MaxNodes,    \* bound: nodes made below the root
  MaxStray,    \* bound: times the root is left beyond its entries
  MaxTime,     \* bound: ticks of the clock
  MaxStarts,   \* bound: m_Enabled
  GroupDepth,  \* MAX_GROUP_STACK_DEPTH
  MaxGroups    \* MAXBUDGETGROUPS

ASSUME ProfAssumption ==
  /\ {MaxScopes, MaxNesting, MaxNodes, MaxStray, MaxTime, MaxStarts} \subseteq Nat
  /\ {GroupDepth, MaxGroups} \subseteq Nat \ {0}

VARIABLES
  enabled,     \* m_Enabled
  cursor,      \* m_pCurNodeCache
  tree,        \* the nodes: path -> record, the root's always there
  age,         \* the other nodes in the order they were made
  groups,      \* m_BudgetGroups, the names registered so far
  groupStack,  \* m_GroupIDStack, up to m_GroupIDStackDepth
  nesting,     \* m_Depth
  atRoot,      \* m_fAtRoot
  now,         \* the cycle counter
  regime,      \* what the caller does, see above
  open,        \* the scopes the caller has yet to leave
  paused,      \* Pause was called after the last Resume
  overflowed   \* PushGroup has refused a group

scopeVars == <<enabled, cursor, tree, age, groups, groupStack, nesting, atRoot>>
callerVars == <<now, regime, open, paused, overflowed>>
profVars == <<scopeVars, callerVars>>

Root == <<>>

(* A node: m_nRecursions, m_BudgetGroupID, m_StartTime, m_CurFrameTime,    *)
(* m_TotalTime; "ran" is not in the code, it measures what the node's time *)
(* ought to be.                                                            *)
NewNode(group) ==
  [rec |-> 0, group |-> group, start |-> 0, cur |-> 0, total |-> 0, ran |-> 0]

ProfInit ==
  /\ enabled = 0
  /\ cursor = Root
  /\ tree = [p \in {Root} |-> NewNode(0)]
  /\ age = <<>>
  /\ groups = <<>>
  /\ groupStack = <<0>>
  /\ nesting = 0
  /\ atRoot = TRUE
  /\ now = 0
  /\ regime \in {"plain", "pausing", "straddling"}
  /\ open = 0
  /\ paused = FALSE
  /\ overflowed = FALSE

-----------------------------------------------------------------------------
(* CVProfNode::EnterScope and ExitScope, with PushGroup and PopGroup.      *)

Pushed(group) ==
  IF Len(groupStack) < GroupDepth THEN Append(groupStack, group) ELSE groupStack

Popped(stack) == IF Len(stack) > 1 THEN Front(stack) ELSE stack

(* Enter p, one of the nodes of t.                                         *)
EnterNode(t, p) ==
  /\ tree' = [t EXCEPT ![p].rec = @ + 1,
                       ![p].start = IF t[p].rec = 0 THEN now ELSE @]
  /\ IF t[p].rec = 0
       THEN /\ groupStack' = Pushed(t[p].group)
            /\ overflowed' = (overflowed \/ Len(groupStack) >= GroupDepth)
       ELSE UNCHANGED <<groupStack, overflowed>>

(* True when the node's outermost entry is over.                           *)
Leaves(p) == tree[p].rec - 1 <= 0

ExitNode(p) ==
  IF Leaves(p)
    THEN /\ tree' = [tree EXCEPT ![p].rec = @ - 1,
                                 ![p].cur = @ + now - tree[p].start]
         /\ groupStack' = Popped(groupStack)
    ELSE /\ tree' = [tree EXCEPT ![p].rec = @ - 1]
         /\ UNCHANGED groupStack

-----------------------------------------------------------------------------
(* BudgetGroupNameToBudgetGroupID: register a name once, 0 when there is   *)
(* no room.  A node whose own group has the id 0 takes its parent's.       *)

GroupsWith(name) ==
  IF name \in Range(groups) \/ Len(groups) >= MaxGroups
    THEN groups
    ELSE Append(groups, name)

GroupId(name) ==
  IF name \in Range(GroupsWith(name))
    THEN (CHOOSE i \in DOMAIN GroupsWith(name) : GroupsWith(name)[i] = name) - 1
    ELSE 0

GroupFor(name, parent) ==
  IF GroupId(name) = 0 THEN tree[parent].group ELSE GroupId(name)

(* EnterScope: find the child of that name below the cursor or make it,    *)
(* move there and enter it.                                                *)
EnterScope(name) ==
  /\ open < MaxScopes /\ nesting < MaxNesting
  /\ open' = open + 1
  /\ \/ /\ enabled = 0
        /\ UNCHANGED <<scopeVars, overflowed>>
     \/ LET p == Append(cursor, name)
            node == NewNode(GroupFor(GroupOf[name], cursor))
        IN
        /\ enabled > 0
        /\ p \in DOMAIN tree \/ Len(age) < MaxNodes
        /\ IF p \in DOMAIN tree
             THEN /\ EnterNode(tree, p)
                  /\ UNCHANGED <<age, groups>>
             ELSE /\ EnterNode([q \in DOMAIN tree \union {p} |->
                                  IF q = p THEN node ELSE tree[q]], p)
                  /\ age' = Append(age, p)
                  /\ groups' = GroupsWith(GroupOf[name])
        /\ cursor' = p
        /\ nesting' = nesting + 1
        /\ atRoot' = FALSE
        /\ UNCHANGED enabled
  /\ ~paused
  /\ UNCHANGED <<now, regime, paused>>

(* ExitScope: leave the cursor's node, climb when its last entry is over.  *)
ExitScope ==
  /\ open > 0 /\ tree[Root].rec > -MaxStray
  /\ open' = open - 1
  /\ \/ enabled = 0 /\ UNCHANGED scopeVars
     \/ /\ enabled > 0
        /\ ExitNode(cursor)
        /\ cursor' = IF Leaves(cursor) /\ cursor # Root THEN Front(cursor) ELSE cursor
        /\ nesting' = IF nesting > 0 THEN nesting - 1 ELSE 0
        /\ atRoot' = (atRoot \/ cursor = Root \/ nesting' <= 1)
        /\ UNCHANGED <<enabled, age, groups>>
  /\ ~paused
  /\ UNCHANGED <<now, regime, paused, overflowed>>

-----------------------------------------------------------------------------
(* CVProfile::Start, Stop and Term.                                        *)

(* Where the caller may switch the profiler.                               *)
MaySwitch == ~paused /\ (regime = "straddling" \/ open = 0)

Start ==
  /\ MaySwitch
  /\ enabled < MaxStarts
  /\ enabled' = enabled + 1
  /\ IF enabled = 0
       THEN EnterNode(tree, Root)
       ELSE UNCHANGED <<tree, groupStack, overflowed>>
  /\ UNCHANGED <<cursor, age, groups, nesting, atRoot, now, regime, open, paused>>

Stop ==
  /\ MaySwitch
  /\ enabled' = IF enabled = 0 THEN 0 ELSE enabled - 1
  /\ IF enabled = 1 THEN ExitNode(Root) ELSE UNCHANGED <<tree, groupStack>>
  /\ UNCHANGED <<cursor, age, groups, nesting, atRoot, callerVars>>

(* Faulty: the cursor is left on a node that was freed.                    *)
TermKeepsCursor ==
  /\ MaySwitch
  /\ tree' = Restrict(tree, {Root})
  /\ age' = <<>>
  /\ nesting' = 0
  /\ atRoot' = TRUE
  /\ UNCHANGED <<enabled, cursor, groups, groupStack, callerVars>>

(* Free every node but the root, whose own counts stay, and go there.      *)
Term ==
  /\ MaySwitch
  /\ tree' = Restrict(tree, {Root})
  /\ age' = <<>>
  /\ cursor' = Root
  /\ nesting' = 0
  /\ atRoot' = TRUE
  /\ UNCHANGED <<enabled, groups, groupStack, callerVars>>

-----------------------------------------------------------------------------
(* Frames and time.  MarkFrame runs over the whole tree.                   *)

MarkFrame ==
  /\ regime # "straddling"
  /\ tree' = [p \in DOMAIN tree |->
                [tree[p] EXCEPT !.total = @ + tree[p].cur, !.cur = 0]]
  /\ UNCHANGED <<enabled, cursor, age, groups, groupStack, nesting, atRoot, callerVars>>

(* Pause and Resume go from a node to its first child only, the one made   *)
(* last: a node is reached when no sibling of it or of a node above it is  *)
(* younger.                                                                *)
Younger(p, q) == \E i, j \in DOMAIN age : i < j /\ age[i] = p /\ age[j] = q

FirstChild(p) == \A q \in Range(age) :
  Len(q) = Len(p) /\ Front(q) = Front(p) => ~Younger(p, q)

Reached(p) == \A i \in 1 .. Len(p) : FirstChild(SubSeq(p, 1, i))

Running == {p \in DOMAIN tree : Reached(p) /\ tree[p].rec > 0}

Pause ==
  /\ regime = "pausing" /\ ~paused
  /\ paused' = TRUE
  /\ tree' = [p \in DOMAIN tree |->
                IF p \in Running
                  THEN [tree[p] EXCEPT !.cur = @ + now - tree[p].start]
                  ELSE tree[p]]
  /\ UNCHANGED <<enabled, cursor, age, groups, groupStack, nesting, atRoot>>
  /\ UNCHANGED <<now, regime, open, overflowed>>

Resume ==
  /\ regime = "pausing" /\ paused
  /\ paused' = FALSE
  /\ tree' = [p \in DOMAIN tree |->
                IF p \in Running THEN [tree[p] EXCEPT !.start = now] ELSE tree[p]]
  /\ UNCHANGED <<enabled, cursor, age, groups, groupStack, nesting, atRoot>>
  /\ UNCHANGED <<now, regime, open, overflowed>>

(* Time passes; every node that is entered and not paused has run.         *)
Tick ==
  /\ regime # "straddling"
  /\ now < MaxTime
  /\ now' = now + 1
  /\ tree' = [p \in DOMAIN tree |->
                [tree[p] EXCEPT !.ran = IF tree[p].rec > 0 /\ ~paused THEN @ + 1 ELSE @]]
  /\ UNCHANGED <<enabled, cursor, age, groups, groupStack, nesting, atRoot>>
  /\ UNCHANGED <<regime, open, paused, overflowed>>

-----------------------------------------------------------------------------
ProfNext ==
  \/ \E name \in ScopeName : EnterScope(name)
  \/ ExitScope
  \/ Start
  \/ Stop
  \/ Term
  \/ MarkFrame
  \/ Pause
  \/ Resume
  \/ Tick

ProfSpec == ProfInit /\ [][ProfNext]_profVars

-----------------------------------------------------------------------------
(* The state is of the expected shape.                                     *)
ProfTypeOK ==
  /\ enabled \in 0 .. MaxStarts
  /\ nesting \in 0 .. MaxNesting
  /\ Len(groups) <= MaxGroups
  /\ Len(groupStack) \in 1 .. GroupDepth
  /\ Range(age) = DOMAIN tree \ {Root}
  /\ open \in 0 .. MaxScopes
  /\ now \in 0 .. MaxTime

(* Whatever the caller does, the nodes that are entered are those between  *)
(* the root and the cursor, each once, and all of them exist: the cursor   *)
(* never names a node Term has freed.                                      *)
EnteredIsPath ==
  /\ cursor \in DOMAIN tree
  /\ \A p \in DOMAIN tree \ {Root} :
       tree[p].rec = IF IsPrefix(p, cursor) THEN 1 ELSE 0

(* Whatever the caller does, the depth that decides what AtRoot answers is *)
(* the cursor's, and AtRoot answers yes at the root.                       *)
DepthIsCursor == nesting = Len(cursor) /\ (cursor = Root => atRoot)

(* Where scopes nest inside one Start and Stop, the root is entered once   *)
(* while the profiler is enabled, however often Start and Stop are called, *)
(* and not at all while it is disabled.                                    *)
RootEnteredOnce ==
  regime # "straddling" => tree[Root].rec = IF enabled > 0 THEN 1 ELSE 0

(* Where scopes nest inside one Start and Stop, and no group was refused,  *)
(* the group stack holds the groups of the entered nodes, the cursor's on  *)
(* top.                                                                    *)
GroupsFollowCursor ==
  regime # "straddling" /\ ~overflowed =>
    groupStack = <<0>>
      \o (IF enabled > 0 THEN <<tree[Root].group>> ELSE <<>>)
      \o [i \in 1 .. Len(cursor) |-> tree[SubSeq(cursor, 1, i)].group]

(* Where scopes nest inside one Start and Stop, a node that was left has   *)
(* the time it was entered for, spread over this frame and those marked,   *)
(* however often it was entered and a frame was marked in between.  With   *)
(* Pause and Resume this is so for the root, which both always reach.      *)
TimeIsTimeEntered ==
  \A p \in DOMAIN tree :
    tree[p].rec = 0 /\ (regime = "plain" \/ (regime = "pausing" /\ p = Root)) =>
      tree[p].cur + tree[p].total = tree[p].ran

(* The cursor names the node entered last, all the other accounts of where *)
(* the profiler is agree with it, the group stack among them, and a node   *)
(* has the time it was entered for: see the five above.                    *)
ProfInOrder ==
  /\ ProfTypeOK /\ EnteredIsPath /\ DepthIsCursor /\ RootEnteredOnce
  /\ GroupsFollowCursor /\ TimeIsTimeEntered

=============================================================================
