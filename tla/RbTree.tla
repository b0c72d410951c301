------------------------------- MODULE RbTree -------------------------------
(***************************************************************************)
(* The threaded red-black tree of cldm_rbtree.c, which orders the test     *)
(* records.  Insertion and removal rebalance on the way down, so they hold *)
(* on to a node and up to three of its ancestors; a link without a child   *)
(* is a thread to a neighbour in order, which only walking the tree needs. *)
(* The tree belongs to one thread, so an operation is one step.            *)
(***************************************************************************)
EXTENDS Integers, Sequences, FiniteSets

CONSTANTS
    Nodes,   \* the nodes callers own, a set of positive integers
    Key      \* [Nodes -> Int], what compare looks at

ASSUME NodesAssumption == Nodes \subseteq Nat \ {0}
ASSUME KeyAssumption   == Key \in [Nodes -> Int]

Keys == {Key[n] : n \in Nodes}

Sentinel == 0     \* tree->sentinel, whose left link is the root
Null     == -1
Gp       == -2    \* the nodes on the stack that stand in for ancestors
Ggp      == -3    \* the root does not have

Left  == 0
Right == 1
Dirs  == {Left, Right}

VARIABLES
    mem,     \* every node: its links, which of them are threads, its color
    size,    \* tree->size
    drained, \* history: are there nodes left after a removal
    reply    \* the last operation, its key and its result

vars == <<mem, size, drained, reply>>

Links(l, r)   == [d \in Dirs |-> IF d = Left THEN l ELSE r]
Threads(l, r) == Links(l, r)

\* A zeroed node, and one on the stack whose left link is set.
Blank    == [link |-> Links(Null, Null), thread |-> Threads(FALSE, FALSE), red |-> FALSE]
Above(n) == [Blank EXCEPT !.link[Left] = n]

Init ==
    /\ mem = [n \in Nodes \cup {Sentinel} |->
                IF n = Sentinel THEN [Blank EXCEPT !.thread = Threads(TRUE, TRUE)]
                                ELSE Blank]
    /\ size = 0
    /\ drained = FALSE
    /\ reply = [op |-> "none", key |-> 0, result |-> << >>]

-----------------------------------------------------------------------------
(* Operators on a memory m.                                                *)

Root(m)             == m[Sentinel].link[Left]
Link(m, n, d)       == m[n].link[d]
IsThread(m, n, d)   == m[n].thread[d]
SetLink(m, n, d, x) == [m EXCEPT ![n].link[d] = x]
Paint(m, n, red)    == [m EXCEPT ![n].red = red]
Empty(m)            == m[Sentinel].thread = Threads(TRUE, TRUE)

\* cldm_rbnode_is_red_safe: is there a red child in this direction?
RedChild(m, n, d) == ~IsThread(m, n, d) /\ m[Link(m, n, d)].red

\* Which link of p is n, as the code asks: the right one or else the left one.
DirOf(m, p, n) == IF m[p].link[Right] = n THEN Right ELSE Left

\* The sign of compare(n, node) picks the direction.
DirTo(n, k) == IF k > Key[n] THEN Right ELSE Left

\* Slip: the threads of the two nodes are left as they were.
RotateSingle_threads(m, root, d) ==
    LET n      == Link(m, root, 1 - d)
        moved  == SetLink(m, root, 1 - d, Link(m, n, d))
        turned == SetLink(moved, n, d, root)
    IN  Paint(Paint(turned, root, TRUE), n, FALSE)

\* cldm_rbtree_rotate_single: Link(m, root, 1 - d) becomes the top.
RotateSingle(m, root, d) ==
    LET n      == Link(m, root, 1 - d)
        moved  == IF IsThread(m, n, d)
                    THEN [m EXCEPT ![root].thread[1 - d] = TRUE,
                                   ![n].thread[d] = FALSE]
                    ELSE SetLink(m, root, 1 - d, Link(m, n, d))
        turned == SetLink(moved, n, d, root)
    IN  Paint(Paint(turned, root, TRUE), n, FALSE)

\* cldm_rbtree_rotate_double: InnerOf(m, root, d) becomes the top.
InnerOf(m, root, d) == Link(m, Link(m, root, 1 - d), d)

RotateDouble(m, root, d) ==
    RotateSingle(SetLink(RotateSingle(m, Link(m, root, 1 - d), 1 - d),
                         root, 1 - d, InnerOf(m, root, d)),
                 root, d)

\* Slip: the children of the node that turns red stay red.
BalanceInsertion_children(m, n, p, gp, ggp) == Paint(m, n, TRUE)

\* cldm_rbtree_balance_insertion.
BalanceInsertion(m, n, p, gp, ggp) ==
    LET red    == Paint(m, n, TRUE)
        inner  == \A d \in Dirs : ~IsThread(m, n, d)
        colors == IF inner THEN Paint(Paint(red, Link(m, n, Left), FALSE),
                                      Link(m, n, Right), FALSE)
                           ELSE red
        m1     == Paint(colors, gp, TRUE)
        gpdir  == DirOf(m1, gp, p)
        ggpdir == DirOf(m1, ggp, gp)
    IN  CASE ~colors[p].red -> colors
          [] colors[p].red /\ DirOf(m1, p, n) # gpdir ->
                Paint(SetLink(RotateDouble(m1, gp, 1 - gpdir), ggp, ggpdir,
                              InnerOf(m1, gp, 1 - gpdir)), n, FALSE)
          [] OTHER ->
                Paint(SetLink(RotateSingle(m1, gp, 1 - gpdir), ggp, ggpdir,
                              Link(m1, gp, gpdir)), p, FALSE)

\* cldm_rbtree_balance_removal: the memory, and the node p then stands for.
BalanceRemoval(m, n, p, gp, d) ==
    LET pdir    == DirOf(m, p, n)
        gpdir   == DirOf(m, gp, p)
        sibling == Link(m, p, 1 - pdir)
        outer   == RedChild(m, sibling, 1 - pdir)
        inner   == RedChild(m, sibling, pdir)
        \* p is rotated below a new top, and the four nodes recolored.
        Lifted(turned, top) ==
            LET hung == Paint(Paint(SetLink(turned, gp, gpdir, top), n, TRUE), top, TRUE)
            IN  Paint(Paint(hung, Link(hung, top, Left), FALSE),
                      Link(hung, top, Right), FALSE)
    IN  CASE RedChild(m, n, 1 - d) ->
                [mem |-> SetLink(RotateSingle(m, n, d), p, pdir, Link(m, n, 1 - d)),
                 p   |-> Link(m, n, 1 - d)]
          [] ~RedChild(m, n, 1 - d) /\ IsThread(m, p, 1 - pdir) -> [mem |-> m, p |-> p]
          [] OTHER ->
                [mem |-> IF inner THEN Lifted(RotateDouble(m, p, pdir), InnerOf(m, p, pdir))
                         ELSE IF outer THEN Lifted(RotateSingle(m, p, pdir), sibling)
                         ELSE Paint(Paint(Paint(m, n, TRUE), sibling, TRUE), p, FALSE),
                 p   |-> p]

-----------------------------------------------------------------------------
Reply(op, k, r) == reply' = [op |-> op, key |-> k, result |-> r]

\* The memory with the two nodes on the stack, and without them.
WithStack(m)    == [n \in DOMAIN m \cup {Gp, Ggp} |->
                      CASE n = Gp  -> Above(Sentinel)
                        [] n = Ggp -> Above(Gp)
                        [] OTHER   -> m[n]]
WithoutStack(m) == [n \in DOMAIN m \ {Gp, Ggp} |-> m[n]]

\* The node becomes a leaf below n and takes over n's thread.
Attached(m, node, n, d) ==
    [m EXCEPT ![node].thread = Threads(TRUE, TRUE),
              ![node].link   = [x \in Dirs |-> IF x = d THEN Link(m, n, d) ELSE n],
              ![n].link[d]   = node,
              ![n].thread[d] = FALSE]

\* The descent of cldm_rbtree_insert: the memory, and whether the key is new.
RECURSIVE Descend(_, _, _, _, _, _)
Descend(m, node, n, p, gp, ggp) ==
    LET m1 == IF \A d \in Dirs : RedChild(m, n, d)
                THEN BalanceInsertion(m, n, p, gp, ggp) ELSE m
        d  == DirTo(n, Key[node])
    IN  CASE Key[n] = Key[node] -> [mem |-> m1, new |-> FALSE]
          [] Key[n] # Key[node] /\ IsThread(m1, n, d) ->
                [mem |-> BalanceInsertion(Attached(m1, node, n, d), node, n, p, gp),
                 new |-> TRUE]
          [] OTHER -> Descend(m1, node, Link(m1, n, d), n, p, gp)

\* The first node of an empty tree.
Planted(m, node) ==
    [m EXCEPT ![node] = [link |-> Links(Sentinel, Sentinel),
                         thread |-> Threads(TRUE, TRUE), red |-> FALSE],
              ![Sentinel].link = Links(node, Sentinel),
              ![Sentinel].thread[Left] = FALSE]

\* cldm_rbtree_insert.  A removal leaves threads behind that an insertion
\* would hand on and a removal then mistake for children, so callers insert
\* (and walk) again only after removing every node or clearing the tree.
Insert(node) ==
    /\ ~drained
    /\ \/ /\ Empty(mem)
          /\ mem' = Planted(mem, node)
          /\ size' = 1
          /\ Reply("insert", Key[node], TRUE)
       \/ /\ ~Empty(mem)
          /\ LET r == Descend(WithStack(mem), node, Root(mem), Sentinel, Gp, Ggp)
             IN  /\ mem' = WithoutStack(Paint(r.mem, Root(r.mem), FALSE))
                 /\ size' = IF r.new THEN size + 1 ELSE size
                 /\ Reply("insert", Key[node], r.new)
    /\ UNCHANGED drained

\* cldm_rbtree_find: the node with the key, or Null.
RECURSIVE Search(_, _, _, _, _)
Search(m, k, n, p, d) ==
    CASE IsThread(m, p, d)                   -> Null
      [] ~IsThread(m, p, d) /\ Key[n] = k    -> n
      [] OTHER -> Search(m, k, Link(m, n, DirTo(n, k)), n, DirTo(n, k))

Find(k) ==
    /\ Reply("find", k, Search(mem, k, Root(mem), Sentinel, Left) # Null)
    /\ UNCHANGED <<mem, size, drained>>

\* cldm_rbtree_find_parent_of.
RECURSIVE ParentOf(_, _, _, _, _)
ParentOf(m, node, n, p, d) ==
    IF IsThread(m, p, d) \/ n = node THEN p
    ELSE ParentOf(m, node, Link(m, n, DirTo(n, Key[node])), n, DirTo(n, Key[node]))

\* The descent of cldm_rbtree_remove, down to a node p without a child in
\* direction dir; found is the node with the key, if it was met.
RECURSIVE Sink(_, _, _, _, _, _, _)
Sink(m, k, n, p, gp, dir, found) ==
    IF IsThread(m, p, dir)
      THEN [mem |-> m, p |-> p, gp |-> gp, dir |-> dir, found |-> found]
      ELSE LET d == DirTo(n, k)
               b == IF ~m[n].red /\ ~RedChild(m, n, d)
                      THEN BalanceRemoval(m, n, p, gp, d)
                      ELSE [mem |-> m, p |-> p]
           IN  Sink(b.mem, k, Link(b.mem, n, d), n, b.p, d,
                    IF Key[n] = k THEN n ELSE found)

\* p takes the place of the node that was found.
Replaced(s) ==
    LET m       == s.mem
        found   == s.found
        p       == s.p
        fparent == ParentOf(m, found, Root(m), Sentinel, Left)
        fdir    == DirOf(m, fparent, found)
        gpdir   == DirOf(m, s.gp, p)
        flagged == [m EXCEPT ![s.gp].thread[gpdir] = m[p].thread[gpdir]]
        moved   == [flagged EXCEPT
                      ![p].link   = [d \in Dirs |-> IF flagged[found].link[d] = p
                                                      THEN Sentinel
                                                      ELSE flagged[found].link[d]],
                      ![p].red    = flagged[found].red,
                      ![p].thread = flagged[found].thread]
        hung    == SetLink(moved, fparent, fdir, p)
        closed  == SetLink(hung, s.gp, gpdir, Link(hung, p, s.dir))
    IN  [closed EXCEPT ![found] = Blank]

\* cldm_rbtree_remove.
Remove(k) ==
    /\ \/ /\ Root(mem) = Null
          /\ Reply("remove", k, FALSE)
          /\ UNCHANGED <<mem, size, drained>>
       \/ /\ Root(mem) # Null
          /\ LET s  == Sink(WithStack(mem), k, Root(mem), Sentinel, Gp, Left, Null)
                 m1 == IF s.found = Null THEN s.mem ELSE Replaced(s)
                 m2 == IF IsThread(m1, Sentinel, Left) THEN m1
                       ELSE Paint(m1, Root(m1), FALSE)
             IN  /\ mem' = WithoutStack(m2)
                 /\ size' = IF s.found = Null THEN size ELSE size - 1
                 /\ drained' = (~Empty(m1) /\ (drained \/ s.found # Null))
                 /\ Reply("remove", k, s.found # Null)

\* cldm_rbtree_clear.  The root link stays; what the nodes hold is written
\* before it is read again, so the model forgets it.
Clear ==
    /\ mem' = [n \in DOMAIN mem |->
                 IF n = Sentinel THEN [mem[n] EXCEPT !.thread = Threads(TRUE, TRUE)]
                                 ELSE Blank]
    /\ size' = 0
    /\ drained' = FALSE
    /\ Reply("clear", 0, TRUE)

\* cldm_rbtree_leftmost and cldm_rbnode_successor.
RECURSIVE Leftmost(_, _)
Leftmost(m, n) == IF IsThread(m, n, Left) THEN n ELSE Leftmost(m, Link(m, n, Left))

Successor(m, n) == IF IsThread(m, n, Right) THEN Link(m, n, Right)
                   ELSE Leftmost(m, Link(m, n, Right))

\* cldm_rbtree_for_each: the keys in the order visited.  A walk that goes
\* on after as many nodes as there are never ends.
RECURSIVE Visit(_, _, _)
Visit(m, n, seen) ==
    IF n = Sentinel \/ Len(seen) > Cardinality(Nodes) THEN seen
    ELSE Visit(m, Successor(m, n), Append(seen, Key[n]))

WalkTree ==
    /\ ~drained
    /\ Reply("walk", 0, IF size = 0 THEN << >>
                        ELSE Visit(mem, Leftmost(mem, Root(mem)), << >>))
    /\ UNCHANGED <<mem, size, drained>>

Next ==
    \/ \E n \in Nodes : Insert(n)
    \/ \E k \in Keys : Find(k) \/ Remove(k)
    \/ Clear
    \/ WalkTree

Spec == Init /\ [][Next]_vars

-----------------------------------------------------------------------------
(* Correctness.                                                            *)

\* The nodes below n.
RECURSIVE Under(_)
Under(n) == {n} \cup UNION {Under(Link(mem, n, d)) :
                               d \in {x \in Dirs : ~IsThread(mem, n, x)}}

InTree == IF Empty(mem) THEN {} ELSE Under(Root(mem))

\* The black nodes on every path from n to a missing child, or -1 where two
\* paths differ.
RECURSIVE BlackHeight(_)
BlackHeight(n) ==
    LET h == [d \in Dirs |-> IF IsThread(mem, n, d) THEN 0
                             ELSE BlackHeight(Link(mem, n, d))]
    IN  IF h[Left] = -1 \/ h[Left] # h[Right] THEN -1
        ELSE h[Left] + (IF mem[n].red THEN 0 ELSE 1)

\* After any insertions and removals the tree is balanced: a black root, no
\* red node with a red child, and the same number of black nodes on every
\* way down.
RedBlack ==
    ~Empty(mem) =>
        /\ ~mem[Root(mem)].red
        /\ \A n \in InTree : mem[n].red => \A d \in Dirs : ~RedChild(mem, n, d)
        /\ BlackHeight(Root(mem)) # -1

Abstract == INSTANCE OrderedSet WITH content <- {Key[n] : n \in InTree}

\* The tree answers every call as an ordered set would: the threads that the
\* rotations move about always lead a walk to the next greater key, and a
\* removal takes out the node with the key and no other.
ImplementsOrderedSet == Abstract!OrderedSpec
=============================================================================
