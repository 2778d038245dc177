----------------------------- MODULE MinTimeTree -----------------------------
(***************************************************************************)
(* The min-time resource tree of planner/planner.c: a red-black tree of    *)
(* scheduled points ordered by the amount free at them, in which each node *)
(* also keeps the least time of its subtree.  A point is its time, so      *)
(* point->at is the point itself.  `key` gives the amounts: the nodes hold *)
(* pointers to the points, so an amount that changes while its point is in *)
(* the tree changes under the tree's feet.                                 *)
(*                                                                         *)
(* The rebalancing is that of planner/rbtree.c, whose mirrored halves are  *)
(* one operator here: a side and its opposite.                             *)
(***************************************************************************)
EXTENDS Integers, FiniteSets, SequencesExt

Nil   == -1
Left  == "left"
Right == "right"
Opposite(side) == IF side = Left THEN Right ELSE Left

EmptyTree ==
    [root |-> Nil, kid |-> <<>>, up |-> <<>>, red |-> <<>>, subtree_min |-> <<>>]

Nodes(t) == DOMAIN t.up
IsRed(t, n) == n # Nil /\ t.red[n]

\* The side of its parent on which n hangs.
Side(t, n) == IF t.kid[t.up[n]][Right] = n THEN Right ELSE Left

\* Faulty: forgets the right subtree.
SubtreeMinOfLeft(t, n) ==
    Min({n} \cup {t.subtree_min[k] : k \in {t.kid[n][Left]} \ {Nil}})

\* mintime_resource_subtree_min.
SubtreeMin(t, n) ==
    Min({n} \cup {t.subtree_min[k] : k \in {t.kid[n][Left], t.kid[n][Right]} \ {Nil}})

\* Hang n (or nothing) on a side of p, or at the root when p is Nil.
Hang(t, n, p, side) ==
    LET s == IF p = Nil THEN [t EXCEPT !.root = n] ELSE [t EXCEPT !.kid[p][side] = n]
    IN  IF n = Nil THEN s ELSE [s EXCEPT !.up[n] = p]

\* __rb_change_child: n takes the place of old.
Replace(t, old, n) ==
    LET p == t.up[old]
    IN  Hang(t, n, p, IF p = Nil THEN Left ELSE Side(t, old))

\* A rotation at p, and mintime_resource_rotate: its child n takes its place,
\* p takes the child of n that lies between them.
Renewed(t, n) == [t EXCEPT !.subtree_min[n] = SubtreeMin(t, n)]
Rotate(t, p, n) ==
    LET side  == Side(t, n)
        inner == t.kid[n][Opposite(side)]
        s     == Hang(Hang(Replace(t, p, n), inner, p, side), p, n, Opposite(side))
    IN  Renewed([s EXCEPT !.subtree_min[n] = t.subtree_min[p]], p)

\* mintime_resource_propagate: up from n, until nothing changes or at `stop`.
RECURSIVE Propagate(_, _, _)
Propagate(t, n, stop) ==
    IF n = stop \/ t.subtree_min[n] = SubtreeMin(t, n) THEN t
    ELSE Propagate(Renewed(t, n), t.up[n], stop)

-----------------------------------------------------------------------------
(* mintime_resource_insert. *)

\* __rb_insert: mend two reds in a row, at n and its parent.
RECURSIVE MendInsert(_, _)
MendInsert(t, n) ==
    LET p     == t.up[n]
        g     == t.up[p]
        side  == Side(t, p)
        uncle == t.kid[g][Opposite(side)]
        inner == Side(t, n) # side
        top   == IF inner THEN n ELSE p
    IN  CASE p = Nil         -> [t EXCEPT !.red[n] = FALSE]
          [] p # Nil /\ ~IsRed(t, p) -> t
          [] OTHER ->
               IF IsRed(t, uncle)
               THEN MendInsert([t EXCEPT !.red[uncle] = FALSE, !.red[p] = FALSE,
                                         !.red[g] = TRUE], g)
               ELSE [Rotate(IF inner THEN Rotate(t, p, n) ELSE t, g, top)
                        EXCEPT !.red[top] = FALSE, !.red[g] = TRUE]

\* Down from n to a free place for `new`, lowering the minima on the way.
RECURSIVE Descend(_, _, _, _)
Descend(t, n, new, key) ==
    LET s    == [t EXCEPT !.subtree_min[n] = Min({@, new})]
        side == IF key[new] < key[n] THEN Left ELSE Right
    IN  IF t.kid[n][side] = Nil THEN Hang(s, new, n, side)
        ELSE Descend(s, t.kid[n][side], new, key)

Insert(t, new, key) ==
    LET s == [root |-> t.root,
              kid  |-> (new :> (Left :> Nil @@ Right :> Nil)) @@ t.kid,
              up   |-> (new :> Nil) @@ t.up,
              red  |-> (new :> TRUE) @@ t.red,
              subtree_min |-> (new :> new) @@ t.subtree_min]
    IN  MendInsert(IF t.root = Nil THEN Hang(s, new, Nil, Left)
                                   ELSE Descend(s, t.root, new, key), new)

-----------------------------------------------------------------------------
(* mintime_resource_remove. *)

\* Case 1 of ____rb_erase_color: a red sibling is rotated away.
BlackSibling(t, p, other) ==
    IF IsRed(t, other)
    THEN [Rotate(t, p, other) EXCEPT !.red[other] = t.red[p], !.red[p] = TRUE]
    ELSE t

\* Case 3: the red child of the sibling must be the far one.
FarChildRed(t, sib, near, far) == IF IsRed(t, far) THEN t ELSE Rotate(t, sib, near)

\* Case 4: the sibling moves up, and its far child pays for the shortage.
LiftSibling(t, p, sib, away) ==
    [Rotate(t, p, sib) EXCEPT !.red[sib] = t.red[p], !.red[p] = FALSE,
                              !.red[t.kid[sib][away]] = FALSE]

\* The subtree on this side of p is one black short: what to do once its
\* sibling is black, with the shortage handed up in case 2 unless p was red.
RECURSIVE MendSide(_, _, _)
MendSide(t, p, side) ==
    LET away == Opposite(side)
        sib  == t.kid[p][away]
        near == t.kid[sib][side]
        far  == t.kid[sib][away]
        up   == t.up[p]
    IN  CASE IsRed(t, near) \/ IsRed(t, far) ->
               LiftSibling(FarChildRed(t, sib, near, far), p,
                           IF IsRed(t, far) THEN sib ELSE near, away)
          [] OTHER ->
               IF IsRed(t, p) \/ up = Nil
               THEN [t EXCEPT !.red[sib] = TRUE, !.red[p] = FALSE]
               ELSE LET above == Side(t, p)
                    IN  MendSide(BlackSibling([t EXCEPT !.red[sib] = TRUE], up,
                                              t.kid[up][Opposite(above)]), up, above)

\* ____rb_erase_color: nothing hangs where a black node did, below p.
MendErase(t, p) ==
    LET side == IF t.kid[p][Right] = Nil THEN Right ELSE Left
    IN  MendSide(BlackSibling(t, p, t.kid[p][Opposite(side)]), p, side)

RECURSIVE Leftmost(_, _)
Leftmost(t, n) == IF t.kid[n][Left] = Nil THEN n ELSE Leftmost(t, t.kid[n][Left])

Forget(t, n) ==
    LET rest == Nodes(t) \ {n}
    IN  [root |-> t.root, kid |-> Restrict(t.kid, rest), up |-> Restrict(t.up, rest),
         red  |-> Restrict(t.red, rest), subtree_min |-> Restrict(t.subtree_min, rest)]

\* Faulty: a black node taken out leaves its side short.
MendNever(short, t, p) == t

\* rb_erase_augmented: mend the tree if a side has become short.
MendIf(short, t, p) == IF short THEN MendErase(t, p) ELSE t

\* __rb_erase_augmented of a node with at most one child, which takes its
\* place and its color.
EraseOuter(t, n) ==
    LET child == IF t.kid[n][Left] # Nil THEN t.kid[n][Left] ELSE t.kid[n][Right]
        p     == t.up[n]
        s     == Replace([t EXCEPT !.red = [k \in DOMAIN @ |-> @[IF k = child THEN n ELSE k]]],
                         n, child)
    IN  MendIf(child = Nil /\ ~t.red[n] /\ p # Nil, Propagate(s, p, Nil), p)

\* The successor of n leaves its place, and takes the right child of n.
Unlinked(t, n, next) ==
    IF next = t.kid[n][Right] THEN t
    ELSE Propagate(Hang(Hang(t, t.kid[next][Right], t.up[next], Left),
                        t.kid[n][Right], next, Right),
                   t.up[next], next)

\* ... and of one with two: its successor takes its place.
EraseInner(t, n) ==
    LET next   == Leftmost(t, t.kid[n][Right])
        child  == t.kid[next][Right]
        copied == [t EXCEPT !.subtree_min[next] = t.subtree_min[n]]
        linked == Replace(Hang(Unlinked(copied, n, next), t.kid[n][Left], next, Left), n, next)
        reds   == [k \in Nodes(t) |-> CASE k = next  -> t.red[n]
                                        [] k = child -> FALSE
                                        [] OTHER     -> t.red[k]]
    IN  MendIf(child = Nil /\ ~t.red[next],
               Propagate([linked EXCEPT !.red = reds], next, Nil),
               IF next = t.kid[n][Right] THEN next ELSE t.up[next])

Erase(t, n) ==
    Forget(IF Nil \in {t.kid[n][Left], t.kid[n][Right]} THEN EraseOuter(t, n)
                                                        ELSE EraseInner(t, n), n)

-----------------------------------------------------------------------------
(* mintime_resource_mintime: the search. *)

\* right_branch_mintime: the least time at n and in its right subtree.
RightBranchMin(t, n) ==
    Min({n} \cup {t.subtree_min[k] : k \in {t.kid[n][Right]} \ {Nil}})

\* Faulty: does not look for an earlier point among those with less free.
AnchorOfFirstFit(t, n, count, key, best) ==
    IF count <= key[n] THEN [anchor |-> n, time |-> RightBranchMin(t, n)] ELSE best

\* find_mintime_anchor, from n down: the best so far is the least time seen
\* and the node whose right branch has it.
RECURSIVE FindAnchor(_, _, _, _, _)
FindAnchor(t, n, count, key, best) ==
    IF n = Nil THEN best
    ELSE IF count <= key[n]
    THEN LET time == RightBranchMin(t, n)
         IN  FindAnchor(t, t.kid[n][Left], count, key,
                        IF best.anchor = Nil \/ time < best.time
                        THEN [anchor |-> n, time |-> time] ELSE best)
    ELSE FindAnchor(t, t.kid[n][Right], count, key, best)

\* find_mintime_point, from the right child of the anchor down.
RECURSIVE FindPoint(_, _, _)
FindPoint(t, n, time) ==
    LET left == IF n = Nil THEN Nil ELSE t.kid[n][Left]
    IN  IF n \in {Nil, time} THEN n
        ELSE FindPoint(t, IF left # Nil /\ t.subtree_min[left] = time
                          THEN left ELSE t.kid[n][Right], time)

\* The point found, or Nil.
Mintime(t, count, key) ==
    LET best == FindAnchor(t, t.root, count, key, [anchor |-> Nil, time |-> Nil])
    IN  IF best.anchor \in {Nil, best.time} THEN best.anchor
        ELSE FindPoint(t, t.kid[best.anchor][Right], best.time)

-----------------------------------------------------------------------------
(* What a tree should be. *)

RECURSIVE Under(_, _)
Under(t, n) == IF n = Nil THEN {} ELSE {n} \cup Under(t, t.kid[n][Left]) \cup Under(t, t.kid[n][Right])

\* The number of black nodes on the way down to a leaf, -1 if it varies.
RECURSIVE BlackHeight(_, _)
BlackHeight(t, n) ==
    IF n = Nil THEN 0
    ELSE LET l == BlackHeight(t, t.kid[n][Left])
             r == BlackHeight(t, t.kid[n][Right])
         IN  IF l # r \/ l = -1 THEN -1 ELSE l + IF t.red[n] THEN 0 ELSE 1

\* The links agree, every node is in the tree, and it is a red-black tree.
WellFormed(t) ==
    /\ \A n \in Nodes(t) :
           \A side \in {Left, Right} :
               t.kid[n][side] # Nil => t.up[t.kid[n][side]] = n
    /\ t.root # Nil => t.up[t.root] = Nil
    /\ Under(t, t.root) = Nodes(t)
    /\ ~IsRed(t, t.root)
    /\ \A n \in Nodes(t) : t.red[n] => ~IsRed(t, t.kid[n][Left]) /\ ~IsRed(t, t.kid[n][Right])
    /\ BlackHeight(t, t.root) # -1

\* Every node knows the least time of its subtree.
MinimaExact(t) == \A n \in Nodes(t) : t.subtree_min[n] = Min(Under(t, n))

\* Every node has at least the amount of those on its left, and no more than
\* those on its right.
Ordered(t, key) ==
    \A n \in Nodes(t) :
        /\ \A l \in Under(t, t.kid[n][Left]) : key[l] <= key[n]
        /\ \A r \in Under(t, t.kid[n][Right]) : key[n] <= key[r]
=============================================================================
