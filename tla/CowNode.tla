------------------------------- MODULE CowNode -------------------------------
(***************************************************************************)
(* The nodes of the copy-on-write radix tree and what one step does to      *)
(* them: copying (writeNode), edges, the routes of a leaf, splitting and    *)
(* merging.  Nodes live in a store and are shared by address between the    *)
(* published tree, snapshots and the transaction that writes, so that an    *)
(* in-place write to a shared node shows in the model.  The store is        *)
(*   s = [nodes, lru, names]                                                *)
(* (the heap, tXn.writable from most to least recently used, tXn.names),    *)
(* and an operator that returns a node returns [s, n]: the store after the  *)
(* call, also when the call fails, and the node, Nil for an error.          *)
(*                                                                          *)
(* Static edges are a function of their label: the code keeps them sorted   *)
(* by label and finds them by binary search.                                *)
(***************************************************************************)
EXTENDS RouteTable, SequencesExt

CONSTANT CacheSize    \* defaultModifiedCache

ASSUME CacheSizeAssumption == CacheSize \in Nat \ {0}

Nil   == 0            \* the nil *node; addresses are positive
Slash == "/"

-----------------------------------------------------------------------------
(* Nodes *)

NoEdges == [l \in {} |-> Nil]

Node(label, key, host, routes) ==
    [label |-> label, key |-> key, host |-> host, nested |-> FALSE, routes |-> routes,
     statics |-> NoEdges, params |-> <<>>, wildcards |-> <<>>]

NewRoot == Node("", <<>>, FALSE, <<>>)
StaticNode(key, host, routes) == Node(Head(key), key, host, routes)
BraceNode(tk) == [Node("", CanonicalKey(tk), FALSE, <<>>) EXCEPT !.nested = tk.nested]

IsLeaf(x) == x.routes # <<>>

Dead(x)   == ~IsLeaf(x) /\ DOMAIN x.statics = {} /\ x.params = <<>> /\ x.wildcards = <<>>
Chain(x)  == /\ ~IsLeaf(x) /\ Cardinality(DOMAIN x.statics) = 1
             /\ x.params = <<>> /\ x.wildcards = <<>>

FreshId(used) == CHOOSE i \in 1 .. Cardinality(used) + 1 : i \notin used

Res(s, n) == [s |-> s, n |-> n]

\* f with k mapped to v, whether or not f had it.
Put(f, k, v) == [z \in DOMAIN f \cup {k} |-> IF z = k THEN v ELSE f[z]]

StoredAt(s, id, x) == Res([s EXCEPT !.nodes = Put(@, id, x)], id)
New(s, x) == StoredAt(s, FreshId(DOMAIN s.nodes), x)

Truncated(q, k) == SubSeq(q, 1, IF Len(q) < k THEN Len(q) ELSE k)

Cached(c) == Res([c.s EXCEPT !.lru = Truncated(<<c.n>> \o @, CacheSize)], c.n)

\* LRU.Get: the entry becomes the most recently used one.
ToFront(q, n) == <<n>> \o RemoveAt(q, CHOOSE i \in DOMAIN q : q[i] = n)

\* A node already copied by this transaction is written in place; any other
\* one is copied, and the copy may push the oldest one out of the cache.
WriteNode(s, n) ==
    IF n \in ToSet(s.lru)
    THEN Res([s EXCEPT !.lru = ToFront(@, n)], n)
    ELSE Cached(New(s, s.nodes[n]))

-----------------------------------------------------------------------------
(* Edges *)

\* addStaticEdge, replaceStaticEdge and statics[idx] = child.
SetStaticEdge(s, n, c) ==
    [s EXCEPT !.nodes[n].statics = Put(@, s.nodes[c].label, c)]

DelStaticEdge(s, n, label) ==
    [s EXCEPT !.nodes[n].statics = [l \in DOMAIN @ \ {label} |-> @[l]]]

Edges(tk) == IF tk.typ = "param" THEN "params" ELSE "wildcards"
Plain(f)  == IF f = "params" THEN "?" ELSE "*"

FirstOf(indices) == IF indices = {} THEN 0 ELSE Min(indices)

\* Index of the edge with this key, 0 if there is none.
GetEdge(s, n, f, key) ==
    FirstOf({i \in DOMAIN s.nodes[n][f] : s.nodes[s.nodes[n][f][i]].key = key})

\* Appends, then swaps with the plain edge so that it stays last.
AddEdge(s, n, f, c) ==
    LET es   == Append(s.nodes[n][f], c)
        last == Len(es)
        i    == GetEdge(s, n, f, Plain(f))
    IN  [s EXCEPT !.nodes[n][f] =
            IF s.nodes[c].key = Plain(f) \/ i = 0 THEN es
            ELSE [es EXCEPT ![i] = es[last], ![last] = es[i]]]

-----------------------------------------------------------------------------
(* The routes of a leaf *)

\* Routes with methods come before routes without, then routes with matchers
\* before routes without, then the higher priority first.
Precedes(q, r) ==
    \/ q.methods # {} /\ r.methods = {}
    \/ /\ (q.methods = {}) = (r.methods = {})
       /\ \/ q.matchers # {} /\ r.matchers = {}
          \/ (q.matchers = {}) = (r.matchers = {}) /\ q.priority >= r.priority

InOrder(rs) == \A i, j \in DOMAIN rs : i < j => Precedes(rs[i], rs[j])

\* The first index before which a route goes: methods before none, matchers
\* before none, higher priority first.
InsertPosition(rs, r) ==
    LET before(q) ==
            \/ r.methods # {} /\ q.methods = {}
            \/ /\ (r.methods # {}) = (q.methods # {})
               /\ r.matchers # {}
               /\ q.matchers = {} \/ r.priority > q.priority
        i == FirstOf({k \in DOMAIN rs : before(rs[k])})
    IN  IF i = 0 THEN Len(rs) + 1 ELSE i

AddRoute(rs, r) ==
    IF r.methods = {} /\ r.matchers = {} THEN Append(rs, r)
    ELSE InsertAt(rs, InsertPosition(rs, r), r)

\* Mutant of ReplaceRoute: a new priority does not move the route.
ReplaceInPlace(rs, i, r) == [rs EXCEPT ![i] = r]

ReplaceRoute(rs, i, r) ==
    IF rs[i].priority = r.priority \/ r.matchers = {} THEN [rs EXCEPT ![i] = r]
    ELSE LET others == RemoveAt(rs, i)
         IN  InsertAt(others, InsertPosition(others, r), r)

-----------------------------------------------------------------------------
(* Splitting and merging *)

LongestPrefix(k1, k2) ==
    CHOOSE n \in 0 .. Len(k1) :
        /\ n <= Len(k2) /\ SubSeq(k1, 1, n) = SubSeq(k2, 1, n)
        /\ n < Len(k1) /\ n < Len(k2) => k1[n + 1] # k2[n + 1]

Drop(q, k) == SubSeq(q, k + 1, Len(q))

\* The node w.n, already written, gets the static child c.
WithChild(w, c) == Res(SetStaticEdge(w.s, w.n, c), w.n)

\* The node m.n gives up the first k characters of its key.
Shortened(m, k) ==
    LET rest == Drop(m.s.nodes[m.n].key, k)
    IN  Res([m.s EXCEPT !.nodes[m.n].key = rest, !.nodes[m.n].label = Head(rest)], m.n)

\* sp takes the first characters of child's key and child below it.
TakeOver(w, child, sp) ==
    LET m == Shortened(WriteNode(w.s, child), Len(w.s.nodes[sp].key))
    IN  Res(SetStaticEdge(m.s, sp, m.n), w.n)

\* Puts the node sp between n and its child.
Splice(s, n, child, sp) == TakeOver(WithChild(WriteNode(s, n), sp), child, sp)

\* The same with a second child of sp, c.
Branch(s, n, child, sp, c) ==
    LET x == Splice(s, n, child, sp) IN Res(SetStaticEdge(x.s, sp, c), x.n)

\* Splice and Branch with a node that is still to be allocated.
SpliceAt(sp, n, child) == Splice(sp.s, n, child, sp.n)
SpliceNew(s, n, child, x) == SpliceAt(New(s, x), n, child)

SpliceOver(x, n, child) == IF x.n = Nil THEN x ELSE SpliceAt(x, n, child)
SpliceNamed(x, n, child, sp) == IF x.n = Nil THEN x ELSE SpliceNew(x.s, n, child, sp)

BranchAt(sp, n, child, c) == Branch(sp.s, n, child, sp.n, c)
BranchNew(x, n, child, sp) ==
    IF x.n = Nil THEN x ELSE BranchAt(New(x.s, sp), n, child, x.n)

\* Mutant of MergeChild: the boundary between host and path is not kept.
MergeAcrossHost(s, n) ==
    LET x == s.nodes[n]
        c == s.nodes[x.statics[CHOOSE l \in DOMAIN x.statics : TRUE]]
    IN  IF x.label = "" THEN s
        ELSE [s EXCEPT !.nodes[n] = [c EXCEPT !.label = x.label, !.host = x.host,
                                              !.key = x.key \o c.key]]

\* Collapses a non-leaf node with its only edge, a static one.
MergeChild(s, n) ==
    LET x == s.nodes[n]
        c == s.nodes[x.statics[CHOOSE l \in DOMAIN x.statics : TRUE]]
    IN  IF x.label = "" \/ (x.host /\ Head(c.key) = Slash) THEN s
        ELSE [s EXCEPT !.nodes[n] = [c EXCEPT !.label = x.label, !.host = x.host,
                                              !.key = x.key \o c.key]]

\* The child of n was replaced by x.n: n's copy gets the new edge.
LinkStatic(x, n) == IF x.n = Nil THEN x ELSE WithChild(WriteNode(x.s, n), x.n)

WithBrace(w, f, i, c) ==
    Res(IF i = 0 THEN AddEdge(w.s, w.n, f, c) ELSE [w.s EXCEPT !.nodes[w.n][f][i] = c], w.n)

LinkBrace(x, n, f, i) ==
    IF x.n = Nil THEN x ELSE WithBrace(WriteNode(x.s, n), f, i, x.n)

\* The same after a deletion below n, w its copy: dropped is the store without
\* the edge, for an empty child, and n is merged with its last static child if
\* that leaves a chain; kept is the store with the new child.
Unlink(child, root, n, w, dropped, kept) ==
    Res(IF ~Dead(w.s.nodes[child]) THEN kept
        ELSE IF n # root /\ Chain(dropped.nodes[w.n]) THEN MergeChild(dropped, w.n)
        ELSE dropped, w.n)

UnlinkStatic(x, root, n, label) ==
    IF x.n = Nil THEN x
    ELSE LET w == WriteNode(x.s, n)
         IN  Unlink(x.n, root, n, w, DelStaticEdge(w.s, w.n, label),
                    SetStaticEdge(w.s, w.n, x.n))

UnlinkBrace(x, root, n, f, i) ==
    IF x.n = Nil THEN x
    ELSE LET w == WriteNode(x.s, n)
         IN  Unlink(x.n, root, n, w, [w.s EXCEPT !.nodes[w.n][f] = RemoveAt(@, i)],
                    [w.s EXCEPT !.nodes[w.n][f][i] = x.n])

\* The route of a leaf is gone; n is written and merged if that leaves a chain.
DropRoutes(s, root, n, routes) ==
    LET w == WriteNode(s, n)
        d == [w.s EXCEPT !.nodes[w.n].routes = routes]
    IN  Res(IF n # root /\ Chain(d.nodes[w.n]) THEN MergeChild(d, w.n) ELSE d, w.n)

\* The name of a route is settled: the routes of n change.
WithRoutes(w, rs) == Res([w.s EXCEPT !.nodes[w.n].routes = rs], w.n)
SetRoutes(x, n, rs) == IF x.n = Nil THEN x ELSE WithRoutes(WriteNode(x.s, n), rs)

\* x is the new root of the names tree.
Named(x) == IF x.n = Nil THEN x ELSE Res([x.s EXCEPT !.names = x.n], x.n)

=============================================================================
