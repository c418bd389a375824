------------------------------- MODULE CowTree -------------------------------
(***************************************************************************)
(* The operations of a tree transaction, tXn in tree.go, on the nodes of    *)
(* module CowNode: recursive insertion and deletion in the names tree and   *)
(* in the patterns tree, the method counters, snapshots, and the searches   *)
(* of Txn.Route and Txn.Name.                                               *)
(***************************************************************************)
EXTENDS CowNode

-----------------------------------------------------------------------------
(* The names tree *)

RECURSIVE InsertNameIn(_, _, _, _, _)
InsertNameIn(s, n, search, route, mode) ==
    IF search = <<>> THEN
        IF IsLeaf(s.nodes[n]) /\ mode # "update" THEN Res(s, Nil)
        ELSE WithRoutes(WriteNode(s, n), <<route>>)
    ELSE IF Head(search) \notin DOMAIN s.nodes[n].statics THEN
        LinkStatic(New(s, StaticNode(search, FALSE, <<route>>)), n)
    ELSE
    LET child == s.nodes[n].statics[Head(search)]
        key   == s.nodes[child].key
        k     == LongestPrefix(search, key)
        left  == Drop(search, k)
        split == StaticNode(SubSeq(search, 1, k), FALSE, <<>>)
    IN  IF k = Len(key) THEN LinkStatic(InsertNameIn(s, child, left, route, mode), n)
        ELSE IF left = <<>> THEN SpliceNew(s, n, child, [split EXCEPT !.routes = <<route>>])
        ELSE BranchNew(New(s, StaticNode(left, FALSE, <<route>>)), n, child, split)

\* Registers the name of a route; nothing to do for an unnamed one.
InsertName(s, route, mode) ==
    IF route.name = NoName THEN Res(s, s.names)
    ELSE Named(InsertNameIn(s, s.names, route.name, route, mode))

RECURSIVE DeleteNameIn(_, _, _, _)
DeleteNameIn(s, root, n, search) ==
    IF search = <<>> THEN
        IF IsLeaf(s.nodes[n]) THEN DropRoutes(s, root, n, <<>>) ELSE Res(s, Nil)
    ELSE IF Head(search) \notin DOMAIN s.nodes[n].statics THEN Res(s, Nil)
    ELSE
    LET child == s.nodes[n].statics[Head(search)]
        key   == s.nodes[child].key
    IN  IF ~IsPrefix(key, search) THEN Res(s, Nil)
        ELSE UnlinkStatic(DeleteNameIn(s, root, child, Drop(search, Len(key))),
                          root, n, Head(search))

DeleteName(s, route) ==
    IF route.name = NoName THEN s
    ELSE Named(DeleteNameIn(s, s.names, s.names, route.name)).s

\* Mutant of Rename: the old name is given up before the new one is taken.
RenameDeleteFirst(s, old, route) ==
    IF old.name = route.name THEN InsertName(s, route, "update")
    ELSE InsertName(DeleteName(s, old), route, "insert")

GiveUpName(x, old) == IF x.n = Nil THEN x ELSE Res(DeleteName(x.s, old), x.n)

\* The name of a route changes with an update: the new name is taken first,
\* the old one given up only if that succeeds.
Rename(s, old, route) ==
    IF old.name = route.name THEN InsertName(s, route, "update")
    ELSE GiveUpName(InsertName(s, route, "insert"), old)

-----------------------------------------------------------------------------
(* Insertion and update in the patterns tree *)

\* insertTokens, no token left, mode insert: p is n's parent.
Attach(s, p, n, route) ==
    LET clash(q) == q.matchers = route.matchers /\ Overlap(q.methods, route.methods)
        hides(e, c) == /\ e.matchers \subseteq c.matchers
                       /\ e.methods = {} \/ Overlap(e.methods, c.methods)
    IN  IF \/ \E q \in ToSet(s.nodes[n].routes) : clash(q)
           \/ /\ route.pattern.optionalCatchAll /\ p # Nil
              /\ \E q \in ToSet(s.nodes[p].routes) : hides(q, route)
           \/ \E c \in ToSet(s.nodes[n].wildcards) :
                 \E q \in ToSet(s.nodes[c].routes) :
                    q.pattern.optionalCatchAll /\ hides(route, q)
        THEN Res(s, Nil)
        ELSE SetRoutes(InsertName(s, route, "insert"), n, AddRoute(s.nodes[n].routes, route))

FindKey(rs, route) == FirstOf({i \in DOMAIN rs : SameKey(rs[i], route)})

\* insertTokens, no token left, mode update.
Replace(s, n, route) ==
    LET rs == s.nodes[n].routes
        i  == FindKey(rs, route)
    IN  IF i = 0 THEN Res(s, Nil)
        ELSE SetRoutes(Rename(s, rs[i], route), n, ReplaceRoute(rs, i, route))

RECURSIVE InsertTokens(_, _, _, _, _, _), InsertStatic(_, _, _, _, _, _, _),
          InsertBrace(_, _, _, _, _, _)

\* insertTokens on a node c.n that has just been allocated.
InsertBelow(c, n, remaining, route, mode) ==
    InsertTokens(c.s, n, c.n, remaining, route, mode)

InsertStatic(s, p, n, tk, remaining, route, mode) ==
    LET search == tk.value IN
    IF search = <<>> THEN InsertTokens(s, p, n, remaining, route, mode)
    ELSE IF Head(search) \notin DOMAIN s.nodes[n].statics THEN
        IF mode = "update" THEN Res(s, Nil)
        ELSE LinkStatic(InsertBelow(New(s, StaticNode(search, tk.hsplit, <<>>)), n,
                                    remaining, route, mode), n)
    ELSE
    LET child == s.nodes[n].statics[Head(search)]
        key   == s.nodes[child].key
        k     == LongestPrefix(search, key)
        left  == Drop(search, k)
        split == StaticNode(SubSeq(search, 1, k), tk.hsplit, <<>>)
    IN  IF k = Len(key) THEN
            LinkStatic(InsertTokens(s, n, child, <<[tk EXCEPT !.value = left]>> \o remaining,
                                    route, mode), n)
        ELSE IF mode = "update" THEN Res(s, Nil)
        ELSE IF left = <<>> /\ remaining # <<>> THEN
            SpliceOver(InsertBelow(New(s, split), n, remaining, route, mode), n, child)
        ELSE IF left = <<>> THEN
            SpliceNamed(InsertName(s, route, "insert"), n, child, [split EXCEPT !.routes = <<route>>])
        ELSE
            BranchNew(InsertBelow(New(s, StaticNode(left, tk.hsplit, <<>>)), n, remaining,
                                  route, mode), n, child, split)

\* insertParam and insertWildcard.
InsertBrace(s, n, tk, remaining, route, mode) ==
    LET f == Edges(tk)
        i == GetEdge(s, n, f, CanonicalKey(tk))
    IN  IF i = 0 /\ mode = "update" THEN Res(s, Nil)
        ELSE LinkBrace(InsertBelow(IF i = 0 THEN New(s, BraceNode(tk))
                                            ELSE Res(s, s.nodes[n][f][i]),
                                   n, remaining, route, mode), n, f, i)

InsertTokens(s, p, n, tokens, route, mode) ==
    IF tokens = <<>> THEN IF mode = "insert" THEN Attach(s, p, n, route)
                                             ELSE Replace(s, n, route)
    ELSE IF Head(tokens).typ = "static"
         THEN InsertStatic(s, p, n, Head(tokens), Tail(tokens), route, mode)
         ELSE InsertBrace(s, n, Head(tokens), Tail(tokens), route, mode)

-----------------------------------------------------------------------------
(* Deletion in the patterns tree *)

RECURSIVE DeleteTokens(_, _, _, _, _), DeleteStatic(_, _, _, _, _, _),
          DeleteBrace(_, _, _, _, _, _)

Detach(s, root, n, route) ==
    LET rs == s.nodes[n].routes
        i  == FindKey(rs, route)
        x  == DropRoutes(s, root, n, RemoveAt(rs, i))
    IN  IF i = 0 THEN Res(s, Nil) ELSE Res(DeleteName(x.s, rs[i]), x.n)

DeleteStatic(s, root, n, tk, remaining, route) ==
    IF tk.value = <<>> THEN DeleteTokens(s, root, n, remaining, route)
    ELSE IF Head(tk.value) \notin DOMAIN s.nodes[n].statics THEN Res(s, Nil)
    ELSE
    LET child == s.nodes[n].statics[Head(tk.value)]
        key   == s.nodes[child].key
        rest  == <<[tk EXCEPT !.value = Drop(@, Len(key))]>> \o remaining
    IN  IF ~IsPrefix(key, tk.value) THEN Res(s, Nil)
        ELSE UnlinkStatic(DeleteTokens(s, root, child, rest, route), root, n, Head(tk.value))

\* deleteParam and deleteWildcard.
DeleteBrace(s, root, n, tk, remaining, route) ==
    LET f == Edges(tk)
        i == GetEdge(s, n, f, CanonicalKey(tk))
    IN  IF i = 0 THEN Res(s, Nil)
        ELSE UnlinkBrace(DeleteTokens(s, root, s.nodes[n][f][i], remaining, route),
                         root, n, f, i)

DeleteTokens(s, root, n, tokens, route) ==
    IF tokens = <<>> THEN Detach(s, root, n, route)
    ELSE IF Head(tokens).typ = "static"
         THEN DeleteStatic(s, root, n, Head(tokens), Tail(tokens), route)
         ELSE DeleteBrace(s, root, n, Head(tokens), Tail(tokens), route)

-----------------------------------------------------------------------------
(* Transactions on the tree.  h = [nodes, maps] is the heap: nodes and      *)
(* method counters by address.  A tree is [patterns, names, methods, size], *)
(* a tXn adds lru and forked.  Each operation returns [h, tx].              *)

NewTree(h) ==
    LET p == New([nodes |-> h.nodes, lru |-> <<>>, names |-> Nil], NewRoot)
        n == New(p.s, NewRoot)
        m == FreshId(DOMAIN h.maps)
    IN  [h  |-> [nodes |-> n.s.nodes, maps |-> (m :> EmptyTable.methods) @@ h.maps],
         tx |-> [patterns |-> p.n, names |-> n.n, methods |-> m, size |-> 0]]

Begin(t) == [patterns |-> t.patterns, names |-> t.names, methods |-> t.methods,
             size |-> t.size, lru |-> <<>>, forked |-> FALSE]

Published(tx) == [patterns |-> tx.patterns, names |-> tx.names, methods |-> tx.methods,
                  size |-> tx.size]

\* Mutant of Sealed: the cache of writable nodes survives the snapshot.
SealedMapOnly(tx) == [tx EXCEPT !.forked = FALSE]

\* clone and snapshot: nothing the transaction wrote so far is its own any more.
Sealed(tx) == [tx EXCEPT !.lru = <<>>, !.forked = FALSE]

Store(h, tx) == [nodes |-> h.nodes, lru |-> tx.lru, names |-> tx.names]

\* The names and the cache after a call, whether it failed or not.
After(h, tx, s) == [h  |-> [h EXCEPT !.nodes = s.nodes],
                    tx |-> [tx EXCEPT !.names = s.names, !.lru = s.lru]]

CountBy(up, c, ms) == IF up THEN CountUp(c, ms) ELSE CountDown(c, ms)

\* Mutant of Counted: the counters are written where they are.
CountedInPlace(o, ms, up) ==
    [o EXCEPT !.h.maps[o.tx.methods] = CountBy(up, @, ms)]

\* Writes the counters, on a copy unless the transaction owns them already.
Counted(o, ms, up) ==
    LET m == IF o.tx.forked THEN o.tx.methods ELSE FreshId(DOMAIN o.h.maps)
    IN  IF ms = {} THEN o
        ELSE [h  |-> [o.h EXCEPT !.maps = (m :> CountBy(up, @[o.tx.methods], ms)) @@ @],
              tx |-> [o.tx EXCEPT !.methods = m, !.forked = TRUE]]

TxInsert(h, tx, route, mode) ==
    LET x == InsertTokens(Store(h, tx), Nil, tx.patterns, route.pattern.tokens, route, mode)
        o == After(h, tx, x.s)
        p == [o EXCEPT !.tx.patterns = x.n]
    IN  IF x.n = Nil THEN o
        ELSE IF mode = "update" THEN p
        ELSE Counted([p EXCEPT !.tx.size = @ + 1], route.methods, TRUE)

TxDelete(h, tx, route) ==
    LET x == DeleteTokens(Store(h, tx), tx.patterns, tx.patterns, route.pattern.tokens, route)
        o == After(h, tx, x.s)
    IN  IF x.n = Nil THEN o
        ELSE Counted([o EXCEPT !.tx.patterns = x.n, !.tx.size = @ - 1],
                     route.methods, FALSE)

TxTruncate(h) ==
    LET o == NewTree(h)
    IN  [o EXCEPT !.tx = [patterns |-> @.patterns, names |-> @.names, methods |-> @.methods,
                          size |-> 0, lru |-> <<>>, forked |-> TRUE]]

-----------------------------------------------------------------------------
(* Searching *)

\* A pattern as it is written: literal characters, and braces with their name.
RECURSIVE Symbols(_)
Symbols(tokens) ==
    IF tokens = <<>> THEN <<>>
    ELSE LET tk == Head(tokens) IN
         (IF tk.typ = "static" THEN [i \in DOMAIN tk.value |-> <<"static", tk.value[i]>>]
          ELSE <<Append(CanonicalToken(tk), tk.value)>>) \o Symbols(Tail(tokens))

Literal(chars) == [i \in DOMAIN chars |-> <<"static", chars[i]>>]

\* searchPattern; searchName is the same on a string without braces.  A key
\* longer than the search matches by its prefix.
RECURSIVE Search(_, _, _)
Search(nodes, n, search) ==
    IF search = <<>> THEN n
    ELSE LET sym == Head(search) IN
    IF sym[1] # "static" THEN
        LET es == nodes[n][IF sym[1] = "param" THEN "params" ELSE "wildcards"]
            i  == FirstOf({k \in DOMAIN es : nodes[es[k]].key = sym[2]})
        IN  IF i = 0 THEN Nil ELSE Search(nodes, es[i], Tail(search))
    ELSE IF sym[2] \notin DOMAIN nodes[n].statics THEN Nil
    ELSE LET child == nodes[n].statics[sym[2]]
             key   == Literal(nodes[child].key)
             len   == IF Len(key) < Len(search) THEN Len(key) ELSE Len(search)
         IN  IF SubSeq(search, 1, len) # SubSeq(key, 1, len) THEN Nil
             ELSE Search(nodes, child, Drop(search, len))

\* Txn.Route: the routes registered under q's methods, pattern and matchers.
RouteOf(nodes, t, q) ==
    LET n == Search(nodes, t.patterns, Symbols(q.pattern.tokens))
        rs == IF n = Nil THEN <<>> ELSE nodes[n].routes
        i == FindKey(rs, q)
    IN  IF i = 0 THEN {} ELSE {rs[i]}

\* Mutant of NameOf: a prefix of a registered name is taken for the name.
NameOfPrefix(nodes, t, name) ==
    LET n == Search(nodes, t.names, Literal(name))
        rs == IF n = Nil THEN <<>> ELSE nodes[n].routes
    IN  IF rs = <<>> THEN {} ELSE {rs[1]}

\* Txn.Name: the route registered under a name.
NameOf(nodes, t, name) ==
    LET n == Search(nodes, t.names, Literal(name))
        rs == IF n = Nil THEN <<>> ELSE nodes[n].routes
    IN  IF rs = <<>> \/ rs[1].name # name THEN {} ELSE {rs[1]}

-----------------------------------------------------------------------------
(* What a tree holds *)

Children(x) == Range(x.statics) \cup ToSet(x.params) \cup ToSet(x.wildcards)

RECURSIVE Reach(_, _)
Reach(nodes, n) == {n} \cup UNION {Reach(nodes, c) : c \in Children(nodes[n])}

RECURSIVE NameEntries(_, _, _)
NameEntries(nodes, n, name) ==
    {<<name, r>> : r \in ToSet(nodes[n].routes)} \cup
    UNION {NameEntries(nodes, c, name \o nodes[c].key) : c \in Range(nodes[n].statics)}

TableOf(h, t) ==
    LET es == NameEntries(h.nodes, t.names, <<>>)
    IN  [routes  |-> UNION {ToSet(h.nodes[n].routes) : n \in Reach(h.nodes, t.patterns)},
         names   |-> [n \in {e[1] : e \in es} |-> (CHOOSE e \in es : e[1] = n)[2]],
         methods |-> h.maps[t.methods],
         size    |-> t.size]
=============================================================================
