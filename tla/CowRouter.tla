------------------------------ MODULE CowRouter ------------------------------
(***************************************************************************)
(* The router with the structures it really keeps: transactions, snapshots  *)
(* and the published tree share radix nodes and method counters in one      *)
(* heap.  The control is that of RouterTxn; what is new is that a write     *)
(* happens in a shared heap, and that a call that fails may already have    *)
(* written.  The module states that every table behaves as if it were a     *)
(* private value (it implements RouterTxn), and the shape of the tree that  *)
(* lookups rely on.                                                         *)
(*                                                                          *)
(* The heap is collected after each step.                                   *)
(***************************************************************************)
EXTENDS CowIter

CONSTANTS Writers, Readers,   \* as in RouterTxn
          Families            \* [routes, readers]: which routes and which readers meet

ASSUME FamilyAssumption ==
    \A f \in Families : f.routes \subseteq Routes /\ f.readers \subseteq Readers

Txns == Writers \cup Readers

VARIABLES family,   \* the one of Families this behaviour is about
          mu,       \* Router.mu is held
          heap,     \* [nodes, maps]: nodes and method counters by address
          tree,     \* the iTree Router.tree points to
          txn       \* [st, write, base, root]: root is the tXn, base its tree

vars == <<family, mu, heap, tree, txn>>

NoTxn(st) == [st |-> st, write |-> FALSE, base |-> Nil, root |-> Nil]
FromTree(w) == [st |-> "open", write |-> w, base |-> IF w THEN tree ELSE Nil,
                root |-> Begin(tree)]

Open(t) == txn[t].st = "open"
Writing(t) == Open(t) /\ txn[t].write

-----------------------------------------------------------------------------
(* Collection.  What no tree in use reaches is dropped, and addresses are   *)
(* renamed in the order of a walk over the trees: the code only compares    *)
(* them for equality.                                                       *)

Ordered(S) == FoldSet(LAMBDA x, q : Append(q, x), <<>>, S)
Concat(qs) == FoldLeft(LAMBDA q, r : q \o r, <<>>, qs)

TreesOf(x) == (IF x.write THEN <<x.base>> ELSE <<>>) \o
              (IF x.st = "open" THEN <<Published(x.root)>> ELSE <<>>)
TxnSeq == Ordered(Txns)
Trees(tr, tx) == <<tr>> \o Concat([i \in DOMAIN TxnSeq |-> TreesOf(tx[TxnSeq[i]])])

ChildSeq(x) ==
    LET labels == Ordered(DOMAIN x.statics)
    IN  [i \in DOMAIN labels |-> x.statics[labels[i]]] \o x.params \o x.wildcards

RECURSIVE Walk(_, _, _)
Walk(nodes, todo, seen) ==
    IF todo = <<>> THEN seen
    ELSE IF Contains(seen, Head(todo)) THEN Walk(nodes, Tail(todo), seen)
    ELSE Walk(nodes, ChildSeq(nodes[Head(todo)]) \o Tail(todo), Append(seen, Head(todo)))

\* The new address of each address in q, Nil for one that is gone.
Moved(q, a) == IF Contains(q, a) THEN CHOOSE i \in DOMAIN q : q[i] = a ELSE Nil
MovedAll(q, as) == [i \in DOMAIN as |-> Moved(q, as[i])]

Collected(h, tr, tx) ==
    LET trees == Trees(tr, tx)
        ns == Walk(h.nodes, Concat([i \in DOMAIN trees |-> <<trees[i].patterns, trees[i].names>>]), <<>>)
        ms == FoldLeft(LAMBDA q, x : IF Contains(q, x.methods) THEN q ELSE Append(q, x.methods),
                       <<>>, trees)
        moveNode(x) == [x EXCEPT !.statics = MovedAll(ns, @), !.params = MovedAll(ns, @),
                                 !.wildcards = MovedAll(ns, @)]
        moveTree(x) == [x EXCEPT !.patterns = Moved(ns, @), !.names = Moved(ns, @),
                                 !.methods = Moved(ms, @)]
    IN  [tree |-> moveTree(tr),
         txn  |-> [t \in Txns |->
            [tx[t] EXCEPT !.base = IF tx[t].write THEN moveTree(@) ELSE @,
                          !.root = IF tx[t].st # "open" THEN @
                                   ELSE [moveTree(@) EXCEPT !.lru = MovedAll(ns, @)]]],
         heap |-> [nodes |-> [i \in DOMAIN ns |-> moveNode(h.nodes[ns[i]])],
                   maps  |-> [i \in DOMAIN ms |-> h.maps[ms[i]]]]]

Become(h, tr, tx) ==
    \E c \in {Collected(h, tr, tx)} : tree' = c.tree /\ txn' = c.txn /\ heap' = c.heap

-----------------------------------------------------------------------------

Init ==
    LET o == NewTree([nodes |-> [n \in {} |-> NewRoot], maps |-> [m \in {} |-> Nil]])
    IN  /\ family \in Families
        /\ mu = FALSE
        /\ heap = o.h
        /\ tree = o.tx
        /\ txn = [t \in Txns |-> NoTxn("idle")]

Request(t) ==
    /\ t \in Writers /\ txn[t].st = "idle"
    /\ txn' = [txn EXCEPT ![t] = NoTxn("locking")]
    /\ UNCHANGED <<family, mu, heap, tree>>

Lock(t) ==
    /\ txn[t].st = "locking" /\ ~mu
    /\ mu' = TRUE
    /\ txn' = [txn EXCEPT ![t] = NoTxn("locked")]
    /\ UNCHANGED <<family, heap, tree>>

Load(t) ==
    /\ txn[t].st = "locked"
    /\ txn' = [txn EXCEPT ![t] = FromTree(TRUE)]
    /\ UNCHANGED <<family, mu, heap, tree>>

BeginRead(t) ==
    /\ t \in family.readers /\ txn[t].st = "idle"
    /\ txn' = [txn EXCEPT ![t] = FromTree(FALSE)]
    /\ UNCHANGED <<family, mu, heap, tree>>

\* The transaction goes on with what an operation left, failed or not.
Write(t, o) ==
    /\ Writing(t)
    /\ Become(o.h, tree, [txn EXCEPT ![t].root = o.tx])
    /\ UNCHANGED <<family, mu>>

Insert(t, r) == Writing(t) /\ Write(t, TxInsert(heap, txn[t].root, r, "insert"))
Update(t, r) == Writing(t) /\ Write(t, TxInsert(heap, txn[t].root, r, "update"))
Delete(t, r) == Writing(t) /\ Write(t, TxDelete(heap, txn[t].root, r))
Truncate(t)  == Writing(t) /\ Write(t, TxTruncate(heap))

\* Snapshot and Iter on t, a write or a read transaction.
Capture(t, s) ==
    /\ Open(t)
    /\ s \in family.readers /\ txn[s].st = "idle"
    /\ LET sealed == Sealed(txn[t].root)
       IN  Become(heap, tree,
              [txn EXCEPT ![t].root = sealed,
                          ![s] = [st |-> "open", write |-> FALSE, base |-> Nil,
                                  root |-> Begin(sealed)]])
    /\ UNCHANGED <<family, mu>>

Commit(t) ==
    /\ Writing(t)
    /\ Become(heap, Published(txn[t].root), [txn EXCEPT ![t] = NoTxn("unlocking")])
    /\ UNCHANGED <<family, mu>>

Abort(t) ==
    /\ Writing(t)
    /\ Become(heap, tree, [txn EXCEPT ![t] = NoTxn("unlocking")])
    /\ UNCHANGED <<family, mu>>

Unlock(t) ==
    /\ txn[t].st = "unlocking"
    /\ mu' = FALSE
    /\ txn' = [txn EXCEPT ![t] = NoTxn("settled")]
    /\ UNCHANGED <<family, heap, tree>>

Release(t) ==
    /\ txn[t].st = "settled" \/ (Open(t) /\ ~txn[t].write)
    /\ Become(heap, tree, [txn EXCEPT ![t] = NoTxn("idle")])
    /\ UNCHANGED <<family, mu>>

Next ==
    \E t \in Txns :
       \/ Request(t) \/ Lock(t) \/ Load(t) \/ BeginRead(t)
       \/ \E r \in family.routes : Insert(t, r) \/ Update(t, r) \/ Delete(t, r)
       \/ Truncate(t)
       \/ \E s \in Readers : Capture(t, s)
       \/ Commit(t) \/ Abort(t) \/ Unlock(t) \/ Release(t)

Spec == Init /\ [][Next]_vars

-----------------------------------------------------------------------------
(* Refinement: each tree stands for the table it holds. *)

AbsTxn(x) ==
    LET open == x.st = "open"
    IN  [st |-> x.st, write |-> x.write,
         base |-> IF x.write THEN TableOf(heap, x.base) ELSE EmptyTable,
         root |-> IF open THEN TableOf(heap, x.root) ELSE EmptyTable]

Abstract == INSTANCE RouterTxn
               WITH tree <- TableOf(heap, tree), txn <- [t \in Txns |-> AbsTxn(txn[t])]

\* Sharing nodes and counters between the published tree, snapshots and the
\* open write transaction is invisible: a write changes the table of its own
\* transaction only, a call that fails changes none, and every operation does
\* to the table what RouteTable says.
ImplementsRouterTxn == Abstract!Spec

-----------------------------------------------------------------------------
(* Properties *)

InUse == ToSet(Trees(tree, txn))

\* What a lock-free reader may be walking: the published tree, and those of
\* snapshots, iterators and requests in flight.
Shared == {tree} \cup {Published(txn[t].root) : t \in {u \in Txns : Open(u) /\ ~txn[u].write}}
SharedNodes ==
    UNION {Reach(heap.nodes, tr.patterns) \cup Reach(heap.nodes, tr.names) : tr \in Shared}

\* A node the transaction may write in place, and the counters it believes its
\* own, are out of the reach of every reader: ServeHTTP walks its tree with no
\* synchronisation but the atomic load of Router.tree.
WritableIsPrivate ==
    \A t \in Txns : Writing(t) =>
        /\ ToSet(txn[t].root.lru) \cap SharedNodes = {}
        /\ txn[t].root.forked => txn[t].root.methods \notin {tr.methods : tr \in Shared}

\* Lookups branch on a static edge by its label and rely on keys without
\* common prefixes; a node that is neither a leaf nor a branch is removed or
\* merged, except below a param or at the end of a hostname; the plain param
\* and the plain wildcard are tried last; and no key runs from the hostname into
\* the path, because lookupByHostname hands over to lookupByPath at a node.
RadixNode(nodes, n, root) ==
    LET x == nodes[n]
        plainLast(f) == \A i \in DOMAIN x[f] : nodes[x[f][i]].key = Plain(f) => i = Len(x[f])
        distinct(f)  == \A i, j \in DOMAIN x[f] : nodes[x[f][i]].key = nodes[x[f][j]].key => i = j
    IN  /\ \A l \in DOMAIN x.statics :
              nodes[x.statics[l]].label = l /\ Head(nodes[x.statics[l]].key) = l
        /\ \/ n = root \/ x.label = "" \/ IsLeaf(x) \/ Cardinality(Children(x)) > 1
           \/ x.params \o x.wildcards # <<>>
           \/ \E c \in Children(x) : x.host /\ Head(nodes[c].key) = Slash
        /\ n # root => IsLeaf(x) \/ Children(x) # {}
        /\ \A f \in {"params", "wildcards"} : plainLast(f) /\ distinct(f)
        /\ x.host => ~Contains(x.key, Slash)

RadixShape ==
    \A tr \in InUse : \A root \in {tr.patterns, tr.names} :
        \A n \in Reach(heap.nodes, root) : RadixNode(heap.nodes, n, root)

\* A leaf keeps its routes in the order of precedence: the first route that
\* matches a request is the one that should win.
LeafOrdered ==
    \A tr \in InUse : \A n \in Reach(heap.nodes, tr.patterns) : InOrder(heap.nodes[n].routes)

\* An iterator yields each route it should once.
Yields(q, S) == IsInjective(q) /\ ToSet(q) = S

\* Txn.Route and Txn.Name find every registered route and nothing else, and the
\* iterators over a pattern, over a prefix of it and over a prefix of a name yield
\* the routes that have it, however the tree was split and merged on the way.
SearchFinds ==
    \A tr \in InUse :
        LET T == TableOf(heap, tr)
        IN  /\ \A q \in family.routes :
                  /\ RouteOf(heap.nodes, tr, q) = {r \in T.routes : SameKey(r, q)}
                  /\ NameOf(heap.nodes, tr, q.name) = {T.names[n] : n \in DOMAIN T.names \cap {q.name}}
                  /\ Yields(RoutesOf(heap.nodes, tr, q), {r \in T.routes : r.pattern.str = q.pattern.str})
            /\ \A p \in UNION {Prefixes(q.name) : q \in family.routes} :
                  Yields(NamePrefix(heap.nodes, tr, p),
                         {T.names[n] : n \in {m \in DOMAIN T.names : IsPrefix(p, m)}})
            /\ \A p \in UNION {Prefixes(Symbols(q.pattern.tokens)) : q \in family.routes} :
                  Yields(PatternPrefix(heap.nodes, tr, p),
                         {r \in T.routes : IsPrefix(p, Symbols(r.pattern.tokens))})
=============================================================================
