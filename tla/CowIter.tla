------------------------------- MODULE CowIter -------------------------------
(***************************************************************************)
(* The iterators of iter.go over the tree a snapshot, a transaction or the  *)
(* router has.  A prefix of a pattern is a sequence of symbols, as Symbols  *)
(* gives them: a parameter is whole, in part it matches nothing.            *)
(***************************************************************************)
EXTENDS CowTree

EdgeSeq(x) ==
    LET labels == SetToSeq(DOMAIN x.statics)
    IN  SelectSeq(<<[i \in DOMAIN labels |-> x.statics[labels[i]]], x.params, x.wildcards>>,
                  LAMBDA edges : edges # <<>>)

\* The loop of NamePrefix and PatternPrefix: the nodes in the order they are met, by a
\* stack of edges.  The nodes of the names tree have static edges only.
RECURSIVE Visited(_, _)
Visited(nodes, stacks) ==
    IF stacks = <<>> THEN <<>>
    ELSE LET last == Last(stacks)
             elem == Head(last)
             rest == IF Len(last) > 1 THEN Append(Front(stacks), Tail(last)) ELSE Front(stacks)
         IN  <<elem>> \o Visited(nodes, rest \o EdgeSeq(nodes[elem]))

NodesFrom(nodes, n) == IF n = Nil THEN <<>> ELSE Visited(nodes, <<<<n>>>>)

\* NamePrefix, and Names for the empty prefix.
NamePrefix(nodes, t, prefix) ==
    LET leaves == SelectSeq(NodesFrom(nodes, Search(nodes, t.names, Literal(prefix))),
                            LAMBDA n : IsLeaf(nodes[n]))
    IN  [i \in DOMAIN leaves |-> nodes[leaves[i]].routes[1]]

AllRoutes(nodes, ns) == FlattenSeq([i \in DOMAIN ns |-> nodes[ns[i]].routes])

HasParams(r) == \E i \in DOMAIN r.pattern.tokens : r.pattern.tokens[i].typ # "static"

\* Mutant of PatternPrefix: the names of the parameters are not compared.
PatternPrefixAny(nodes, t, prefix) ==
    AllRoutes(nodes, NodesFrom(nodes, Search(nodes, t.patterns, prefix)))

\* PatternPrefix, and All for the empty prefix.  Nodes tell the parameters of a pattern
\* apart by their expression alone, so the text is compared again.
PatternPrefix(nodes, t, prefix) ==
    SelectSeq(AllRoutes(nodes, NodesFrom(nodes, Search(nodes, t.patterns, prefix))),
              LAMBDA r : HasParams(r) => IsPrefix(prefix, Symbols(r.pattern.tokens)))

\* Routes
RoutesOf(nodes, t, q) ==
    LET n == Search(nodes, t.patterns, Symbols(q.pattern.tokens))
    IN  IF n = Nil THEN <<>> ELSE SelectSeq(nodes[n].routes, LAMBDA r : r.pattern.str = q.pattern.str)
=============================================================================
