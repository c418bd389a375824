---------------------------- MODULE RouterProofs ----------------------------
(***************************************************************************)
(* What the router promises to concurrent readers and writers, for every    *)
(* set of routes and any number of goroutines.                              *)
(*                                                                          *)
(* The first part is about tables (RouteTable) and transactions on them     *)
(* (RouterTxn): tables stay consistent, writers are serialized and lose no  *)
(* update.  Type correctness is not inductive alone: a counter stays a      *)
(* machine word because it counts routes, so it is proved together with the *)
(* consistency of the tables.  NoLostUpdate needs to know that the table a  *)
(* writer started from is still the published one, which the mutex          *)
(* guarantees.                                                              *)
(*                                                                          *)
(* The second part is about the nodes of the tree (CowNode): whatever a     *)
(* transaction does to them, those it does not hold in its cache of         *)
(* writable ones keep what they are.  F stands for nodes that readers may   *)
(* be walking.                                                              *)
(***************************************************************************)
EXTENDS RouterTxn, CowNode, FiniteSetTheorems, SequenceTheorems, NaturalsInduction,
        WellFoundedInduction, TLAPS

-----------------------------------------------------------------------------
(* Counting *)

\* The routes that serve a method are finitely many, and the counter of the
\* method is their number, zero when it has no entry.
LEMMA CountIsCardinality ==
    ASSUME NEW T \in Tables, MethodsAgree(T), NEW m
    PROVE  /\ IsFiniteSet(T.routes)
           /\ IsFiniteSet(RoutesFor(T, m))
           /\ Cardinality(RoutesFor(T, m)) \in Nat
           /\ CountOf(T.methods, m) = Cardinality(RoutesFor(T, m))
<1>1. IsFiniteSet(T.routes)
  BY RoutesAssumption, FS_Subset DEF Tables
<1>2. IsFiniteSet(RoutesFor(T, m))
  BY <1>1, FS_Subset DEF RoutesFor
<1>3. Cardinality(RoutesFor(T, m)) \in Nat
  BY <1>2, FS_CardinalityType
<1>4. CountOf(T.methods, m) = Cardinality(RoutesFor(T, m))
  <2>1. CASE m \in DOMAIN T.methods
    BY <2>1 DEF MethodsAgree, CountOf
  <2>2. CASE m \notin DOMAIN T.methods
    <3>1. RoutesFor(T, m) = {}
      BY <2>2 DEF MethodsAgree, RoutesFor
    <3>2. QED
      BY <2>2, <3>1, FS_EmptySet DEF CountOf
  <2>3. QED
    BY <2>1, <2>2
<1>5. QED
  BY <1>1, <1>2, <1>3, <1>4

\* No counter overflows: one more route still fits a machine word.
LEMMA CountHasRoom ==
    ASSUME NEW T \in Tables, MethodsAgree(T), NEW m, NEW r \in Routes, r \notin T.routes
    PROVE  /\ Cardinality(RoutesFor(T, m) \cup {r}) = Cardinality(RoutesFor(T, m)) + 1
           /\ Cardinality(RoutesFor(T, m)) + 1 <= MaxUint
<1>1. IsFiniteSet(RoutesFor(T, m)) /\ Cardinality(RoutesFor(T, m)) \in Nat
  BY CountIsCardinality
<1>2. r \notin RoutesFor(T, m)
  BY DEF RoutesFor
<1>3. Cardinality(RoutesFor(T, m) \cup {r}) = Cardinality(RoutesFor(T, m)) + 1
  BY <1>1, <1>2, FS_AddElement
<1>4. RoutesFor(T, m) \cup {r} \in SUBSET Routes
  BY DEF RoutesFor, Tables
<1>5. Cardinality(RoutesFor(T, m) \cup {r}) <= Cardinality(Routes)
  BY <1>4, RoutesAssumption, FS_Subset
<1>6. Cardinality(Routes) \in Nat
  BY RoutesAssumption, FS_CardinalityType
<1>7. QED
  BY <1>1, <1>3, <1>5, <1>6, RoutesAssumption

-----------------------------------------------------------------------------
(* Conflicts *)

\* A route conflicts with itself, so it cannot be inserted twice.
LEMMA SelfConflict == ASSUME NEW r PROVE Conflict(r, r)
BY DEF Conflict, LeafConflict, Overlap

LEMMA ConflictSymmetric ==
    ASSUME NEW q, NEW r, Conflict(q, r) PROVE Conflict(r, q)
BY DEF Conflict, LeafConflict, Overlap

\* Conflicts depend on the key of a registration only, not on its name or
\* handler: this is why an update needs no conflict check.
LEMMA ConflictByKey ==
    ASSUME NEW p, NEW q, NEW r, SameKey(q, r) PROVE Conflict(p, q) <=> Conflict(p, r)
BY DEF Conflict, SameKey, LeafConflict, Shadows, Leaf, EmptyCapture

\* Two registrations under the same key conflict.
LEMMA SameKeyConflict ==
    ASSUME NEW q, NEW r, SameKey(q, r) PROVE Conflict(q, r)
BY SelfConflict, ConflictByKey

-----------------------------------------------------------------------------
(* The operations *)

\* The table of a new router, and of a truncated transaction, is consistent.
THEOREM EmptyConsistent == EmptyTable \in Tables /\ TableOK(EmptyTable)
<1>1. EmptyTable \in Tables
  <2>1. {} \in SUBSET RouteNames /\ {} \in SUBSET RouteMethods
    OBVIOUS
  <2>2. EmptyTable.names \in [{} -> Routes] /\ EmptyTable.methods \in [{} -> 1 .. MaxUint]
    BY DEF EmptyTable
  <2>3. /\ EmptyTable.names \in UNION {[D -> Routes] : D \in SUBSET RouteNames}
        /\ EmptyTable.methods \in UNION {[D -> 1 .. MaxUint] : D \in SUBSET RouteMethods}
    BY <2>1, <2>2
  <2>4. EmptyTable = [routes |-> {}, names |-> EmptyTable.names,
                      methods |-> EmptyTable.methods, size |-> 0]
    BY DEF EmptyTable
  <2>5. QED
    BY <2>3, <2>4 DEF Tables
<1>2. MethodsAgree(EmptyTable)
  BY DEF EmptyTable, MethodsAgree
<1>3. SizeAgrees(EmptyTable)
  BY FS_EmptySet DEF EmptyTable, SizeAgrees
<1>4. QED
  BY <1>1, <1>2, <1>3 DEF EmptyTable, TableOK, ConflictFree, NamesAgree

\* Insertion of a route that conflicts with none and whose name is free.
THEOREM InsertConsistent ==
    ASSUME NEW T \in Tables, TableOK(T), NEW r \in Routes, CanInsert(T, r)
    PROVE  Inserted(T, r) \in Tables /\ TableOK(Inserted(T, r))
<1> DEFINE U == Inserted(T, r)
<1>0. /\ U.routes = T.routes \cup {r}
      /\ U.names = Bind(T.names, r)
      /\ U.methods = CountUp(T.methods, r.methods)
      /\ U.size = T.size + 1
  BY DEF Inserted
<1>1. r \notin T.routes
  BY SelfConflict DEF CanInsert
<1>2. MethodsAgree(T) /\ NamesAgree(T) /\ ConflictFree(T) /\ SizeAgrees(T)
  BY DEF TableOK
<1>3. ASSUME NEW m \in DOMAIN T.methods \cup r.methods
      PROVE  /\ CountUp(T.methods, r.methods)[m] \in 1 .. MaxUint
             /\ CountUp(T.methods, r.methods)[m] = Cardinality(RoutesFor(U, m))
  <2>1. CASE m \in r.methods
    <3>1. RoutesFor(U, m) = RoutesFor(T, m) \cup {r}
      BY <1>0, <2>1 DEF RoutesFor
    <3>2. CountUp(T.methods, r.methods)[m] = UintInc(CountOf(T.methods, m))
      BY <2>1 DEF CountUp
    <3>3. QED
      BY <1>1, <1>2, <3>1, <3>2, CountIsCardinality, CountHasRoom, RoutesAssumption DEF UintInc
  <2>2. CASE m \notin r.methods
    <3>1. RoutesFor(U, m) = RoutesFor(T, m)
      BY <1>0, <2>2 DEF RoutesFor
    <3>2. m \in DOMAIN T.methods /\ CountUp(T.methods, r.methods)[m] = T.methods[m]
      BY <2>2 DEF CountUp
    <3>3. QED
      BY <1>2, <3>1, <3>2 DEF MethodsAgree, Tables
  <2>3. QED
    BY <2>1, <2>2
<1>4. U.methods \in UNION {[D -> 1 .. MaxUint] : D \in SUBSET RouteMethods}
  <2>1. DOMAIN T.methods \cup r.methods \in SUBSET RouteMethods
    BY DEF Tables, RouteMethods
  <2>2. U.methods \in [DOMAIN T.methods \cup r.methods -> 1 .. MaxUint]
    <3>1. U.methods = [m \in DOMAIN T.methods \cup r.methods |-> U.methods[m]]
      BY <1>0 DEF CountUp
    <3>2. QED
      BY <1>0, <1>3, <3>1
  <2>3. QED
    BY <2>1, <2>2
<1>5. MethodsAgree(U)
  <2>1. DOMAIN U.methods = DOMAIN T.methods \cup r.methods
    BY <1>0 DEF CountUp
  <2>2. DOMAIN U.methods = UNION {q.methods : q \in U.routes}
    BY <1>0, <1>2, <2>1 DEF MethodsAgree
  <2>3. QED
    BY <1>0, <1>3, <2>1, <2>2 DEF MethodsAgree
<1>6. U.names \in UNION {[D -> Routes] : D \in SUBSET RouteNames} /\ NamesAgree(U)
  <2>1. CASE r.name = NoName
    <3>1. U.names = T.names
      BY <1>0, <2>1 DEF Bind
    <3>2. QED
      BY <1>0, <1>2, <2>1, <3>1 DEF NamesAgree, Tables
  <2>2. CASE r.name # NoName
    <3>1. r.name \notin DOMAIN T.names /\ r.name \in RouteNames
      BY <2>2 DEF CanInsert, NameFree, RouteNames
    <3>2. U.names = [x \in DOMAIN T.names \cup {r.name} |-> IF x = r.name THEN r ELSE T.names[x]]
      BY <1>0, <2>2 DEF Bind
    <3>3. DOMAIN T.names \in SUBSET RouteNames /\ T.names \in [DOMAIN T.names -> Routes]
      BY DEF Tables
    <3>4. DOMAIN T.names \cup {r.name} \in SUBSET RouteNames
      BY <3>1, <3>3
    <3>5. U.names \in [DOMAIN T.names \cup {r.name} -> Routes]
      BY <3>2, <3>3
    <3>6. NamesAgree(U)
      BY <1>0, <1>2, <3>1, <3>2 DEF NamesAgree
    <3>7. QED
      BY <3>4, <3>5, <3>6
  <2>3. QED
    BY <2>1, <2>2
<1>7. ConflictFree(U)
  BY <1>0, <1>2, ConflictSymmetric DEF ConflictFree, CanInsert
<1>8. SizeAgrees(U)
  <2>1. IsFiniteSet(T.routes)
    BY RoutesAssumption, FS_Subset DEF Tables
  <2>2. QED
    BY <1>0, <1>1, <1>2, <2>1, FS_AddElement DEF SizeAgrees
<1>9. U \in Tables
  BY <1>0, <1>4, <1>6 DEF Tables, Inserted
<1>10. QED
  BY <1>5, <1>6, <1>7, <1>8, <1>9 DEF TableOK

\* An update: the new route takes over the key of the old one, which gives up
\* its name unless the new one has the same.
THEOREM UpdateConsistent ==
    ASSUME NEW T \in Tables, TableOK(T), NEW r \in Routes,
           NEW old \in Registered(T, r), CanUpdate(T, old, r)
    PROVE  Updated(T, old, r) \in Tables /\ TableOK(Updated(T, old, r))
<1> DEFINE U == Updated(T, old, r)
<1>0. /\ U.routes = (T.routes \ {old}) \cup {r}
      /\ U.names = Bind(Unbind(T.names, old.name), r)
      /\ U.methods = T.methods
      /\ U.size = T.size
  BY DEF Updated
<1>1. /\ old \in T.routes /\ SameKey(old, r)
      /\ MethodsAgree(T) /\ NamesAgree(T) /\ ConflictFree(T) /\ SizeAgrees(T)
  BY DEF TableOK, Registered
<1>2. ASSUME NEW q \in T.routes, q # old PROVE ~Conflict(q, r)
  BY <1>1, <1>2, ConflictByKey DEF ConflictFree
<1>3. r = old \/ r \notin T.routes
  BY <1>2, SelfConflict
<1>4. ConflictFree(U)
  BY <1>0, <1>1, <1>2, ConflictSymmetric DEF ConflictFree
<1>5. ASSUME NEW S, IsFiniteSet(S), old \in S, r = old \/ r \notin S
      PROVE  Cardinality((S \ {old}) \cup {r}) = Cardinality(S)
  <2>1. IsFiniteSet(S \ {old}) /\ Cardinality(S \ {old}) = Cardinality(S) - 1
    BY <1>5, FS_RemoveElement
  <2>2. Cardinality((S \ {old}) \cup {r}) = Cardinality(S \ {old}) + 1
    BY <1>5, <2>1, FS_AddElement
  <2>3. Cardinality(S) \in Nat
    BY <1>5, FS_CardinalityType
  <2>4. QED
    BY <2>1, <2>2, <2>3
<1>6. SizeAgrees(U)
  BY <1>0, <1>1, <1>3, <1>5, CountIsCardinality DEF SizeAgrees
<1>7. MethodsAgree(U)
  <2>1. r.methods = old.methods
    BY <1>1 DEF SameKey
  <2>2. DOMAIN U.methods = UNION {q.methods : q \in U.routes}
    BY <1>0, <1>1, <2>1 DEF MethodsAgree
  <2>3. ASSUME NEW m \in DOMAIN T.methods
        PROVE  Cardinality(RoutesFor(U, m)) = Cardinality(RoutesFor(T, m))
    <3>1. CASE m \in old.methods
      <4>1. RoutesFor(U, m) = (RoutesFor(T, m) \ {old}) \cup {r} /\ old \in RoutesFor(T, m)
        BY <1>0, <1>1, <2>1, <3>1 DEF RoutesFor
      <4>2. r = old \/ r \notin RoutesFor(T, m)
        BY <1>3 DEF RoutesFor
      <4>3. QED
        BY <1>1, <1>5, <4>1, <4>2, CountIsCardinality
    <3>2. CASE m \notin old.methods
      BY <1>0, <1>1, <2>1, <3>2 DEF RoutesFor
    <3>3. QED
      BY <3>1, <3>2
  <2>4. QED
    BY <1>0, <1>1, <2>2, <2>3 DEF MethodsAgree
<1>8. U.names \in UNION {[D -> Routes] : D \in SUBSET RouteNames} /\ NamesAgree(U)
  <2> DEFINE N == Unbind(T.names, old.name)
  <2>1. /\ DOMAIN N = DOMAIN T.names \ {old.name}
        /\ \A x \in DOMAIN N : N[x] = T.names[x]
    BY DEF Unbind
  <2>2. N \in [DOMAIN T.names \ {old.name} -> Routes] /\ DOMAIN T.names \in SUBSET RouteNames
    BY DEF Tables, Unbind
  <2>3. ASSUME NEW q \in T.routes, q # old, q.name # NoName
        PROVE  q.name \in DOMAIN N /\ N[q.name] = q /\ q.name # r.name
    <3>1. q.name \in DOMAIN T.names /\ T.names[q.name] = q
      BY <1>1, <2>3 DEF NamesAgree
    <3>2. q.name # old.name
      BY <1>1, <2>3, <3>1 DEF NamesAgree
    <3>3. q.name # r.name
      BY <2>3, <3>1, <3>2 DEF CanUpdate, NameFree
    <3>4. QED
      BY <2>1, <3>1, <3>2, <3>3
  <2>4. ASSUME NEW x \in DOMAIN N
        PROVE  N[x] \in T.routes \ {old} /\ N[x].name = x
    BY <1>1, <2>1 DEF NamesAgree
  <2>5. CASE r.name = NoName
    <3>1. U.names = N
      BY <1>0, <2>5 DEF Bind
    <3>2. NamesAgree(U)
      BY <1>0, <2>3, <2>4, <2>5, <3>1 DEF NamesAgree
    <3>3. DOMAIN T.names \ {old.name} \in SUBSET RouteNames
      BY <2>2
    <3>4. QED
      BY <2>2, <3>1, <3>2, <3>3
  <2>6. CASE r.name # NoName
    <3>1. /\ U.names = [x \in DOMAIN N \cup {r.name} |-> IF x = r.name THEN r ELSE N[x]]
          /\ DOMAIN U.names = DOMAIN N \cup {r.name}
      BY <1>0, <2>6 DEF Bind
    <3>2. r.name \notin DOMAIN N
      BY <2>1, <2>6 DEF CanUpdate, NameFree
    <3>3. NamesAgree(U)
      <4>1. ASSUME NEW q \in U.routes, q.name # NoName
            PROVE  q.name \in DOMAIN U.names /\ U.names[q.name] = q
        <5>1. CASE q = r
          BY <5>1, <3>1
        <5>2. CASE q # r
          BY <5>2, <1>0, <2>3, <3>1, <4>1
        <5>3. QED
          BY <5>1, <5>2
      <4>2. ASSUME NEW x \in DOMAIN U.names
            PROVE  U.names[x] \in U.routes /\ U.names[x].name = x
        BY <1>0, <2>4, <3>1
      <4>3. QED
        BY <4>1, <4>2 DEF NamesAgree
    <3>4. DOMAIN N \cup {r.name} \in SUBSET RouteNames
      BY <2>1, <2>2, <2>6 DEF RouteNames
    <3>5. U.names \in [DOMAIN N \cup {r.name} -> Routes]
      BY <2>1, <2>2, <3>1
    <3>6. QED
      BY <3>3, <3>4, <3>5
  <2>7. QED
    BY <2>5, <2>6
<1>9. U \in Tables
  <2>1. U.routes \in SUBSET Routes /\ U.size \in Int
        /\ U.methods \in UNION {[D -> 1 .. MaxUint] : D \in SUBSET RouteMethods}
    BY <1>0 DEF Tables
  <2>2. QED
    BY <1>0, <1>8, <2>1 DEF Tables, Updated
<1>10. QED
  BY <1>4, <1>6, <1>7, <1>8, <1>9 DEF TableOK

\* A deletion: the counters of the route's methods go down, and the entry of
\* a method nobody serves any more disappears.
THEOREM DeleteConsistent ==
    ASSUME NEW T \in Tables, TableOK(T), NEW old \in T.routes
    PROVE  Deleted(T, old) \in Tables /\ TableOK(Deleted(T, old))
<1> DEFINE U == Deleted(T, old)
           C == CountDown(T.methods, old.methods)
<1>0. /\ U.routes = T.routes \ {old}
      /\ U.names = Unbind(T.names, old.name)
      /\ U.methods = C
      /\ U.size = T.size - 1
  BY DEF Deleted
<1>1. MethodsAgree(T) /\ NamesAgree(T) /\ ConflictFree(T) /\ SizeAgrees(T)
  BY DEF TableOK
<1>2. old.methods \subseteq DOMAIN T.methods
  BY <1>1 DEF MethodsAgree
<1>3. ASSUME NEW m
      PROVE  /\ IsFiniteSet(RoutesFor(U, m)) /\ Cardinality(RoutesFor(U, m)) \in Nat
             /\ m \in old.methods =>
                   /\ Cardinality(RoutesFor(U, m)) = Cardinality(RoutesFor(T, m)) - 1
                   /\ UintDec(CountOf(T.methods, m)) = Cardinality(RoutesFor(U, m))
             /\ m \notin old.methods => RoutesFor(U, m) = RoutesFor(T, m)
  <2>1. /\ IsFiniteSet(RoutesFor(T, m)) /\ Cardinality(RoutesFor(T, m)) \in Nat
        /\ CountOf(T.methods, m) = Cardinality(RoutesFor(T, m))
    BY <1>1, CountIsCardinality
  <2>2. RoutesFor(U, m) = RoutesFor(T, m) \ {old}
    BY <1>0 DEF RoutesFor
  <2>3. IsFiniteSet(RoutesFor(U, m)) /\ Cardinality(RoutesFor(U, m)) \in Nat
    BY <2>1, <2>2, FS_RemoveElement, FS_CardinalityType
  <2>4. CASE m \in old.methods
    <3>1. old \in RoutesFor(T, m)
      BY <2>4 DEF RoutesFor
    <3>2. Cardinality(RoutesFor(U, m)) = Cardinality(RoutesFor(T, m)) - 1
      BY <2>1, <2>2, <3>1, FS_RemoveElement
    <3>3. QED
      BY <2>1, <2>3, <2>4, <3>2 DEF UintDec
  <2>5. CASE m \notin old.methods
    BY <2>2, <2>3, <2>5 DEF RoutesFor
  <2>6. QED
    BY <2>4, <2>5
<1>4. /\ DOMAIN C = {m \in DOMAIN T.methods : m \in old.methods => RoutesFor(U, m) # {}}
      /\ \A m \in DOMAIN C : C[m] = Cardinality(RoutesFor(U, m))
  <2>1. DOMAIN C = {m \in DOMAIN T.methods : m \in old.methods => UintDec(CountOf(T.methods, m)) # 0}
    BY <1>2 DEF CountDown
  <2>2. ASSUME NEW m PROVE Cardinality(RoutesFor(U, m)) = 0 <=> RoutesFor(U, m) = {}
    BY <1>3, FS_EmptySet
  <2>3. DOMAIN C = {m \in DOMAIN T.methods : m \in old.methods => RoutesFor(U, m) # {}}
    BY <1>3, <2>1, <2>2
  <2>4. ASSUME NEW m \in DOMAIN C PROVE C[m] = Cardinality(RoutesFor(U, m))
    <3>1. C[m] = IF m \in old.methods THEN UintDec(CountOf(T.methods, m)) ELSE T.methods[m]
      BY <2>1 DEF CountDown
    <3>2. m \in DOMAIN T.methods
      BY <2>1
    <3>3. QED
      BY <1>1, <1>3, <3>1, <3>2 DEF MethodsAgree
  <2>5. QED
    BY <2>3, <2>4
<1>5. ASSUME NEW m \in DOMAIN T.methods
      PROVE  m \in DOMAIN C <=> RoutesFor(U, m) # {}
  <2>1. \E q \in T.routes : m \in q.methods
    BY <1>1 DEF MethodsAgree
  <2>2. RoutesFor(T, m) # {}
    BY <2>1 DEF RoutesFor
  <2>3. QED
    BY <1>3, <1>4, <2>2
<1>6. MethodsAgree(U)
  <2>1. DOMAIN C = UNION {q.methods : q \in U.routes}
    <3>1. ASSUME NEW m PROVE m \in UNION {q.methods : q \in U.routes} <=> RoutesFor(U, m) # {}
      BY DEF RoutesFor
    <3>2. ASSUME NEW m, RoutesFor(U, m) # {} PROVE m \in DOMAIN T.methods
      BY <1>0, <1>1, <3>2 DEF RoutesFor, MethodsAgree
    <3>3. DOMAIN C \subseteq DOMAIN T.methods
      BY <1>4
    <3>4. QED
      BY <1>5, <3>1, <3>2, <3>3
  <2>2. QED
    BY <1>0, <1>4, <2>1 DEF MethodsAgree
<1>7. C \in UNION {[D -> 1 .. MaxUint] : D \in SUBSET RouteMethods}
  <2>1. DOMAIN C \in SUBSET RouteMethods
    BY <1>4 DEF Tables
  <2>2. ASSUME NEW m \in DOMAIN C PROVE C[m] \in 1 .. MaxUint
    <3>1. C[m] = Cardinality(RoutesFor(U, m)) /\ RoutesFor(U, m) # {}
      BY <1>4, <1>5
    <3>2. Cardinality(RoutesFor(U, m)) # 0
      BY <1>3, <3>1, FS_EmptySet
    <3>3. RoutesFor(U, m) \in SUBSET Routes
      BY <1>0 DEF RoutesFor, Tables
    <3>4. Cardinality(RoutesFor(U, m)) <= Cardinality(Routes) /\ Cardinality(Routes) \in Nat
      BY <3>3, RoutesAssumption, FS_Subset, FS_CardinalityType
    <3>5. QED
      BY <1>3, <3>1, <3>2, <3>4, RoutesAssumption
  <2>3. C = [m \in DOMAIN C |-> C[m]]
    BY DEF CountDown
  <2>4. QED
    BY <2>1, <2>2, <2>3
<1>8. U.names \in UNION {[D -> Routes] : D \in SUBSET RouteNames} /\ NamesAgree(U)
  <2>1. /\ U.names = [x \in DOMAIN T.names \ {old.name} |-> T.names[x]]
        /\ DOMAIN U.names = DOMAIN T.names \ {old.name}
    BY <1>0 DEF Unbind
  <2>2. DOMAIN T.names \in SUBSET RouteNames /\ T.names \in [DOMAIN T.names -> Routes]
    BY DEF Tables
  <2>3. U.names \in [DOMAIN T.names \ {old.name} -> Routes]
    BY <2>1, <2>2
  <2>4. DOMAIN T.names \ {old.name} \in SUBSET RouteNames
    BY <2>2
  <2>5. ASSUME NEW q \in U.routes, q.name # NoName
        PROVE  q.name \in DOMAIN U.names /\ U.names[q.name] = q
    BY <1>0, <1>1, <2>1, <2>5 DEF NamesAgree
  <2>6. ASSUME NEW x \in DOMAIN U.names
        PROVE  U.names[x] \in U.routes /\ U.names[x].name = x
    BY <1>0, <1>1, <2>1 DEF NamesAgree
  <2>7. QED
    BY <2>3, <2>4, <2>5, <2>6 DEF NamesAgree
<1>9. ConflictFree(U)
  BY <1>0, <1>1 DEF ConflictFree
<1>10. SizeAgrees(U)
  BY <1>0, <1>1, CountIsCardinality, FS_RemoveElement DEF SizeAgrees
<1>11. U \in Tables
  BY <1>0, <1>7, <1>8 DEF Tables, Deleted
<1>12. QED
  BY <1>6, <1>8, <1>9, <1>10, <1>11 DEF TableOK

-----------------------------------------------------------------------------
(* The state *)

TxnRecords == [st : States, write : BOOLEAN, base : Tables, root : Tables]

\* While a goroutine writes, the table its transaction started from is the
\* one Router.tree points to.
BaseIsCurrent == \A t \in Txns : Writing(t) => txn[t].base = tree

DataInv == TypeOK /\ TablesConsistent
LockInv == WriterExclusion /\ BaseIsCurrent

\* A handle without a transaction is a well-formed record with an empty table.
LEMMA NoTxnOK ==
    ASSUME NEW st \in States
    PROVE  NoTxn(st) \in TxnRecords /\ TableOK(NoTxn(st).root)
BY EmptyConsistent DEF NoTxn, TxnRecords

\* One handle gets a new transaction, the published table stays or is replaced
\* by a consistent one: the data invariant holds again.
LEMMA DataStep ==
    ASSUME DataInv, NEW t \in Txns, NEW v \in TxnRecords, TableOK(v.root),
           txn' = [txn EXCEPT ![t] = v], mu' \in BOOLEAN,
           tree' \in Tables, TableOK(tree')
    PROVE  DataInv'
<1>1. txn' \in [Txns -> TxnRecords]
  BY DEF DataInv, TypeOK, TxnRecords
<1>2. \A u \in Txns : TableOK(txn'[u].root)
  BY DEF DataInv, TypeOK, TablesConsistent
<1>3. QED
  BY <1>1, <1>2 DEF DataInv, TypeOK, TablesConsistent, TxnRecords

\* A write transaction moves its root to a consistent table.
LEMMA SetRootStep ==
    ASSUME DataInv, NEW t \in Txns, NEW T \in Tables, TableOK(T), SetRoot(t, T)
    PROVE  DataInv'
<1> DEFINE v == [txn[t] EXCEPT !.root = T]
<1>1. txn \in [Txns -> TxnRecords]
  BY DEF DataInv, TypeOK, TxnRecords
<1>2. v \in TxnRecords /\ v.root = T
  BY <1>1 DEF TxnRecords
<1>3. txn' = [txn EXCEPT ![t] = v]
  BY DEF SetRoot
<1>4. mu' \in BOOLEAN /\ tree' \in Tables /\ TableOK(tree')
  BY DEF SetRoot, DataInv, TypeOK, TablesConsistent
<1> HIDE DEF v
<1>5. QED
  BY <1>2, <1>3, <1>4, DataStep

LEMMA DataInductive == DataInv /\ [Next]_vars => DataInv'
<1> SUFFICES ASSUME DataInv, [Next]_vars PROVE DataInv'
  OBVIOUS
<1>1. /\ txn \in [Txns -> TxnRecords] /\ mu \in BOOLEAN
      /\ tree \in Tables /\ TableOK(tree)
      /\ \A t \in Txns : txn[t].root \in Tables /\ TableOK(txn[t].root)
  BY DEF DataInv, TypeOK, TablesConsistent, TxnRecords
<1>2. ASSUME NEW t \in Txns, NEW st \in States, txn' = [txn EXCEPT ![t] = NoTxn(st)],
             mu' \in BOOLEAN, tree' \in Tables, TableOK(tree')
      PROVE  DataInv'
  BY <1>2, NoTxnOK, DataStep
<1>3. ASSUME NEW w \in BOOLEAN PROVE FromTree(w) \in TxnRecords /\ TableOK(FromTree(w).root)
  BY <1>1, EmptyConsistent DEF FromTree, TxnRecords, States
<1>4. ASSUME NEW t \in Txns, Request(t) PROVE DataInv'
  BY <1>1, <1>2, <1>4 DEF Request, States
<1>5. ASSUME NEW t \in Txns, Lock(t) PROVE DataInv'
  BY <1>1, <1>2, <1>5 DEF Lock, States
<1>6. ASSUME NEW t \in Txns, Load(t) PROVE DataInv'
  BY <1>1, <1>3, <1>6, DataStep DEF Load
<1>7. ASSUME NEW t \in Txns, BeginRead(t) PROVE DataInv'
  BY <1>1, <1>3, <1>7, DataStep DEF BeginRead
<1>8. ASSUME NEW t \in Txns, NEW r \in Routes, Insert(t, r) PROVE DataInv'
  BY <1>1, <1>8, InsertConsistent, SetRootStep DEF Insert
<1>9. ASSUME NEW t \in Txns, NEW r \in Routes, Update(t, r) PROVE DataInv'
  BY <1>1, <1>9, UpdateConsistent, SetRootStep DEF Update
<1>10. ASSUME NEW t \in Txns, NEW r \in Routes, Delete(t, r) PROVE DataInv'
  BY <1>1, <1>10, DeleteConsistent, SetRootStep DEF Delete, Registered
<1>11. ASSUME NEW t \in Txns, Truncate(t) PROVE DataInv'
  BY <1>11, EmptyConsistent, SetRootStep DEF Truncate
<1>12. ASSUME NEW t \in Txns, NEW s \in Readers, Capture(t, s) PROVE DataInv'
  <2> DEFINE v == [txn[t] EXCEPT !.write = FALSE, !.base = EmptyTable]
  <2>1. v \in TxnRecords /\ v.root = txn[t].root
    BY <1>1, EmptyConsistent DEF TxnRecords
  <2>2. s \in Txns /\ txn' = [txn EXCEPT ![s] = v] /\ UNCHANGED <<mu, tree>>
    BY <1>12 DEF Capture, Txns
  <2> HIDE DEF v
  <2>3. QED
    BY <1>1, <2>1, <2>2, DataStep
<1>13. ASSUME NEW t \in Txns, Commit(t) PROVE DataInv'
  BY <1>1, <1>2, <1>13 DEF Commit, States
<1>14. ASSUME NEW t \in Txns, Abort(t) PROVE DataInv'
  BY <1>1, <1>2, <1>14 DEF Abort, States
<1>15. ASSUME NEW t \in Txns, Unlock(t) PROVE DataInv'
  BY <1>1, <1>2, <1>15 DEF Unlock, States
<1>16. ASSUME NEW t \in Txns, Release(t) PROVE DataInv'
  BY <1>1, <1>2, <1>16 DEF Release, States
<1>17. CASE UNCHANGED vars
  BY <1>17 DEF vars, DataInv, TypeOK, TablesConsistent
<1>18. QED
  BY <1>4, <1>5, <1>6, <1>7, <1>8, <1>9, <1>10, <1>11, <1>12, <1>13, <1>14, <1>15,
     <1>16, <1>17 DEF Next

LEMMA DataInitially == Init => DataInv
<1> SUFFICES ASSUME Init PROVE DataInv
  OBVIOUS
<1>1. NoTxn("idle") \in TxnRecords /\ TableOK(NoTxn("idle").root)
  BY NoTxnOK DEF States
<1>2. QED
  BY <1>1, EmptyConsistent DEF Init, DataInv, TypeOK, TablesConsistent, TxnRecords

\* Every variable keeps its type; in particular no per-method counter ever
\* wraps around or stays in the map at zero (tree.go, insert and delete).
THEOREM TypeCorrect == Spec => []TypeOK
<1>1. DataInv => TypeOK
  BY DEF DataInv
<1>2. QED
  BY <1>1, DataInitially, DataInductive, PTL DEF Spec

\* The published table and those of all transactions are consistent: no
\* conflicting routes, and names, counters and size agree with the routes.
THEOREM TablesStayConsistent == Spec => []TablesConsistent
<1>1. DataInv => TablesConsistent
  BY DEF DataInv
<1>2. QED
  BY <1>1, DataInitially, DataInductive, PTL DEF Spec
-----------------------------------------------------------------------------
(* The lock *)

\* Handing a fresh transaction record to one handle leaves the others alone.
LEMMA OneHandle ==
    ASSUME TypeOK, NEW t \in Txns, NEW v, txn' = [txn EXCEPT ![t] = v]
    PROVE  txn'[t] = v /\ \A u \in Txns : u # t => txn'[u] = txn[u]
BY DEF TypeOK

\* A handle that holds nothing before and after the step changes; the mutex
\* and the published table do not.
LEMMA NeutralStep ==
    ASSUME TypeOK, LockInv, NEW t \in Txns, UNCHANGED <<mu, tree>>,
           \A u \in Txns : u # t => txn'[u] = txn[u], ~Holding(t), ~Holding(t)'
    PROVE  LockInv'
<1>1. \A u \in Txns : /\ Holding(u)' <=> Holding(u)
                      /\ Writing(u)' => Writing(u) /\ txn'[u] = txn[u]
  BY DEF Holding, Writing
<1>2. WriterExclusion'
  BY <1>1 DEF LockInv, WriterExclusion
<1>3. BaseIsCurrent'
  BY <1>1 DEF LockInv, BaseIsCurrent
<1>4. QED
  BY <1>2, <1>3 DEF LockInv

\* The goroutine that holds the mutex changes its own handle and keeps the
\* mutex; nobody else writes, so only its own base matters.
LEMMA HolderStep ==
    ASSUME TypeOK, LockInv, NEW t \in Txns, UNCHANGED mu,
           \A u \in Txns : u # t => txn'[u] = txn[u], Holding(t), Holding(t)',
           Writing(t)' => txn'[t].base = tree'
    PROVE  LockInv'
<1>1. \A u \in Txns : Holding(u)' <=> Holding(u)
  BY DEF Holding, Writing
<1>2. WriterExclusion'
  BY <1>1 DEF LockInv, WriterExclusion
<1>3. \A u \in Txns : u # t => ~Writing(u)'
  BY <1>2 DEF WriterExclusion, Holding, Writing
<1>4. BaseIsCurrent'
  BY <1>3 DEF BaseIsCurrent
<1>5. QED
  BY <1>2, <1>4 DEF LockInv

\* A writer that only moves its root keeps its base.
LEMMA SetRootLock ==
    ASSUME TypeOK, LockInv, NEW t \in Txns, Writing(t), NEW T, SetRoot(t, T)
    PROVE  LockInv'
<1>1. /\ txn'[t] = [txn[t] EXCEPT !.root = T]
      /\ \A u \in Txns : u # t => txn'[u] = txn[u]
  BY DEF SetRoot, TypeOK
<1>2. txn[t] \in TxnRecords
  BY DEF TypeOK, TxnRecords
<1>3. /\ txn'[t].st = txn[t].st /\ txn'[t].write = txn[t].write
      /\ txn'[t].base = txn[t].base
  BY <1>1, <1>2 DEF TxnRecords
<1>4. Holding(t) /\ Holding(t)' /\ txn'[t].base = tree'
  BY <1>3 DEF Holding, Writing, LockInv, BaseIsCurrent, SetRoot
<1>5. UNCHANGED mu
  BY DEF SetRoot
<1>6. QED
  BY <1>1, <1>4, <1>5, HolderStep

LEMMA LockInductive == TypeOK /\ LockInv /\ [Next]_vars => LockInv'
<1> SUFFICES ASSUME TypeOK, LockInv, [Next]_vars PROVE LockInv'
  OBVIOUS
<1>1. ASSUME NEW t \in Txns, Request(t) PROVE LockInv'
  <2>1. txn'[t] = NoTxn("locking") /\ \A u \in Txns : u # t => txn'[u] = txn[u]
    BY <1>1, OneHandle DEF Request
  <2>2. ~Holding(t) /\ ~Holding(t)'
    BY <1>1, <2>1 DEF Request, Holding, Writing, NoTxn
  <2>3. QED
    BY <1>1, <2>1, <2>2, NeutralStep DEF Request
<1>2. ASSUME NEW t \in Txns, Lock(t) PROVE LockInv'
  <2>1. txn'[t] = NoTxn("locked") /\ \A u \in Txns : u # t => txn'[u] = txn[u]
    BY <1>2, OneHandle DEF Lock
  <2>2. \A u \in Txns : ~Holding(u)
    BY <1>2 DEF Lock, LockInv, WriterExclusion
  <2>3. \A u \in Txns : (Holding(u)' <=> u = t) /\ ~Writing(u)'
    BY <2>1, <2>2 DEF Holding, Writing, NoTxn
  <2>4. QED
    BY <1>2, <2>3 DEF Lock, LockInv, WriterExclusion, BaseIsCurrent
<1>3. ASSUME NEW t \in Txns, Load(t) PROVE LockInv'
  <2>1. txn'[t] = FromTree(TRUE) /\ \A u \in Txns : u # t => txn'[u] = txn[u]
    BY <1>3, OneHandle DEF Load
  <2>2. Holding(t) /\ Holding(t)' /\ txn'[t].base = tree'
    BY <1>3, <2>1 DEF Load, Holding, Writing, FromTree
  <2>3. QED
    BY <1>3, <2>1, <2>2, HolderStep DEF Load
<1>4. ASSUME NEW t \in Txns, BeginRead(t) PROVE LockInv'
  <2>1. txn'[t] = FromTree(FALSE) /\ \A u \in Txns : u # t => txn'[u] = txn[u]
    BY <1>4, OneHandle DEF BeginRead
  <2>2. ~Holding(t) /\ ~Holding(t)'
    BY <1>4, <2>1 DEF BeginRead, Holding, Writing, FromTree
  <2>3. QED
    BY <1>4, <2>1, <2>2, NeutralStep DEF BeginRead
<1>5. ASSUME NEW t \in Txns, NEW r \in Routes, Insert(t, r) \/ Update(t, r) \/ Delete(t, r)
      PROVE  LockInv'
  BY <1>5, SetRootLock DEF Insert, Update, Delete
<1>6. ASSUME NEW t \in Txns, Truncate(t) PROVE LockInv'
  BY <1>6, SetRootLock DEF Truncate
<1>7. ASSUME NEW t \in Txns, NEW s \in Readers, Capture(t, s) PROVE LockInv'
  <2>1. s \in Txns /\ txn[t] \in TxnRecords
    BY DEF Txns, TypeOK, TxnRecords
  <2>2. /\ txn'[s] = [txn[t] EXCEPT !.write = FALSE, !.base = EmptyTable]
        /\ \A u \in Txns : u # s => txn'[u] = txn[u]
    BY <1>7, <2>1, OneHandle DEF Capture
  <2>3. txn'[s].st = txn[t].st /\ txn'[s].write = FALSE
    <3>1. ASSUME NEW v \in TxnRecords, NEW b
          PROVE  /\ [v EXCEPT !.write = FALSE, !.base = b].st = v.st
                 /\ [v EXCEPT !.write = FALSE, !.base = b].write = FALSE
      BY DEF TxnRecords
    <3>2. QED
      BY <2>1, <2>2, <3>1
  <2>4. ~Holding(s) /\ ~Holding(s)'
    BY <1>7, <2>3 DEF Capture, Holding, Writing
  <2>5. QED
    BY <1>7, <2>1, <2>2, <2>4, NeutralStep DEF Capture
<1>8. ASSUME NEW t \in Txns, Commit(t) \/ Abort(t) PROVE LockInv'
  <2>1. txn'[t] = NoTxn("unlocking") /\ \A u \in Txns : u # t => txn'[u] = txn[u]
    BY <1>8, OneHandle DEF Commit, Abort
  <2>2. Holding(t) /\ Holding(t)' /\ ~Writing(t)'
    BY <1>8, <2>1 DEF Commit, Abort, Holding, Writing, NoTxn
  <2>3. QED
    BY <1>8, <2>1, <2>2, HolderStep DEF Commit, Abort
<1>9. ASSUME NEW t \in Txns, Unlock(t) PROVE LockInv'
  <2>1. txn'[t] = NoTxn("settled") /\ \A u \in Txns : u # t => txn'[u] = txn[u]
    BY <1>9, OneHandle DEF Unlock
  <2>2. \A u \in Txns : Holding(u) => u = t
    BY <1>9 DEF Unlock, Holding, LockInv, WriterExclusion
  <2>3. \A u \in Txns : ~Holding(u)' /\ ~Writing(u)'
    BY <2>1, <2>2 DEF Holding, Writing, NoTxn
  <2>4. QED
    BY <1>9, <2>3 DEF Unlock, LockInv, WriterExclusion, BaseIsCurrent
<1>10. ASSUME NEW t \in Txns, Release(t) PROVE LockInv'
  <2>1. txn'[t] = NoTxn("idle") /\ \A u \in Txns : u # t => txn'[u] = txn[u]
    BY <1>10, OneHandle DEF Release
  <2>2. ~Holding(t) /\ ~Holding(t)'
    BY <1>10, <2>1 DEF Release, Holding, Writing, NoTxn
  <2>3. QED
    BY <1>10, <2>1, <2>2, NeutralStep DEF Release
<1>11. CASE UNCHANGED vars
  BY <1>11 DEF vars, LockInv, WriterExclusion, BaseIsCurrent, Holding, Writing
<1>12. QED
  BY <1>1, <1>2, <1>3, <1>4, <1>5, <1>6, <1>7, <1>8, <1>9, <1>10, <1>11 DEF Next

LEMMA LockInitially == Init => LockInv
BY DEF Init, LockInv, WriterExclusion, BaseIsCurrent, Holding, Writing, NoTxn

LEMMA LockHolds == Spec => [](TypeOK /\ LockInv)
BY TypeCorrect, LockInitially, LockInductive, PTL DEF Spec

\* Router.mu is held exactly while one goroutine is between Lock and Unlock.
THEOREM WritersExclude == Spec => []WriterExclusion
<1>1. LockInv => WriterExclusion
  BY DEF LockInv
<1>2. QED
  BY <1>1, LockHolds, PTL

\* A commit replaces exactly the table its transaction started from.
THEOREM NoUpdateIsLost == Spec => NoLostUpdate
<1> DEFINE Replaces == tree' # tree =>
              \E t \in Txns : Writing(t) /\ txn[t].base = tree /\ txn[t].root = tree'
<1>1. ASSUME TypeOK /\ LockInv, [Next]_vars PROVE [Replaces]_vars
  <2>1. CASE UNCHANGED vars
    BY <2>1
  <2>2. CASE Next /\ tree' = tree
    BY <2>2
  <2>3. CASE Next /\ tree' # tree
    <3>1. PICK t \in Txns : Commit(t)
      BY <2>3 DEF Next, Request, Lock, Load, BeginRead, SetRoot, Insert, Update, Delete,
                  Truncate, Capture, Abort, Unlock, Release
    <3>2. Writing(t) /\ txn[t].base = tree /\ txn[t].root = tree'
      BY <1>1, <3>1 DEF Commit, LockInv, BaseIsCurrent
    <3>3. QED
      BY <3>2
  <2>4. QED
    BY <1>1, <2>1, <2>2, <2>3
<1>2. QED
  BY <1>1, LockHolds, PTL DEF Spec, NoLostUpdate

-----------------------------------------------------------------------------
(* Nodes *)

Distinct(q) == \A i, j \in DOMAIN q : q[i] = q[j] => i = j

\* A heap with a cache of distinct nodes of it.
IsStore(s) ==
    /\ s = [nodes |-> s.nodes, lru |-> s.lru, names |-> s.names]
    /\ s.nodes = [n \in DOMAIN s.nodes |-> s.nodes[n]]
    /\ IsFiniteSet(DOMAIN s.nodes) /\ Nil \notin DOMAIN s.nodes
    /\ s.lru \in Seq(DOMAIN s.nodes) /\ Len(s.lru) <= CacheSize
    /\ Distinct(s.lru)

\* None of the nodes F may be written in place.
Frozen(F, s) == IsStore(s) /\ F \subseteq DOMAIN s.nodes /\ ToSet(s.lru) \cap F = {}

\* From s to t, nothing is lost and the nodes F stay as they are.
Leaves(F, s, t) ==
    /\ Frozen(F, t)
    /\ DOMAIN s.nodes \subseteq DOMAIN t.nodes
    /\ \A f \in F : t.nodes[f] = s.nodes[f]

\* The same, with a node that the transaction may go on writing to.
Keeps(F, s, x) == Leaves(F, s, x.s) /\ x.n \in DOMAIN x.s.nodes \ F

\* The same for a call that may fail.
Outcome(F, s, x) == Leaves(F, s, x.s) /\ (x.n = Nil \/ x.n \in DOMAIN x.s.nodes \ F)

-----------------------------------------------------------------------------

LEMMA FreshIdIsFree ==
    ASSUME NEW used, IsFiniteSet(used)
    PROVE  FreshId(used) \notin used /\ FreshId(used) # Nil
<1> DEFINE k == Cardinality(used)
<1>1. k \in Nat
  BY FS_CardinalityType
<1>2. \E i \in 1 .. k + 1 : i \notin used
  <2> SUFFICES ASSUME 1 .. k + 1 \subseteq used PROVE FALSE
    OBVIOUS
  <2>1. Cardinality(1 .. k + 1) = k + 1
    <3>1. 1 \in Int /\ k + 1 \in Int /\ ~(1 > k + 1) /\ (k + 1) - 1 + 1 = k + 1
      BY <1>1
    <3> HIDE DEF k
    <3> QED BY <3>1, FS_Interval
  <2>2. Cardinality(1 .. k + 1) <= k
    BY FS_Subset
  <2> HIDE DEF k
  <2> QED BY <1>1, <2>1, <2>2
<1>3. FreshId(used) \in 1 .. k + 1 /\ FreshId(used) \notin used
  BY <1>2 DEF FreshId
<1> HIDE DEF k
<1> QED BY <1>1, <1>3 DEF Nil

\* A transaction begins, and goes on after a snapshot, with an empty cache.
LEMMA EmptyCacheFreezesAll ==
    ASSUME NEW s, IsStore(s), s.lru = <<>>, NEW F, F \subseteq DOMAIN s.nodes
    PROVE  Frozen(F, s)
BY DEF Frozen, ToSet

LEMMA LeavesTransitive ==
    ASSUME NEW F, NEW s, NEW t, NEW u, Leaves(F, s, t), Leaves(F, t, u)
    PROVE  Leaves(F, s, u)
BY DEF Leaves

LEMMA PutProperties ==
    ASSUME NEW f, NEW k, NEW v
    PROVE  /\ DOMAIN Put(f, k, v) = DOMAIN f \cup {k}
           /\ Put(f, k, v)[k] = v
           /\ \A z \in DOMAIN f \ {k} : Put(f, k, v)[z] = f[z]
           /\ Put(f, k, v) = [z \in DOMAIN Put(f, k, v) |-> Put(f, k, v)[z]]
BY DEF Put

\* A store is known by its parts.
LEMMA StoreParts ==
    ASSUME NEW ns, NEW q, NEW nm, ns = [n \in DOMAIN ns |-> ns[n]],
           IsFiniteSet(DOMAIN ns), Nil \notin DOMAIN ns,
           q \in Seq(DOMAIN ns), Len(q) <= CacheSize,
           Distinct(q)
    PROVE  /\ IsStore([nodes |-> ns, lru |-> q, names |-> nm])
           /\ [nodes |-> ns, lru |-> q, names |-> nm].nodes = ns
           /\ [nodes |-> ns, lru |-> q, names |-> nm].lru = q
<1> DEFINE t == [nodes |-> ns, lru |-> q, names |-> nm]
<1>1. t.nodes = ns /\ t.lru = q /\ t.names = nm /\ t = [nodes |-> t.nodes, lru |-> t.lru, names |-> t.names]
  OBVIOUS
<1> HIDE DEF t
<1>2. IsStore(t)
  BY <1>1 DEF IsStore
<1> QED BY <1>1, <1>2 DEF t

\* A new node is nobody's yet.
LEMMA StoredKeeps ==
    ASSUME NEW F, NEW s, Frozen(F, s), NEW x, NEW id, id \notin DOMAIN s.nodes, id # Nil
    PROVE  /\ Keeps(F, s, StoredAt(s, id, x))
           /\ StoredAt(s, id, x).n = id
           /\ StoredAt(s, id, x).s.nodes[id] = x
           /\ StoredAt(s, id, x).s.lru = s.lru
           /\ DOMAIN StoredAt(s, id, x).s.nodes = DOMAIN s.nodes \cup {id}
<1> DEFINE ns == Put(s.nodes, id, x)
           t  == [s EXCEPT !.nodes = ns]
<1>1. StoredAt(s, id, x) = Res(t, id)
  BY DEF StoredAt
<1>2. /\ DOMAIN ns = DOMAIN s.nodes \cup {id} /\ ns[id] = x
      /\ \A n \in DOMAIN s.nodes : ns[n] = s.nodes[n]
      /\ ns = [n \in DOMAIN ns |-> ns[n]]
  BY DEF Put
<1> HIDE DEF ns
<1>3. t = [nodes |-> ns, lru |-> s.lru, names |-> s.names]
  BY DEF Frozen, IsStore
<1> HIDE DEF t
<1>4. IsFiniteSet(DOMAIN ns)
  BY <1>2, FS_AddElement DEF Frozen, IsStore
<1>5. s.lru \in Seq(DOMAIN ns)
  <2>1. DOMAIN s.nodes \subseteq DOMAIN ns /\ s.lru \in Seq(DOMAIN s.nodes)
    BY <1>2 DEF Frozen, IsStore
  <2> QED BY <2>1, SeqMonotonic
<1>6. IsStore(t) /\ t.nodes = ns /\ t.lru = s.lru
  <2>1. Nil \notin DOMAIN ns /\ Len(s.lru) <= CacheSize /\ Distinct(s.lru)
    BY <1>2 DEF Frozen, IsStore
  <2> QED BY <1>2, <1>3, <1>4, <1>5, <2>1, StoreParts
<1>7. Leaves(F, s, t)
  BY <1>2, <1>6 DEF Leaves, Frozen
<1>8. Res(t, id).s = t /\ Res(t, id).n = id
  BY DEF Res
<1> QED BY <1>1, <1>2, <1>6, <1>7, <1>8 DEF Keeps, Frozen

LEMMA NewKeeps ==
    ASSUME NEW F, NEW s, Frozen(F, s), NEW x
    PROVE  /\ Keeps(F, s, New(s, x))
           /\ New(s, x).n \notin DOMAIN s.nodes
           /\ New(s, x).s.nodes[New(s, x).n] = x
           /\ New(s, x).s.lru = s.lru
<1> DEFINE id == FreshId(DOMAIN s.nodes)
<1>1. id \notin DOMAIN s.nodes /\ id # Nil
  BY FreshIdIsFree DEF Frozen, IsStore
<1>2. New(s, x) = StoredAt(s, id, x)
  BY DEF New
<1> HIDE DEF id
<1> QED BY <1>1, <1>2, StoredKeeps

-----------------------------------------------------------------------------
(* The cache *)

\* A new entry goes to the front and at most the oldest one goes.
LEMMA TruncatedFront ==
    ASSUME NEW S, NEW q \in Seq(S), Distinct(q), NEW n \in S, n \notin ToSet(q),
           NEW k \in Nat \ {0}
    PROVE  /\ Truncated(<<n>> \o q, k) \in Seq(S) /\ Len(Truncated(<<n>> \o q, k)) <= k
           /\ Distinct(Truncated(<<n>> \o q, k)) /\ Truncated(<<n>> \o q, k) # <<>>
           /\ Truncated(<<n>> \o q, k)[1] = n
           /\ ToSet(Truncated(<<n>> \o q, k)) \subseteq ToSet(q) \cup {n}
<1> DEFINE p == <<n>> \o q
           m == IF Len(p) < k THEN Len(p) ELSE k
           r == SubSeq(p, 1, m)
<1>1. /\ p \in Seq(S) /\ Len(p) = 1 + Len(q) /\ Len(q) \in Nat /\ p[1] = n
      /\ \A i \in 2 .. Len(p) : p[i] = q[i - 1] /\ i - 1 \in DOMAIN q
  OBVIOUS
<1>2. m \in 1 .. Len(p) /\ m <= k
  BY <1>1
<1>3. Truncated(p, k) = r
  BY DEF Truncated
<1> HIDE DEF p, m
<1>4. /\ r \in Seq(S) /\ Len(r) = m /\ DOMAIN r = 1 .. m
      /\ \A i \in 1 .. m : r[i] = p[i]
  BY <1>1, <1>2
<1> HIDE DEF r
<1>5. \A i \in 2 .. m : r[i] = q[i - 1] /\ i - 1 \in DOMAIN q /\ r[i] # n
  BY <1>1, <1>2, <1>4 DEF ToSet
<1>6. r[1] = n /\ r # <<>>
  BY <1>1, <1>2, <1>4
<1>7. Distinct(r)
  <2> SUFFICES ASSUME NEW i \in 1 .. m, NEW j \in 1 .. m, r[i] = r[j] PROVE i = j
    BY <1>4 DEF Distinct
  <2>1. CASE i = 1 \/ j = 1
    BY <2>1, <1>2, <1>5, <1>6
  <2>2. CASE i \in 2 .. m /\ j \in 2 .. m
    BY <2>2, <1>2, <1>5 DEF Distinct
  <2> QED BY <1>2, <2>1, <2>2
<1>8. ToSet(r) \subseteq ToSet(q) \cup {n}
  BY <1>2, <1>4, <1>5, <1>6 DEF ToSet
<1> QED BY <1>2, <1>3, <1>4, <1>6, <1>7, <1>8 DEF p

LEMMA RemoveAtProperties ==
    ASSUME NEW S, NEW q \in Seq(S), NEW i \in 1 .. Len(q)
    PROVE  /\ RemoveAt(q, i) \in Seq(S) /\ Len(RemoveAt(q, i)) = Len(q) - 1
           /\ \A j \in 1 .. i - 1 : RemoveAt(q, i)[j] = q[j]
           /\ \A j \in i .. Len(q) - 1 : RemoveAt(q, i)[j] = q[j + 1]
<1> DEFINE a == SubSeq(q, 1, i - 1)
           b == SubSeq(q, i + 1, Len(q))
           c == a \o b
<1>1. /\ a \in Seq(S) /\ Len(a) = i - 1
      /\ \A j \in 1 .. i - 1 : a[j] = q[j]
  OBVIOUS
<1>2. /\ b \in Seq(S) /\ Len(b) = Len(q) - i
      /\ \A j \in 1 .. Len(q) - i : b[j] = q[i + j]
  OBVIOUS
<1>3. RemoveAt(q, i) = c
  BY DEF RemoveAt
<1> HIDE DEF a, b
<1>4. /\ c \in Seq(S) /\ Len(c) = Len(a) + Len(b)
      /\ \A j \in 1 .. Len(a) + Len(b) : c[j] = IF j <= Len(a) THEN a[j] ELSE b[j - Len(a)]
  BY <1>1, <1>2, ConcatProperties
<1> HIDE DEF c
<1>5. ASSUME NEW j \in 1 .. i - 1 PROVE c[j] = q[j]
  <2>1. j \in 1 .. Len(a) + Len(b) /\ j <= Len(a)
    BY <1>1, <1>2
  <2> QED BY <1>1, <1>4, <2>1
<1>6. ASSUME NEW j \in i .. Len(q) - 1 PROVE c[j] = q[j + 1]
  <2>1. /\ j \in 1 .. Len(a) + Len(b) /\ ~(j <= Len(a)) /\ j - Len(a) \in 1 .. Len(q) - i
        /\ i + (j - Len(a)) = j + 1
    BY <1>1, <1>2
  <2>2. c[j] = b[j - Len(a)]
    BY <1>4, <2>1
  <2>3. b[j - Len(a)] = q[i + (j - Len(a))]
    BY <1>2, <2>1
  <2> QED BY <2>1, <2>2, <2>3
<1> QED BY <1>1, <1>2, <1>3, <1>4, <1>5, <1>6

\* LRU.Get keeps the entries and their number.
LEMMA ToFrontProperties ==
    ASSUME NEW S, NEW q \in Seq(S), Distinct(q), NEW n \in ToSet(q)
    PROVE  /\ ToFront(q, n) \in Seq(S) /\ Len(ToFront(q, n)) = Len(q)
           /\ Distinct(ToFront(q, n))
           /\ ToSet(ToFront(q, n)) \subseteq ToSet(q) /\ ToFront(q, n)[1] = n
<1> DEFINE i == CHOOSE j \in DOMAIN q : q[j] = n
           c == RemoveAt(q, i)
           r == <<n>> \o c
<1>1. i \in 1 .. Len(q) /\ q[i] = n /\ Len(q) \in Nat /\ n \in S
  BY DEF ToSet
<1>2. ToFront(q, n) = r
  BY DEF ToFront
<1> HIDE DEF i
<1>3. /\ c \in Seq(S) /\ Len(c) = Len(q) - 1
      /\ \A j \in 1 .. i - 1 : c[j] = q[j]
      /\ \A j \in i .. Len(q) - 1 : c[j] = q[j + 1]
  BY <1>1, RemoveAtProperties
<1> HIDE DEF c
<1>4. /\ r \in Seq(S) /\ Len(r) = 1 + Len(c) /\ r[1] = n
      /\ \A j \in 2 .. Len(c) + 1 : r[j] = c[j - 1]
  BY <1>1, <1>3
<1> HIDE DEF r
<1>5. ASSUME NEW j \in 2 .. i PROVE r[j] = q[j - 1]
  <2>1. j \in 2 .. Len(c) + 1 /\ j - 1 \in 1 .. i - 1
    BY <1>1, <1>3
  <2> QED BY <1>3, <1>4, <2>1
<1>6. ASSUME NEW j \in i + 1 .. Len(q) PROVE r[j] = q[j]
  <2>1. j \in 2 .. Len(c) + 1 /\ j - 1 \in i .. Len(q) - 1 /\ (j - 1) + 1 = j
    BY <1>1, <1>3
  <2> QED BY <1>3, <1>4, <2>1
<1> DEFINE g(j) == IF j = 1 THEN i ELSE IF j <= i THEN j - 1 ELSE j
<1>7. \A j \in 1 .. Len(q) : g(j) \in 1 .. Len(q) /\ r[j] = q[g(j)]
  BY <1>1, <1>4, <1>5, <1>6
<1>8. \A j, k \in 1 .. Len(q) : g(j) = g(k) => j = k
  BY <1>1
<1> HIDE DEF g
<1>9. Distinct(r) /\ ToSet(r) \subseteq ToSet(q)
  <2>1. DOMAIN r = 1 .. Len(q) /\ DOMAIN q = 1 .. Len(q)
    BY <1>1, <1>3, <1>4
  <2> QED BY <1>7, <1>8, <2>1 DEF Distinct, ToSet
<1> QED BY <1>1, <1>2, <1>3, <1>4, <1>9

\* The cache may hold any nodes that are not in F.
LEMMA CacheLeaves ==
    ASSUME NEW F, NEW s, Frozen(F, s), NEW q \in Seq(DOMAIN s.nodes), Len(q) <= CacheSize,
           Distinct(q), ToSet(q) \cap F = {}
    PROVE  Leaves(F, s, [s EXCEPT !.lru = q]) /\ [s EXCEPT !.lru = q].nodes = s.nodes
<1> DEFINE t == [s EXCEPT !.lru = q]
<1>1. t = [nodes |-> s.nodes, lru |-> q, names |-> s.names]
  BY DEF Frozen, IsStore
<1> HIDE DEF t
<1>2. IsStore(t) /\ t.nodes = s.nodes /\ t.lru = q
  <2>1. /\ s.nodes = [n \in DOMAIN s.nodes |-> s.nodes[n]]
        /\ IsFiniteSet(DOMAIN s.nodes) /\ Nil \notin DOMAIN s.nodes
    BY DEF Frozen, IsStore
  <2> QED BY <1>1, <2>1, StoreParts
<1>3. Leaves(F, s, t)
  BY <1>2 DEF Leaves, Frozen
<1> QED BY <1>2, <1>3 DEF t

\* writeNode: whatever node it is asked for, one of F too, the node it returns is
\* not one of F, reads as that node did, and stays in the cache however small the
\* cache is; no node of the heap changes.
THEOREM WriteNodeKeeps ==
    ASSUME NEW F, NEW s, Frozen(F, s), NEW n \in DOMAIN s.nodes
    PROVE  /\ Keeps(F, s, WriteNode(s, n))
           /\ WriteNode(s, n).s.nodes[WriteNode(s, n).n] = s.nodes[n]
           /\ WriteNode(s, n).n \in ToSet(WriteNode(s, n).s.lru)
           /\ \A m \in DOMAIN s.nodes : WriteNode(s, n).s.nodes[m] = s.nodes[m]
<1> USE CacheSizeAssumption
<1>1. s.lru \in Seq(DOMAIN s.nodes) /\ Distinct(s.lru) /\ Len(s.lru) <= CacheSize
  BY DEF Frozen, IsStore
<1>2. CASE n \in ToSet(s.lru)
  <2> DEFINE q == ToFront(s.lru, n)
  <2>1. /\ q \in Seq(DOMAIN s.nodes) /\ Len(q) = Len(s.lru) /\ Distinct(q)
        /\ ToSet(q) \subseteq ToSet(s.lru) /\ q[1] = n
    BY <1>1, <1>2, ToFrontProperties
  <2>2. n \in ToSet(q)
    <3>1. Len(s.lru) # 0
      BY <1>1, <1>2 DEF ToSet
    <3>2. 1 \in DOMAIN q
      BY <1>1, <2>1, <3>1
    <3> QED BY <2>1, <3>2 DEF ToSet
  <2> HIDE DEF q
  <2> DEFINE t == [s EXCEPT !.lru = q]
  <2>3. WriteNode(s, n) = Res(t, n)
    BY <1>2 DEF WriteNode, q
  <2>4. Leaves(F, s, t) /\ t.nodes = s.nodes
    <3>1. Len(q) <= CacheSize /\ ToSet(q) \cap F = {}
      BY <1>1, <2>1 DEF Frozen
    <3> QED BY <2>1, <3>1, CacheLeaves
  <2>5. t.lru = q
    BY DEF Frozen, IsStore
  <2> HIDE DEF t
  <2>6. WriteNode(s, n).s = t /\ WriteNode(s, n).n = n
    BY <2>3 DEF Res
  <2>7. n \notin F
    BY <1>2 DEF Frozen
  <2> QED BY <2>2, <2>4, <2>5, <2>6, <2>7 DEF Keeps
<1>3. CASE n \notin ToSet(s.lru)
  <2> DEFINE c == New(s, s.nodes[n])
             q == Truncated(<<c.n>> \o c.s.lru, CacheSize)
             t == [c.s EXCEPT !.lru = q]
  <2>1. /\ Keeps(F, s, c) /\ c.n \notin DOMAIN s.nodes
        /\ c.s.nodes[c.n] = s.nodes[n] /\ c.s.lru = s.lru
    BY NewKeeps
  <2>2. \A m \in DOMAIN s.nodes : c.s.nodes[m] = s.nodes[m]
    <3>1. DOMAIN s.nodes \cap ToSet(s.lru) = ToSet(s.lru)
      BY <1>1 DEF ToSet
    <3>2. FreshId(DOMAIN s.nodes) \notin DOMAIN s.nodes
      BY FreshIdIsFree DEF Frozen, IsStore
    <3>3. c.s.nodes = Put(s.nodes, FreshId(DOMAIN s.nodes), s.nodes[n])
      BY DEF New, StoredAt, Res, Frozen, IsStore
    <3> QED BY <3>2, <3>3 DEF Put
  <2>3. WriteNode(s, n) = Res(t, c.n)
    BY <1>3 DEF WriteNode, Cached
  <2>4. c.n \in DOMAIN c.s.nodes /\ c.n \notin F /\ Frozen(F, c.s) /\ c.s.lru \in Seq(DOMAIN c.s.nodes)
    BY <2>1 DEF Keeps, Leaves, Frozen, IsStore
  <2>5. c.n \notin ToSet(c.s.lru) /\ Distinct(c.s.lru)
    BY <1>1, <2>1 DEF ToSet
  <2> HIDE DEF c
  <2>6. /\ q \in Seq(DOMAIN c.s.nodes) /\ Len(q) <= CacheSize /\ Distinct(q)
        /\ q # <<>> /\ q[1] = c.n /\ ToSet(q) \subseteq ToSet(c.s.lru) \cup {c.n}
    <3> DEFINE S == DOMAIN c.s.nodes
               p == c.s.lru
               m == c.n
    <3>1. p \in Seq(S) /\ Distinct(p) /\ m \in S /\ m \notin ToSet(p)
      BY <2>4, <2>5
    <3> HIDE DEF S, p, m
    <3>2. LET r == Truncated(<<m>> \o p, CacheSize)
          IN  /\ r \in Seq(S) /\ Len(r) <= CacheSize /\ Distinct(r)
              /\ r # <<>> /\ r[1] = m /\ ToSet(r) \subseteq ToSet(p) \cup {m}
      BY <3>1, TruncatedFront
    <3> QED BY <3>2 DEF S, p, m
  <2> HIDE DEF q
  <2>7. Leaves(F, c.s, t) /\ t.nodes = c.s.nodes
    <3>1. ToSet(q) \cap F = {}
      BY <2>4, <2>6 DEF Frozen
    <3> QED BY <2>4, <2>6, <3>1, CacheLeaves
  <2>8. t.lru = q /\ c.n \in ToSet(q)
    <3>1. 1 \in DOMAIN q
      BY <2>6
    <3> QED BY <2>4, <2>6, <3>1 DEF ToSet, Frozen, IsStore
  <2> HIDE DEF t
  <2>9. Leaves(F, s, t)
    BY <2>1, <2>7, LeavesTransitive DEF Keeps
  <2>10. WriteNode(s, n).s = t /\ WriteNode(s, n).n = c.n
    BY <2>3 DEF Res
  <2> QED BY <2>1, <2>2, <2>4, <2>7, <2>8, <2>9, <2>10 DEF Keeps
<1> QED BY <1>2, <1>3

-----------------------------------------------------------------------------
(* In-place writes *)

\* A write to a node outside F.
LEMMA UpdateLeaves ==
    ASSUME NEW F, NEW s, Frozen(F, s), NEW n \in DOMAIN s.nodes \ F, NEW y
    PROVE  /\ Leaves(F, s, [s EXCEPT !.nodes[n] = y])
           /\ [s EXCEPT !.nodes[n] = y].nodes[n] = y
           /\ DOMAIN [s EXCEPT !.nodes[n] = y].nodes = DOMAIN s.nodes
           /\ [s EXCEPT !.nodes[n] = y].lru = s.lru
<1> DEFINE ns == [s.nodes EXCEPT ![n] = y]
           t  == [s EXCEPT !.nodes[n] = y]
<1>1. t = [nodes |-> ns, lru |-> s.lru, names |-> s.names]
  BY DEF Frozen, IsStore
<1>2. /\ DOMAIN ns = DOMAIN s.nodes /\ ns[n] = y /\ \A m \in DOMAIN s.nodes \ {n} : ns[m] = s.nodes[m]
      /\ ns = [m \in DOMAIN ns |-> ns[m]]
  BY DEF Frozen, IsStore
<1> HIDE DEF ns, t
<1>3. IsStore(t) /\ t.nodes = ns /\ t.lru = s.lru
  <2>1. /\ IsFiniteSet(DOMAIN ns) /\ Nil \notin DOMAIN ns
        /\ s.lru \in Seq(DOMAIN ns) /\ Len(s.lru) <= CacheSize /\ Distinct(s.lru)
    BY <1>2 DEF Frozen, IsStore
  <2> QED BY <1>1, <1>2, <2>1, StoreParts
<1>4. Leaves(F, s, t)
  BY <1>2, <1>3 DEF Leaves, Frozen
<1> QED BY <1>2, <1>3, <1>4 DEF t

LEMMA SetStaticEdgeLeaves ==
    ASSUME NEW F, NEW s, Frozen(F, s), NEW n \in DOMAIN s.nodes \ F, NEW c
    PROVE  Leaves(F, s, SetStaticEdge(s, n, c))
<1> DEFINE y == [s.nodes[n] EXCEPT !.statics = Put(@, s.nodes[c].label, c)]
<1>1. SetStaticEdge(s, n, c) = [s EXCEPT !.nodes[n] = y]
  BY DEF SetStaticEdge
<1> HIDE DEF y
<1> QED BY <1>1, UpdateLeaves

LEMMA DelStaticEdgeLeaves ==
    ASSUME NEW F, NEW s, Frozen(F, s), NEW n \in DOMAIN s.nodes \ F, NEW label
    PROVE  Leaves(F, s, DelStaticEdge(s, n, label))
<1> DEFINE y == [s.nodes[n] EXCEPT !.statics = [l \in DOMAIN @ \ {label} |-> @[l]]]
<1>1. DelStaticEdge(s, n, label) = [s EXCEPT !.nodes[n] = y]
  BY DEF DelStaticEdge
<1> HIDE DEF y
<1> QED BY <1>1, UpdateLeaves

LEMMA AddEdgeLeaves ==
    ASSUME NEW F, NEW s, Frozen(F, s), NEW n \in DOMAIN s.nodes \ F, NEW f, NEW c
    PROVE  Leaves(F, s, AddEdge(s, n, f, c))
<1> PICK e : AddEdge(s, n, f, c) = [s EXCEPT !.nodes[n] = [s.nodes[n] EXCEPT ![f] = e]]
  BY DEF AddEdge
<1> QED BY UpdateLeaves

LEMMA MergeChildLeaves ==
    ASSUME NEW F, NEW s, Frozen(F, s), NEW n \in DOMAIN s.nodes \ F
    PROVE  Leaves(F, s, MergeChild(s, n))
<1>1. Leaves(F, s, s)
  BY DEF Leaves
<1>2. MergeChild(s, n) = s \/ \E y : MergeChild(s, n) = [s EXCEPT !.nodes[n] = y]
  BY DEF MergeChild
<1>3. CASE \E y : MergeChild(s, n) = [s EXCEPT !.nodes[n] = y]
  <2> PICK y : MergeChild(s, n) = [s EXCEPT !.nodes[n] = y]
    BY <1>3
  <2> QED BY UpdateLeaves
<1> QED BY <1>1, <1>2, <1>3

LEMMA ResParts ==
    ASSUME NEW s, NEW n
    PROVE  Res(s, n).s = s /\ Res(s, n).n = n
BY DEF Res

LEMMA KeepsTransitive ==
    ASSUME NEW F, NEW s, NEW t, NEW x, Leaves(F, s, t), Keeps(F, t, x)
    PROVE  Keeps(F, s, x)
BY LeavesTransitive DEF Keeps

\* A write to the node of a result, which stays that result's node.
LEMMA UpdateKeeps ==
    ASSUME NEW F, NEW s, NEW w, Keeps(F, s, w), NEW t, Leaves(F, w.s, t)
    PROVE  Keeps(F, s, Res(t, w.n))
<1>1. Leaves(F, s, t) /\ w.n \in DOMAIN t.nodes \ F
  BY LeavesTransitive DEF Keeps, Leaves
<1> QED BY <1>1, ResParts DEF Keeps

LEMMA WithChildKeeps ==
    ASSUME NEW F, NEW s, NEW w, Keeps(F, s, w), NEW c
    PROVE  Keeps(F, s, WithChild(w, c)) /\ WithChild(w, c).n = w.n
<1>1. Leaves(F, w.s, SetStaticEdge(w.s, w.n, c))
  BY SetStaticEdgeLeaves DEF Keeps, Leaves
<1> QED BY <1>1, UpdateKeeps, ResParts DEF WithChild

LEMMA ShortenedKeeps ==
    ASSUME NEW F, NEW s, NEW m, Keeps(F, s, m), NEW k
    PROVE  Keeps(F, s, Shortened(m, k)) /\ Shortened(m, k).n = m.n
<1> DEFINE rest == Drop(m.s.nodes[m.n].key, k)
           t == [m.s EXCEPT !.nodes[m.n].key = rest]
           u == [t EXCEPT !.nodes[m.n].label = Head(rest)]
<1>1. Shortened(m, k) = Res(u, m.n)
  BY DEF Shortened
<1> HIDE DEF rest
<1>2. Frozen(F, m.s) /\ m.n \in DOMAIN m.s.nodes \ F
  BY DEF Keeps, Leaves
<1>3. Leaves(F, m.s, t) /\ DOMAIN t.nodes = DOMAIN m.s.nodes
  <2> DEFINE y == [m.s.nodes[m.n] EXCEPT !.key = rest]
  <2>1. t = [m.s EXCEPT !.nodes[m.n] = y]
    OBVIOUS
  <2> HIDE DEF y, t
  <2> QED BY <1>2, <2>1, UpdateLeaves
<1> HIDE DEF t
<1>4. Leaves(F, t, u)
  <2> DEFINE y == [t.nodes[m.n] EXCEPT !.label = Head(rest)]
  <2>1. u = [t EXCEPT !.nodes[m.n] = y]
    OBVIOUS
  <2> HIDE DEF y, u
  <2>2. Frozen(F, t)
    BY <1>3 DEF Leaves
  <2> QED BY <1>2, <1>3, <2>1, <2>2, UpdateLeaves
<1> HIDE DEF u
<1> QED BY <1>1, <1>3, <1>4, LeavesTransitive, UpdateKeeps, ResParts

\* splitNode and the part of insert that hangs the old child below the new one.
LEMMA TakeOverKeeps ==
    ASSUME NEW F, NEW s, NEW w, Keeps(F, s, w), NEW child \in DOMAIN w.s.nodes,
           NEW sp \in DOMAIN w.s.nodes \ F
    PROVE  Keeps(F, s, TakeOver(w, child, sp)) /\ TakeOver(w, child, sp).n = w.n
           /\ DOMAIN w.s.nodes \subseteq DOMAIN TakeOver(w, child, sp).s.nodes
<1> DEFINE v == WriteNode(w.s, child)
           m == Shortened(v, Len(w.s.nodes[sp].key))
           t == SetStaticEdge(m.s, sp, m.n)
<1>1. TakeOver(w, child, sp) = Res(t, w.n)
  BY DEF TakeOver
<1>2. Frozen(F, w.s)
  BY DEF Keeps, Leaves
<1>3. Keeps(F, w.s, v)
  BY <1>2, WriteNodeKeeps
<1> HIDE DEF v
<1>4. Keeps(F, w.s, m)
  BY <1>3, ShortenedKeeps
<1> HIDE DEF m
<1>5. Leaves(F, m.s, t)
  <2>1. Frozen(F, m.s) /\ sp \in DOMAIN m.s.nodes \ F
    BY <1>4 DEF Keeps, Leaves
  <2> QED BY <2>1, SetStaticEdgeLeaves
<1> HIDE DEF t
<1>6. Leaves(F, w.s, t)
  BY <1>4, <1>5, LeavesTransitive DEF Keeps
<1>7. DOMAIN w.s.nodes \subseteq DOMAIN t.nodes
  BY <1>6 DEF Leaves
<1> QED BY <1>1, <1>6, <1>7, UpdateKeeps, ResParts

LEMMA SpliceKeeps ==
    ASSUME NEW F, NEW s, Frozen(F, s), NEW n \in DOMAIN s.nodes, NEW child \in DOMAIN s.nodes,
           NEW sp \in DOMAIN s.nodes \ F
    PROVE  Keeps(F, s, Splice(s, n, child, sp))
<1> DEFINE v == WriteNode(s, n)
           w == WithChild(v, sp)
<1>1. Keeps(F, s, v)
  BY WriteNodeKeeps
<1>2. Splice(s, n, child, sp) = TakeOver(w, child, sp)
  BY DEF Splice
<1> HIDE DEF v
<1>3. Keeps(F, s, w)
  BY <1>1, WithChildKeeps
<1> HIDE DEF w
<1>4. child \in DOMAIN w.s.nodes /\ sp \in DOMAIN w.s.nodes \ F
  BY <1>3 DEF Keeps, Leaves
<1> QED BY <1>2, <1>3, <1>4, TakeOverKeeps

LEMMA BranchKeeps ==
    ASSUME NEW F, NEW s, Frozen(F, s), NEW n \in DOMAIN s.nodes, NEW child \in DOMAIN s.nodes,
           NEW sp \in DOMAIN s.nodes \ F, NEW c
    PROVE  Keeps(F, s, Branch(s, n, child, sp, c))
<1> DEFINE x == Splice(s, n, child, sp)
           t == SetStaticEdge(x.s, sp, c)
<1>1. Keeps(F, s, x)
  BY SpliceKeeps
<1>2. Branch(s, n, child, sp, c) = Res(t, x.n)
  BY DEF Branch
<1> HIDE DEF x
<1>3. Leaves(F, x.s, t)
  <2>1. Frozen(F, x.s) /\ sp \in DOMAIN x.s.nodes \ F
    BY <1>1 DEF Keeps, Leaves
  <2> QED BY <2>1, SetStaticEdgeLeaves
<1> HIDE DEF t
<1> QED BY <1>1, <1>2, <1>3, UpdateKeeps

LEMMA WithBraceKeeps ==
    ASSUME NEW F, NEW s, NEW w, Keeps(F, s, w), NEW f, NEW i, NEW c
    PROVE  Keeps(F, s, WithBrace(w, f, i, c))
<1>1. Frozen(F, w.s) /\ w.n \in DOMAIN w.s.nodes \ F
  BY DEF Keeps, Leaves
<1>2. CASE i = 0
  BY <1>1, <1>2, AddEdgeLeaves, UpdateKeeps DEF WithBrace
<1>3. CASE i # 0
  <2> DEFINE t == [w.s EXCEPT !.nodes[w.n][f][i] = c]
  <2>1. \E y : t = [w.s EXCEPT !.nodes[w.n] = y]
    OBVIOUS
  <2>2. WithBrace(w, f, i, c) = Res(t, w.n)
    BY <1>3 DEF WithBrace
  <2> HIDE DEF t
  <2>3. Leaves(F, w.s, t)
    BY <1>1, <2>1, UpdateLeaves
  <2> QED BY <2>2, <2>3, UpdateKeeps
<1> QED BY <1>2, <1>3

LEMMA UnlinkKeeps ==
    ASSUME NEW F, NEW s, NEW w, Keeps(F, s, w), NEW dropped, Leaves(F, w.s, dropped),
           NEW kept, Leaves(F, w.s, kept), NEW child, NEW root, NEW n
    PROVE  Keeps(F, s, Unlink(child, root, n, w, dropped, kept))
<1>1. Leaves(F, w.s, MergeChild(dropped, w.n))
  <2>1. Frozen(F, dropped) /\ w.n \in DOMAIN dropped.nodes \ F
    BY DEF Keeps, Leaves
  <2>2. Leaves(F, dropped, MergeChild(dropped, w.n))
    BY <2>1, MergeChildLeaves
  <2> QED BY <2>2, LeavesTransitive
<1>2. PICK t \in {kept, MergeChild(dropped, w.n), dropped} :
         Unlink(child, root, n, w, dropped, kept) = Res(t, w.n)
  BY DEF Unlink
<1>3. Leaves(F, w.s, t)
  BY <1>1, <1>2
<1> QED BY <1>2, <1>3, UpdateKeeps

LEMMA OutcomeOf ==
    ASSUME NEW F, NEW s, NEW x
    PROVE  /\ Keeps(F, s, x) => Outcome(F, s, x)
           /\ Outcome(F, s, x) /\ x.n # Nil => Keeps(F, s, x)
BY DEF Keeps, Outcome

\* One node on the way back from a call that led from s to t.
LEMMA WriteAfter ==
    ASSUME NEW F, NEW s, NEW t, Leaves(F, s, t), NEW n \in DOMAIN t.nodes
    PROVE  Keeps(F, s, WriteNode(t, n))
<1>1. Frozen(F, t)
  BY DEF Leaves
<1> QED BY <1>1, WriteNodeKeeps, KeepsTransitive

-----------------------------------------------------------------------------
(* The steps of insertion and deletion *)

LEMMA WithRoutesKeeps ==
    ASSUME NEW F, NEW s, NEW t, Leaves(F, s, t), NEW n \in DOMAIN t.nodes, NEW rs
    PROVE  Keeps(F, s, WithRoutes(WriteNode(t, n), rs))
<1> DEFINE w == WriteNode(t, n)
           u == [w.s EXCEPT !.nodes[w.n].routes = rs]
<1>1. Keeps(F, s, w)
  BY WriteAfter
<1>2. WithRoutes(WriteNode(t, n), rs) = Res(u, w.n)
  BY DEF WithRoutes
<1> HIDE DEF w
<1>3. \E y : u = [w.s EXCEPT !.nodes[w.n] = y]
  OBVIOUS
<1> HIDE DEF u
<1>4. Frozen(F, w.s) /\ w.n \in DOMAIN w.s.nodes \ F
  BY <1>1 DEF Keeps, Leaves
<1>5. Leaves(F, w.s, u)
  BY <1>3, <1>4, UpdateLeaves
<1> QED BY <1>1, <1>2, <1>5, UpdateKeeps

\* Splice with a new node, and Branch with one.
LEMMA SpliceNewKeeps ==
    ASSUME NEW F, NEW s, NEW t, Leaves(F, s, t), NEW n \in DOMAIN t.nodes,
           NEW child \in DOMAIN t.nodes, NEW y, NEW c
    PROVE  /\ Keeps(F, s, SpliceNew(t, n, child, y))
           /\ Keeps(F, s, BranchAt(New(t, y), n, child, c))
<1> DEFINE sp == New(t, y)
<1>1. Keeps(F, t, sp)
  BY NewKeeps DEF Leaves
<1> HIDE DEF sp
<1>2. /\ Frozen(F, sp.s) /\ sp.n \in DOMAIN sp.s.nodes \ F /\ Leaves(F, t, sp.s)
      /\ n \in DOMAIN sp.s.nodes /\ child \in DOMAIN sp.s.nodes
  BY <1>1 DEF Keeps, Leaves
<1>3. Leaves(F, s, sp.s)
  BY <1>2, LeavesTransitive
<1>4. Keeps(F, s, Splice(sp.s, n, child, sp.n))
  BY <1>2, <1>3, SpliceKeeps, KeepsTransitive
<1>5. Keeps(F, s, Branch(sp.s, n, child, sp.n, c))
  BY <1>2, <1>3, BranchKeeps, KeepsTransitive
<1> QED BY <1>4, <1>5 DEF SpliceNew, SpliceAt, BranchAt, sp

\* Every step an insertion takes, of a route or of a name: at the node n itself,
\* after its name was registered or not (first two), and on the way back from an
\* insertion below n that may have failed.  The nodes F are what they were before
\* the call, and the node returned is not one of them.
THEOREM InsertionLeavesFrozen ==
    ASSUME NEW F, NEW s, Frozen(F, s), NEW x, Leaves(F, s, x.s),
           NEW n \in DOMAIN s.nodes, NEW child \in DOMAIN s.nodes
    PROVE  /\ \A rs : Outcome(F, s, WithRoutes(WriteNode(s, n), rs)) /\ Outcome(F, s, SetRoutes(x, n, rs))
           /\ \A y : Outcome(F, s, SpliceNew(s, n, child, y)) /\ Outcome(F, s, SpliceNamed(x, n, child, y))
           /\ \A y : Outcome(F, s, LinkStatic(New(s, y), n))
           /\ Outcome(F, s, x) =>
                 /\ Outcome(F, s, LinkStatic(x, n))
                 /\ \A f, i : Outcome(F, s, LinkBrace(x, n, f, i))
                 /\ Outcome(F, s, SpliceOver(x, n, child))
                 /\ \A y : Outcome(F, s, BranchNew(x, n, child, y))
                 /\ Outcome(F, s, Named(x))
<1>1. Leaves(F, s, s) /\ n \in DOMAIN x.s.nodes /\ child \in DOMAIN x.s.nodes
  BY DEF Leaves
<1>2. ASSUME NEW rs
      PROVE  Outcome(F, s, WithRoutes(WriteNode(s, n), rs)) /\ Outcome(F, s, SetRoutes(x, n, rs))
  <2>1. Keeps(F, s, WithRoutes(WriteNode(s, n), rs)) /\ Keeps(F, s, WithRoutes(WriteNode(x.s, n), rs))
    BY <1>1, WithRoutesKeeps
  <2>2. CASE x.n = Nil
    BY <2>1, <2>2, OutcomeOf DEF SetRoutes, Outcome
  <2>3. CASE x.n # Nil
    BY <2>1, <2>3, OutcomeOf DEF SetRoutes
  <2> QED BY <2>2, <2>3
<1>3. ASSUME NEW y
      PROVE  Outcome(F, s, SpliceNew(s, n, child, y)) /\ Outcome(F, s, SpliceNamed(x, n, child, y))
  <2>1. Keeps(F, s, SpliceNew(s, n, child, y)) /\ Keeps(F, s, SpliceNew(x.s, n, child, y))
    BY <1>1, SpliceNewKeeps
  <2>2. CASE x.n = Nil
    BY <2>1, <2>2, OutcomeOf DEF SpliceNamed, Outcome
  <2>3. CASE x.n # Nil
    BY <2>1, <2>3, OutcomeOf DEF SpliceNamed
  <2> QED BY <2>2, <2>3
<1>4. ASSUME NEW z, Keeps(F, s, z) PROVE Outcome(F, s, LinkStatic(z, n))
  <2>1. z.n # Nil /\ n \in DOMAIN z.s.nodes /\ Leaves(F, s, z.s)
    BY <1>4 DEF Keeps, Leaves, Frozen, IsStore
  <2> DEFINE w == WriteNode(z.s, n)
  <2>2. Keeps(F, s, w)
    BY <2>1, WriteAfter
  <2> HIDE DEF w
  <2> QED BY <2>1, <2>2, WithChildKeeps, OutcomeOf DEF LinkStatic, w
<1>5. ASSUME NEW y PROVE Outcome(F, s, LinkStatic(New(s, y), n))
  BY <1>4, NewKeeps
<1>6. ASSUME Outcome(F, s, x)
      PROVE  /\ Outcome(F, s, LinkStatic(x, n))
             /\ \A f, i : Outcome(F, s, LinkBrace(x, n, f, i))
             /\ Outcome(F, s, SpliceOver(x, n, child))
             /\ \A y : Outcome(F, s, BranchNew(x, n, child, y))
             /\ Outcome(F, s, Named(x))
  <2>1. CASE x.n = Nil
    BY <1>6, <2>1 DEF LinkStatic, LinkBrace, SpliceOver, BranchNew, Named
  <2>2. CASE x.n # Nil
    <3>1. Keeps(F, s, x) /\ Frozen(F, x.s) /\ x.n \in DOMAIN x.s.nodes \ F
      BY <1>6, <2>2 DEF Outcome, Keeps, Leaves
    <3> DEFINE w == WriteNode(x.s, n)
    <3>2. Keeps(F, s, w)
      BY <1>1, WriteAfter
    <3> HIDE DEF w
    <3>3. Outcome(F, s, LinkStatic(x, n))
      BY <1>4, <3>1
    <3>4. ASSUME NEW f, NEW i PROVE Outcome(F, s, LinkBrace(x, n, f, i))
      BY <2>2, <3>2, WithBraceKeeps, OutcomeOf DEF LinkBrace, w
    <3>5. Outcome(F, s, SpliceOver(x, n, child))
      <4>1. SpliceOver(x, n, child) = Splice(x.s, n, child, x.n)
        BY <2>2 DEF SpliceOver, SpliceAt
      <4>2. Keeps(F, x.s, Splice(x.s, n, child, x.n))
        BY <1>1, <3>1, SpliceKeeps
      <4> QED BY <4>1, <4>2, KeepsTransitive, OutcomeOf
    <3>6. ASSUME NEW y PROVE Outcome(F, s, BranchNew(x, n, child, y))
      <4>1. Keeps(F, s, BranchAt(New(x.s, y), n, child, x.n))
        BY <1>1, SpliceNewKeeps
      <4> QED BY <2>2, <4>1, OutcomeOf DEF BranchNew
    <3>7. Outcome(F, s, Named(x))
      <4> DEFINE t == [x.s EXCEPT !.names = x.n]
      <4>1. t = [nodes |-> x.s.nodes, lru |-> x.s.lru, names |-> x.n]
        BY <3>1 DEF Frozen, IsStore
      <4>2. Named(x) = Res(t, x.n)
        BY <2>2 DEF Named
      <4> HIDE DEF t
      <4>3. IsStore(t) /\ t.nodes = x.s.nodes /\ t.lru = x.s.lru
        <5>1. /\ x.s.nodes = [m \in DOMAIN x.s.nodes |-> x.s.nodes[m]]
              /\ IsFiniteSet(DOMAIN x.s.nodes) /\ Nil \notin DOMAIN x.s.nodes
              /\ x.s.lru \in Seq(DOMAIN x.s.nodes) /\ Len(x.s.lru) <= CacheSize /\ Distinct(x.s.lru)
          BY <3>1 DEF Frozen, IsStore
        <5> QED BY <4>1, <5>1, StoreParts
      <4>4. Leaves(F, x.s, t)
        BY <3>1, <4>3 DEF Leaves, Frozen
      <4> QED BY <3>1, <4>2, <4>4, UpdateKeeps, OutcomeOf
    <3> QED BY <3>3, <3>4, <3>5, <3>6, <3>7
  <2> QED BY <2>1, <2>2
<1> QED BY <1>2, <1>3, <1>5, <1>6

\* The same on the way back from a deletion below n, where an empty child is cut
\* off and a chain is merged: deleteStatic, deleteParam and deleteWildcard, and
\* deleteTokens and deleteName at the leaf itself.
THEOREM DeletionLeavesFrozen ==
    ASSUME NEW F, NEW s, Frozen(F, s), NEW x, Outcome(F, s, x),
           NEW n \in DOMAIN s.nodes, NEW root
    PROVE  /\ \A label : Outcome(F, s, UnlinkStatic(x, root, n, label))
           /\ \A f, i : Outcome(F, s, UnlinkBrace(x, root, n, f, i))
           /\ \A rs : Outcome(F, s, DropRoutes(s, root, n, rs))
<1>1. ASSUME x.n = Nil
      PROVE  /\ \A label : Outcome(F, s, UnlinkStatic(x, root, n, label))
             /\ \A f, i : Outcome(F, s, UnlinkBrace(x, root, n, f, i))
  BY <1>1 DEF UnlinkStatic, UnlinkBrace
<1>2. ASSUME x.n # Nil
      PROVE  /\ \A label : Outcome(F, s, UnlinkStatic(x, root, n, label))
             /\ \A f, i : Outcome(F, s, UnlinkBrace(x, root, n, f, i))
  <2> DEFINE w == WriteNode(x.s, n)
  <2>1. Keeps(F, s, w)
    <3>1. Leaves(F, s, x.s) /\ n \in DOMAIN x.s.nodes
      BY DEF Outcome, Leaves
    <3> QED BY <3>1, WriteAfter
  <2> HIDE DEF w
  <2>2. Frozen(F, w.s) /\ w.n \in DOMAIN w.s.nodes \ F
    BY <2>1 DEF Keeps, Leaves
  <2>3. ASSUME NEW label PROVE Outcome(F, s, UnlinkStatic(x, root, n, label))
    <3> DEFINE d == DelStaticEdge(w.s, w.n, label)
               k == SetStaticEdge(w.s, w.n, x.n)
    <3>1. Leaves(F, w.s, d) /\ Leaves(F, w.s, k)
      BY <2>2, DelStaticEdgeLeaves, SetStaticEdgeLeaves
    <3>2. UnlinkStatic(x, root, n, label) = Unlink(x.n, root, n, w, d, k)
      BY <1>2 DEF UnlinkStatic, w
    <3> HIDE DEF d, k
    <3> QED BY <2>1, <3>1, <3>2, UnlinkKeeps, OutcomeOf
  <2>4. ASSUME NEW f, NEW i PROVE Outcome(F, s, UnlinkBrace(x, root, n, f, i))
    <3> DEFINE d == [w.s EXCEPT !.nodes[w.n][f] = RemoveAt(@, i)]
               k == [w.s EXCEPT !.nodes[w.n][f][i] = x.n]
    <3>1. \E y : d = [w.s EXCEPT !.nodes[w.n] = y]
      OBVIOUS
    <3>2. \E y : k = [w.s EXCEPT !.nodes[w.n] = y]
      OBVIOUS
    <3>3. UnlinkBrace(x, root, n, f, i) = Unlink(x.n, root, n, w, d, k)
      BY <1>2 DEF UnlinkBrace, w
    <3> HIDE DEF d, k
    <3>4. Leaves(F, w.s, d) /\ Leaves(F, w.s, k)
      BY <2>2, <3>1, <3>2, UpdateLeaves
    <3> QED BY <2>1, <3>3, <3>4, UnlinkKeeps, OutcomeOf
  <2> QED BY <2>3, <2>4
<1>3. ASSUME NEW rs PROVE Outcome(F, s, DropRoutes(s, root, n, rs))
  <2> DEFINE w == WriteNode(s, n)
             d == [w.s EXCEPT !.nodes[w.n].routes = rs]
  <2>1. Keeps(F, s, w)
    BY WriteNodeKeeps
  <2>2. PICK t \in {MergeChild(d, w.n), d} : DropRoutes(s, root, n, rs) = Res(t, w.n)
    BY DEF DropRoutes
  <2> HIDE DEF w
  <2>3. \E y : d = [w.s EXCEPT !.nodes[w.n] = y]
    OBVIOUS
  <2> HIDE DEF d
  <2>4. Leaves(F, w.s, d)
    BY <2>1, <2>3, UpdateLeaves DEF Keeps, Leaves
  <2>5. Leaves(F, w.s, MergeChild(d, w.n))
    <3>1. Frozen(F, d) /\ w.n \in DOMAIN d.nodes \ F
      BY <2>1, <2>4 DEF Keeps, Leaves
    <3> QED BY <2>4, <3>1, MergeChildLeaves, LeavesTransitive
  <2> QED BY <2>1, <2>2, <2>4, <2>5, UpdateKeeps, OutcomeOf
<1> QED BY <1>1, <1>2, <1>3

-----------------------------------------------------------------------------
(* The routes of a leaf *)

\* What NewRoute lets through: no priority without matchers.
IsRoute(r) == r.priority \in Nat /\ (r.matchers = {} => r.priority = 0)

LEMMA NaturalsHaveAMinimum ==
    ASSUME NEW T, T \subseteq Nat, T # {}
    PROVE  \E x \in T : \A y \in T : x <= y
<1> DEFINE R == OpToRel(<, Nat)
<1>1. IsWellFoundedOn(R, Nat)
  BY NatLessThanWellFounded, Zenon
<1>2. ASSUME NEW x \in Nat, NEW y \in Nat, ~(<<y, x>> \in R) PROVE x <= y
  BY <1>2 DEF OpToRel
<1> HIDE DEF R
<1>3. \E x \in T : \A y \in T : ~(<<y, x>> \in R)
  BY <1>1, WFMin
<1> QED BY <1>2, <1>3

LEMMA FirstOfProperties ==
    ASSUME NEW T, T \subseteq Nat \ {0}
    PROVE  /\ FirstOf(T) = 0 <=> T = {}
           /\ T # {} => FirstOf(T) \in T /\ \A y \in T : FirstOf(T) <= y
<1>1. CASE T = {}
  BY <1>1 DEF FirstOf
<1>2. CASE T # {}
  <2>1. \E x \in T : \A y \in T : x <= y
    BY <1>2, NaturalsHaveAMinimum
  <2>2. Min(T) \in T /\ \A y \in T : Min(T) <= y
    BY <2>1 DEF Min
  <2> QED BY <1>2, <2>2 DEF FirstOf
<1> QED BY <1>1, <1>2

LEMMA InsertAtProperties ==
    ASSUME NEW S, NEW q \in Seq(S), NEW i \in 1 .. Len(q) + 1, NEW e \in S
    PROVE  /\ InsertAt(q, i, e) \in Seq(S) /\ Len(InsertAt(q, i, e)) = Len(q) + 1
           /\ \A j \in 1 .. i - 1 : InsertAt(q, i, e)[j] = q[j]
           /\ InsertAt(q, i, e)[i] = e
           /\ \A j \in i + 1 .. Len(q) + 1 : InsertAt(q, i, e)[j] = q[j - 1]
<1> DEFINE a == SubSeq(q, 1, i - 1)
           b == SubSeq(q, i, Len(q))
           d == a \o <<e>>
           c == d \o b
<1>1. /\ a \in Seq(S) /\ Len(a) = i - 1
      /\ \A j \in 1 .. i - 1 : a[j] = q[j]
  OBVIOUS
<1>2. /\ b \in Seq(S) /\ Len(b) = Len(q) + 1 - i
      /\ \A j \in 1 .. Len(q) + 1 - i : b[j] = q[i + j - 1]
  OBVIOUS
<1>3. InsertAt(q, i, e) = c
  BY DEF InsertAt
<1> HIDE DEF a, b
<1>4. /\ d \in Seq(S) /\ Len(d) = i /\ d[i] = e
      /\ \A j \in 1 .. i - 1 : d[j] = q[j]
  BY <1>1
<1> HIDE DEF d
<1>5. /\ c \in Seq(S) /\ Len(c) = Len(d) + Len(b)
      /\ \A j \in 1 .. Len(d) + Len(b) : c[j] = IF j <= Len(d) THEN d[j] ELSE b[j - Len(d)]
  BY <1>2, <1>4, ConcatProperties
<1> HIDE DEF c
<1>6. ASSUME NEW j \in 1 .. i PROVE c[j] = d[j]
  <2>1. j \in 1 .. Len(d) + Len(b) /\ j <= Len(d)
    BY <1>2, <1>4
  <2> QED BY <1>5, <2>1
<1>7. ASSUME NEW j \in i + 1 .. Len(q) + 1 PROVE c[j] = q[j - 1]
  <2>1. /\ j \in 1 .. Len(d) + Len(b) /\ ~(j <= Len(d)) /\ j - Len(d) \in 1 .. Len(q) + 1 - i
        /\ i + (j - Len(d)) - 1 = j - 1
    BY <1>2, <1>4
  <2>2. c[j] = b[j - Len(d)]
    BY <1>5, <2>1
  <2>3. b[j - Len(d)] = q[i + (j - Len(d)) - 1]
    BY <1>2, <2>1
  <2> QED BY <2>1, <2>2, <2>3
<1> QED BY <1>2, <1>3, <1>4, <1>5, <1>6, <1>7

LEMMA PrecedesIsTotal ==
    ASSUME NEW q, IsRoute(q), NEW r, IsRoute(r)
    PROVE  Precedes(q, r) \/ Precedes(r, q)
BY DEF IsRoute, Precedes

LEMMA PrecedesIsTransitive ==
    ASSUME NEW q, IsRoute(q), NEW r, IsRoute(r), NEW t, IsRoute(t), Precedes(q, r), Precedes(r, t)
    PROVE  Precedes(q, t)
BY DEF IsRoute, Precedes

\* insertPosition: everything before it precedes the route, the next one does not.
LEMMA InsertPositionSplits ==
    ASSUME NEW R, \A x \in R : IsRoute(x), NEW rs \in Seq(R), NEW r \in R
    PROVE  /\ InsertPosition(rs, r) \in 1 .. Len(rs) + 1
           /\ \A k \in 1 .. InsertPosition(rs, r) - 1 : Precedes(rs[k], r)
           /\ InsertPosition(rs, r) <= Len(rs) => ~Precedes(rs[InsertPosition(rs, r)], r)
<1> DEFINE before(q) == \/ r.methods # {} /\ q.methods = {}
                        \/ /\ (r.methods # {}) = (q.methods # {})
                           /\ r.matchers # {}
                           /\ q.matchers = {} \/ r.priority > q.priority
           T == {k \in DOMAIN rs : before(rs[k])}
           i == FirstOf(T)
           p == InsertPosition(rs, r)
<1>1. \A q \in R : before(q) <=> ~Precedes(q, r)
  BY DEF IsRoute, Precedes
<1>2. p = IF i = 0 THEN Len(rs) + 1 ELSE i
  BY DEF InsertPosition
<1> HIDE DEF before
<1>3. DOMAIN rs = 1 .. Len(rs) /\ Len(rs) \in Nat /\ \A k \in DOMAIN rs : rs[k] \in R
  OBVIOUS
<1>4. T = {k \in 1 .. Len(rs) : ~Precedes(rs[k], r)}
  BY <1>1, <1>3
<1> HIDE DEF T
<1>5. /\ i = 0 <=> T = {}
      /\ T # {} => i \in T /\ \A y \in T : i <= y
  <2>1. T \subseteq Nat \ {0}
    BY <1>3, <1>4
  <2> QED BY <2>1, FirstOfProperties
<1> HIDE DEF i, p
<1>6. CASE i = 0
  BY <1>2, <1>3, <1>4, <1>5, <1>6 DEF p
<1>7. CASE i # 0
  <2>1. p = i /\ i \in 1 .. Len(rs) /\ ~Precedes(rs[i], r)
    BY <1>2, <1>4, <1>5, <1>7
  <2>2. \A k \in 1 .. i - 1 : Precedes(rs[k], r)
    BY <1>3, <1>4, <1>5, <1>7, <2>1
  <2> QED BY <1>3, <2>1, <2>2 DEF p
<1> QED BY <1>6, <1>7

LEMMA InsertedInOrder ==
    ASSUME NEW R, \A x \in R : IsRoute(x), NEW rs \in Seq(R), InOrder(rs), NEW r \in R
    PROVE  InOrder(InsertAt(rs, InsertPosition(rs, r), r))
<1> DEFINE p == InsertPosition(rs, r)
           t == InsertAt(rs, p, r)
<1>1. /\ p \in 1 .. Len(rs) + 1
      /\ \A k \in 1 .. p - 1 : Precedes(rs[k], r)
      /\ p <= Len(rs) => ~Precedes(rs[p], r)
  BY InsertPositionSplits
<1> HIDE DEF p
<1>2. /\ t \in Seq(R) /\ Len(t) = Len(rs) + 1
      /\ \A j \in 1 .. p - 1 : t[j] = rs[j]
      /\ t[p] = r
      /\ \A j \in p + 1 .. Len(rs) + 1 : t[j] = rs[j - 1]
  BY <1>1, InsertAtProperties
<1> HIDE DEF t
<1>3. DOMAIN rs = 1 .. Len(rs) /\ Len(rs) \in Nat /\ \A k \in 1 .. Len(rs) : rs[k] \in R
  OBVIOUS
<1>4. ASSUME NEW k \in p .. Len(rs) PROVE Precedes(r, rs[k])
  <2>1. p \in 1 .. Len(rs) /\ k \in 1 .. Len(rs)
    BY <1>1, <1>3
  <2>2. Precedes(r, rs[p])
    BY <1>1, <1>3, <2>1, PrecedesIsTotal
  <2>3. k = p \/ Precedes(rs[p], rs[k])
    BY <1>3, <2>1 DEF InOrder
  <2> QED BY <1>3, <2>1, <2>2, <2>3, PrecedesIsTransitive
<1>5. ASSUME NEW i \in 1 .. Len(rs) + 1, NEW j \in 1 .. Len(rs) + 1, i < j
      PROVE  Precedes(t[i], t[j])
  <2>1. CASE i = p
    <3>1. j \in p + 1 .. Len(rs) + 1 /\ j - 1 \in p .. Len(rs)
      BY <1>1, <1>3, <1>5, <2>1
    <3> QED BY <1>2, <1>4, <2>1, <3>1
  <2>2. CASE j = p
    <3>1. i \in 1 .. p - 1
      BY <1>1, <1>3, <1>5, <2>2
    <3> QED BY <1>1, <1>2, <2>2, <3>1
  <2>3. CASE i # p /\ j # p
    <3> DEFINE a == IF i < p THEN i ELSE i - 1
               b == IF j < p THEN j ELSE j - 1
    <3>1. a \in 1 .. Len(rs) /\ b \in 1 .. Len(rs) /\ a < b
      BY <1>1, <1>3, <1>5, <2>3
    <3>2. t[i] = rs[a]
      BY <1>1, <1>2, <1>3, <2>3
    <3>3. t[j] = rs[b]
      BY <1>1, <1>2, <1>3, <2>3
    <3> HIDE DEF a, b
    <3> QED BY <1>3, <3>1, <3>2, <3>3 DEF InOrder
  <2> QED BY <2>1, <2>2, <2>3
<1>6. DOMAIN t = 1 .. Len(rs) + 1
  BY <1>2, <1>3
<1> QED BY <1>5, <1>6 DEF InOrder, p, t

LEMMA RemovedInOrder ==
    ASSUME NEW R, NEW rs \in Seq(R), InOrder(rs), NEW i \in 1 .. Len(rs)
    PROVE  InOrder(RemoveAt(rs, i)) /\ RemoveAt(rs, i) \in Seq(R)
<1> DEFINE t == RemoveAt(rs, i)
<1>1. /\ t \in Seq(R) /\ Len(t) = Len(rs) - 1
      /\ \A j \in 1 .. i - 1 : t[j] = rs[j]
      /\ \A j \in i .. Len(rs) - 1 : t[j] = rs[j + 1]
  BY RemoveAtProperties
<1> HIDE DEF t
<1>2. DOMAIN rs = 1 .. Len(rs) /\ Len(rs) \in Nat /\ DOMAIN t = 1 .. Len(rs) - 1
  BY <1>1
<1>3. ASSUME NEW j \in 1 .. Len(rs) - 1, NEW k \in 1 .. Len(rs) - 1, j < k
      PROVE  Precedes(t[j], t[k])
  <2> DEFINE a == IF j < i THEN j ELSE j + 1
             b == IF k < i THEN k ELSE k + 1
  <2>1. a \in 1 .. Len(rs) /\ b \in 1 .. Len(rs) /\ a < b
    BY <1>2, <1>3
  <2>2. t[j] = rs[a] /\ t[k] = rs[b]
    BY <1>1, <1>2
  <2> HIDE DEF a, b
  <2> QED BY <1>2, <2>1, <2>2 DEF InOrder
<1> QED BY <1>1, <1>2, <1>3 DEF InOrder, t

\* addRoute, replaceRoute and delRoute keep the routes of a leaf in the order in
\* which lookups try them: those with methods first, then those with matchers,
\* then by falling priority, also when an update changes the priority.
THEOREM RoutesStayInOrder ==
    ASSUME NEW R, \A x \in R : IsRoute(x), NEW rs \in Seq(R), InOrder(rs), NEW r \in R
    PROVE  /\ InOrder(AddRoute(rs, r))
           /\ \A i \in DOMAIN rs : InOrder(RemoveAt(rs, i))
           /\ \A i \in DOMAIN rs : SameKey(rs[i], r) => InOrder(ReplaceRoute(rs, i, r))
<1>1. DOMAIN rs = 1 .. Len(rs) /\ Len(rs) \in Nat /\ \A k \in 1 .. Len(rs) : rs[k] \in R
  OBVIOUS
<1>2. InOrder(AddRoute(rs, r))
  <2>1. CASE r.methods = {} /\ r.matchers = {}
    <3>1. AddRoute(rs, r) = Append(rs, r)
      BY <2>1 DEF AddRoute
    <3>2. \A k \in 1 .. Len(rs) : Precedes(rs[k], r)
      BY <1>1, <2>1 DEF Precedes, IsRoute
    <3> QED BY <1>1, <3>1, <3>2 DEF InOrder
  <2>2. CASE ~(r.methods = {} /\ r.matchers = {})
    BY <2>2, InsertedInOrder DEF AddRoute
  <2> QED BY <2>1, <2>2
<1>3. ASSUME NEW i \in DOMAIN rs PROVE InOrder(RemoveAt(rs, i)) /\ RemoveAt(rs, i) \in Seq(R)
  BY <1>1, RemovedInOrder
<1>4. ASSUME NEW i \in DOMAIN rs, SameKey(rs[i], r) PROVE InOrder(ReplaceRoute(rs, i, r))
  <2>1. CASE rs[i].priority = r.priority \/ r.matchers = {}
    <3> DEFINE t == [rs EXCEPT ![i] = r]
    <3>1. ReplaceRoute(rs, i, r) = t
      BY <2>1 DEF ReplaceRoute
    <3>2. rs[i].methods = r.methods /\ rs[i].matchers = r.matchers /\ rs[i].priority = r.priority
      BY <1>1, <1>4, <2>1 DEF SameKey, IsRoute
    <3>3. \A q : (Precedes(q, r) <=> Precedes(q, rs[i])) /\ (Precedes(r, q) <=> Precedes(rs[i], q))
      BY <3>2 DEF Precedes
    <3>4. DOMAIN t = DOMAIN rs /\ \A k \in DOMAIN rs : t[k] = IF k = i THEN r ELSE rs[k]
      BY <1>1
    <3> HIDE DEF t
    <3> QED BY <1>1, <3>1, <3>3, <3>4 DEF InOrder
  <2>2. CASE ~(rs[i].priority = r.priority \/ r.matchers = {})
    <3>1. ReplaceRoute(rs, i, r) = InsertAt(RemoveAt(rs, i), InsertPosition(RemoveAt(rs, i), r), r)
      BY <2>2 DEF ReplaceRoute
    <3> QED BY <1>3, <3>1, InsertedInOrder
  <2> QED BY <2>1, <2>2
<1> QED BY <1>2, <1>3, <1>4
=============================================================================
