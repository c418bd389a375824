# A TLA+ model of the fox router

Fox is an HTTP router for Go.  Routes can be added, updated and deleted while
requests are served: writers work on a copy-on-write radix tree inside a
transaction, readers load the published tree with one atomic read and walk it
without a lock.  This directory holds TLA+ modules that model the router, the
TLC configurations that check them on small instances, and theorems that TLAPS
proves for every instance.

## Inventory

| part | state | operations | how it interacts |
| --- | --- | --- | --- |
| Router and transactions (`fox.go`, `txn.go`) | `Router.mu`, `Router.tree` (atomic pointer), `Txn.rootTxn`, `Txn.write` | `Txn`, `Add`, `Update`, `Delete`, `Truncate`, `Snapshot`, `Iter`, `Commit`, `Abort`, `Updates`, `View` | writers hold `mu` from `Txn(true)` to `Commit`/`Abort`; readers and requests load `tree` |
| Tree (`tree.go`, `node.go`) | nodes (label, key, routes, static/param/wildcard edges), names tree, method counters, size; per transaction the cache of writable nodes and the `forked` flag | `insert`, `delete`, `truncate`, `insertName`, `deleteName`, `writeNode`, `mergeChild`, `commit`, `clone`, `snapshot` | nodes and maps are shared between trees |
| Writable cache (`internal/simplelru`) | ring list and map | `Get`, `Add`, eviction | decides which nodes `writeNode` changes in place |
| Searches (`node.go`) | none | `searchPattern`, `searchName` | used by `Route`, `Has`, `Name` |
| Lookup (`node.go`, `lookupstate.go`, `pikevm.go`) | skip stack, memo of failures, parameters, listings of match ends, threads | `lookupByHostname`, `lookupByPath`, `pikeVM.run` | called by `ServeHTTP`, `Match`, `Lookup`; backtracks, and hands over to a Pike VM when it would repeat itself |
| Regexp engine (`internal/regprog`) | per listing: start, position, threads, reach | `Start`, `Next`, `Reach`, `Reset` | lists for the lookup where a wildcard with an expression may end |
| Dispatch (`fox.go`) | the context of the request | `ServeHTTP`, redirects, automatic OPTIONS, 405 | lookup, then a handler |
| Contexts (`context.go`) | request, writer, params, pool per tree | `reset`, `Clone`, `CloneWith`, `Close` | taken from the pool of the tree a request loaded |
| Recorder (`response_writer.go`) | status, size, hijacked | `WriteHeader`, `Write`, `ReadFrom`, `FlushError`, `Hijack` | wraps the server's writer |
| Recovery, logger | none | middleware | use the recorder to decide whether a reply can still be sent |
| Iterators (`iter.go`) | roots captured at creation, a stack | `All`, `Routes`, `NamePrefix`, `PatternPrefix`, `Names`, `Methods` | walk a snapshot |
| Parser (`parser.go`) | none that outlives a call | `parsePattern` | turns a pattern into the tokens the tree files; `searchPattern` reads the same text again |
| Path normalisation (`path.go`) | none that outlives a call | `MergeSlashes`, `CollapseDotSegments` | called by the dispatcher before a lookup |
| Client IP (`clientip`) | none | the resolvers | read the headers proxies wrote |
| Matchers, options | none that outlives a call | pure functions | fill routes and the router's configuration |

What is hard here, and what makes each part correct:

- **Sharing without locks.**  A writer changes nodes in place when they are in
  its cache of writable nodes.  That is right only if nobody else reaches them:
  the cache has to be forgotten at every commit, snapshot and iteration.  A
  mistake shows as a reader that sees half an insertion, once in a while.
- **Writers.**  One mutex, taken in one call and given back in another, and a
  deferred `Abort` that runs after a successful `Commit`.  Commits must not
  overwrite each other, a settled transaction must not unlock again, and every
  waiter must get its turn.
- **Long sequences of insertions and deletions.**  They split and merge nodes;
  routes, names, counters and the size must agree after any of them, and calls
  that fail half-way must leave no trace.
- **Backtracking.**  The lookup keeps a stack of alternatives, the captures so
  far and a memo of what failed, over a hostname walk with path walks inside.
  It must end, return a route that matches with its captures, find one if there
  is one, and prefer the one the documentation promises.
- **Two machines for one lookup.**  When a nested wildcard with an expression
  would be scanned again, a Pike VM goes on from the middle of the backtracking
  lookup, and must return what the latter would have.
- **Two readers of one text.**  A pattern is read by the parser and, later, by
  the searches; a forwarding header is written by proxies and read from either
  end by resolvers, with text of the client in front.
- **One request, several replies.**  Redirects, `Allow` and 404 are promises
  about the next request; each comes from another lookup than the one that will
  serve it.
- **Reuse.**  Contexts and recorders are pooled: what one request leaves behind
  must not reach the next one.
- **The reply in progress.**  A panic may arrive before, during or after a
  reply; the recovery has to know which from the recorder alone.

`PROJECT.json` lists these as hazards, each at its line and with the properties
that would catch it.

## Modules

    RouteTable ──┬── RouterTxn ── RouterProofs (with CowNode)
                 ├── CowNode ── CowTree ── CowIter ── CowRouter   implements RouterTxn
                 └── RouteMatch                                   reference for
                     CowTree + RouteMatch + Regprog ── LookupNode ── PikeVM ── RouteLookup
    Regprog ── RegprogEnds ── RegprogEndsProofs
    PathRef ─┬─ PathRefProofs
             ├─ PathNorm ── PathNormProofs (with PathRefProofs)
             ├─ Dispatch (with RouteMatch) ── DispatchProofs (with PathRefProofs)
             └─ PatternParser ─┬─ PatternReads
                               └─ PatternParserProofs
    Recorder ── RecorderProofs
    ContextPool ── ContextProofs (with ClientIP)
    AddrList ── ClientIP

**RouteTable** is the table of routes as a value: the set of routes, the name
index, the counter of routes per method (a machine word, modulo `MaxUint + 1`)
and the size, with the conflict rules of `insertTokens` and the bookkeeping of
insertion, update and deletion.

**RouterTxn** is what the router promises: tables as private values, write
transactions serialized by `mu`, a commit that replaces the published table in
one step.  `Lock`, `Load`, `Commit` and `Unlock` are separate actions, since a
goroutine can be preempted between them.  A call that fails is a stuttering
step.

**CowNode**, **CowTree** and **CowRouter** are the real structures: nodes in a
shared heap, edges, the cache of writable nodes with its bound and eviction,
`writeNode`, splitting and merging, the names tree, the shared map of method
counters with its `forked` flag, snapshots.  One action is one call of the API,
failing calls included, with everything it wrote before it failed; this is as
fine as it needs to be, because a writer is alone (`mu`) and a reader only
reads: a write to a node that a reader could reach is an error whatever the
interleaving, and that is what `WritableIsPrivate` and the refinement say.
Addresses are renamed and unreachable nodes dropped after each step; a cached
node that became unreachable stays in the cache as an empty slot.

**CowIter** adds the iterators: the walk of `NamePrefix` and `PatternPrefix` by a
stack of edges, and `Routes`.

**RouteMatch** says which routes match a request and which match is preferred,
on token lists, without a tree.  **RouteLookup** is `lookupByHostname` and
`lookupByPath` as a machine: one action per branch of the walk, with the skip
stack, the captures, the memo and the nested path lookups, on trees that
`CowTree` builds.  **LookupNode** holds what it asks of a node, **PikeVM** what
the VM does at one position of the input (`visit`, `spawn`, the order of threads
and the match that cuts them); a hostname VM that needs the path below a node
looked up waits for it.

**Regprog** is `internal/regprog`: what follows an instruction without consuming
a rune in each context of the empty-width assertions, and `Ends`, the listing of
matching prefixes.  **RegprogEnds** drives one listing with any sequence of
`Start`, `Next` and `Reset`; `PikeVM` and `RouteLookup` use the same operators.

**PatternParser** is `parsePattern`: one action per branch of the loops over the
hostname and the path, with their counters, limits and errors, whose offsets are
kept.  **PatternReads** says what others make of an accepted pattern: the edges
`searchPattern` reads in the text (`parseBraceSegment`) and `NormalizeRawPath`,
which a request path passes.

**AddrList** is how a forwarding header is taken apart, forwards and backwards;
**ClientIP** has a client that sends any header, proxies that add the addresses
they see, in any form the syntax allows, and a server that asks a resolver.  A
resolver is a sequence of records, one for each resolver of a `Chain`, that say
its kind, its count or limit and whether it is behind a `TrustedPeer`: with one
set of ranges and one answer of `TrustedIPRange` for a call, chains and trusted
peers nested in any way answer like such a sequence.

**PathRef** says which bytes of a path stay: of slashes in a row the first, and
the bytes of the elements that RFC 3986 dot-segment removal leaves (`Left`, a set
of positions where elements start; a `..` takes its greatest one away).
**PathNorm** is the code: the byte loops with their read and write positions and
the buffer that is allocated at the first difference.

**Dispatch** is `ServeHTTP` in stages, and a client that follows redirects
(resolving dot segments of a `Location` as RFC 3986 says, so that the request it
sends has a path and is not opaque) and asks again with another method.  A
`Location` that starts with two slashes names a host (`IsNetworkPath`): there the
client leaves.  `rewriteRequest` copies the request unless its argument says
that it is owned; the three calls pass what the code passes (`FALSE`, then the
local flag `rewritten`), and whether the context shows a copy is a ghost of its own,
`copied`.  The lookup is `RouteMatch`, the reference `RouteLookup` is
checked against.  A request carries what the dispatcher distinguishes: method,
routing path, whether the wire path has to be rewritten, whether the URL is
opaque, whether it is a CORS preflight.

**Recorder** is the response recorder between a handler that may call anything
in any order, end normally or panic, and a server's writer that implements any
combination of the optional interfaces; `recovery` is the last stage.

**ContextPool** has contexts as addresses in pools, one pool per tree, with the
params slices and recorders they own.  Handlers, middleware, `Match`, `Lookup`,
`Clone`, `CloneWith` and `Close` act on them, while trees are published.

The actions carry the names of the functions they model; `PROJECT.json` maps
each definition to its lines.

## Runs

| run | instance | shows |
| --- | --- | --- |
| `txn` | two writers, a reader, five routes that conflict, shadow each other and compete for names | exclusion, consistent tables, no lost commit, and a goroutine waiting in `Txn(true)` gets its transaction |
| `cow_names` | a writer and a reader, snapshot or iterator, cache of two nodes, four routes with names `n`, `nm`, `nk` | in-place writes stay private, searches and iterators find every route and name, tables behave as values |
| `cow_shapes` | one writer, cache of two nodes, four families of routes: splits and merges; params with and without an expression and under two names; hostnames, one a prefix of another and two below a param; a leaf of several routes and an optional catch-all | the radix shape, the order within a leaf, searches and iterators, and tables as values, after any sequence of changes |
| `lookup` | every tree of up to three of 13 path patterns, of 12 with hostnames, of 7 with nested wildcards in the hostname, and of up to two of 10 with nested wildcards in the path; paths of up to four characters over `a b /` and longer ones built from segments | the preferred match is returned with its captures, or none exists, with and without the Pike VM; stack discipline, sound memo, termination |
| `lookup_glued` | three patterns that share the segment `/a` | a violation, see Findings |
| `regprog` | five programs with loops, empty alternatives, word boundaries and a class that matches nothing; texts of up to four bytes and some with a rune of two bytes | every answer of a listing, asked in any order, is what matching each prefix afresh gives, and the reach of a listing never falls |
| `pattern_parser` | every hostname of up to four of 8 pieces and path of up to five of 8, rarer text (escapes, controls, bad names and expressions) between two pieces; one router that merges slashes and allows expressions, one that does neither | the tokens of an accepted pattern spell it, keep what lookups count on and are found again by the search; a path is refused for its bytes exactly when no request path has them |
| `client_ip` | two clients, up to two proxies that may hide a peer, three headers with up to three pieces of the client's own text, nine resolvers | a resolver that suits the deployment returns the client, and one that goes by the proxies never returns text of the client |
| `recorder` | five kinds of codes, bodies around a copy buffer of two bytes | the recorder tells the truth, the recovery never mixes its error into a reply |
| `path_norm` | all paths of up to six characters over `/ . a` or five segments, nine pairs of modes | the loops compute the reference, write behind what they read, and end |
| `dispatch` | nine pairs of modes, single routes in three slash modes, two full tables and a route for every path (`/+{w}`), all paths of up to five characters over `/ . a`; tables of up to two of 15 routes, six methods, 405 and OPTIONS on and off | redirects lead to a handler, except for the `Location` `//`; the context fits the handler, the caller's request is left alone, what `Allow` and 404 say holds for the next request |
| `context_pool` | three contexts, two requests, two trees, five operations | no context, params slice or recorder is shared or stale |

Bounds.  Two writers are enough for a race for the lock and one reader for a
shared node: everything else is symmetric.  A cache of two nodes overflows
within a single insertion, where the real cache of 4096 would
need a huge transaction.  Three routes in a tree are enough for a split, a
merge and two alternatives at one node; the lookup needs at most that many to
make a wrong turn and come back, and two nested wildcards to hand over to the
VM.  Labels of two bytes, hostnames of four and three parameters stand for the
limits 63, 253 and 255 (unless configured) of the parser, and are passed by
the instances.  Six characters hold two dot segments or a run
of three slashes and what follows them; one request after the first shows a
broken promise of `Allow`, two show a redirect loop.  `MaxSteps` bounds
`ContextPool` only to keep the run short: five steps are enough for a context
to be taken, filled, released and taken again, and for a clone of a clone.

Deadlock is checked, except in `dispatch`, where the client may stop,
`path_norm`, `pattern_parser` and `client_ip`, which end with their result, and
`context_pool`, which stops at its bound.

### Fairness

`txn` assumes strong fairness of `Lock`, which Go's mutex gives (in
starvation mode it hands the lock to the longest waiter), and weak fairness of
the steps that follow: a running goroutine goes on, and a write transaction is
finalized (`Updates`, `Add`, `Update`, `Delete` defer `Abort`; a user of `Txn`
is told to).  Nothing makes a goroutine start a transaction or write in it.
The path loops assume weak fairness of their only step: a loop that waits for
nothing goes on.  The lookup needs no fairness: `LookupTerminates` says that it
takes finitely many steps, and the absence of deadlocks that it does not stop
before it returns.

### Findings

`lookup_glued`: a comment in `lookupByPath` says that a match with another
trailing slash "keeps the priority of the branch where it was found".  With
`/a` (relaxed) and `/a+{w}` registered, a request for `/a/` is served by the
wildcard, because suffix catch-alls of a node are tried before the walk
backtracks to the leaf that would drop the slash.  A registered `/a{p}`, which
does not match `/a/` at all, changes the answer to `/a`.  `LookupPreferred`,
which holds in the other runs, is about patterns whose wildcards start a segment.

`dispatch`: `options.go` (line 186) documents `RedirectPath` as a redirect to the
collapsed path if it matches a route.  Where slashes are not merged, `/.//` and
`//.` collapse to `//`, which a route `/+{w}` matches.  `escapeLeadingSlashes`
escapes the second of two leading slashes only when more follows, so the header is
`Location: //`, a reference with an empty authority that does not lead back to
the server.  The test of `escapeLeadingSlashes` (`path_test.go`, lines 199-203) fixes
what the function returns for `//`, not where the redirect leads.  The run reaches
this reply, and `RedirectsLead` says that it is the only one that names a host.

## Proofs

TLAPS checks the following for every value of the constants.  Where an argument
would be by induction over data, the least (or greatest) position with a property
is taken instead (`LeastNatural`, `UpTo`), which needs no operator as a parameter.

- `RouterProofs`, on `RouteTable`: insertion, update and deletion take consistent tables to
  consistent tables (`InsertConsistent`, `UpdateConsistent`,
  `DeleteConsistent`).  A counter never wraps because it is the cardinality of a
  set of routes, which `RoutesAssumption` bounds by `MaxUint`: the program
  cannot hold more routes than a word counts.
- `RouterProofs`, on `RouterTxn`: `TypeCorrect` and `TablesStayConsistent` from
  `DataInv == TypeOK /\ TablesConsistent` (the type is not inductive alone: that
  a counter stays within a word needs its meaning), `WritersExclude` and
  `NoUpdateIsLost` from `LockInv == WriterExclusion /\ BaseIsCurrent` (the table
  a writer started from is still the published one, because only the holder of
  the mutex commits).
- `RecorderProofs`: `RecorderTellsTheTruth`, `ServerNeverMisused`,
  `RecoveryNeverMixes`, `RecoveryReportsPanics`.  Every call preserves
  `Agree(rec, server)`, the recorder's account of the server's writer;
  `Phases` adds that only the recovery writes error text and only after a panic.
- `PathRefProofs`: the reference normal form.  `MergeLeavesNoDouble`,
  `CollapseLeavesNoDots` and `CollapseKeepsSingle` say what a result is free of,
  `MergeLeavesSingle` and `CollapseLeavesPlain` that such a path is left alone;
  together, `NormalizedIsStable`: the path a redirect leads to is not redirected
  again.  What is left of a path is a set of element starts, computed by a
  recursive function (`Left`) that is unfolded one position at a time
  (`LeftSteps`).
- `PathNormProofs`: `LoopsWriteBehind` and `LengthTellsChange` for paths of any
  length.  The invariant (`PathInv`) is that the write position is never ahead of
  the read position and strictly behind it once a buffer exists; hence a changed
  path is shorter, which is the only thing `redirectRoutingPath` compares.
  `LoopsNormalize`: the loops compute the reference.  The invariant behind it
  (`NormInv`) is that what a loop has written so far is what the reference keeps
  of the bytes read so far (`KeptUpTo`), inside a segment too, where the slash and
  the bytes copied are already part of it.  The interesting step is `..`: the last
  slash written is where the last element that is left starts (`WalkPop`), because
  the written elements lie one behind the other in the output; and the code's test
  `w = 0` is the reference's `Climbs` because every element behind the prefix has
  a slash in front (`WalkClimb`).  `NormalFormStays` follows with
  `NormalizedIsStable`.
- `RegprogEndsProofs`: `ListingsAnswer` and `ListingsNeverFallBack`, for every
  text, every well-formed program and every sequence of calls.  Two ways of
  computing the same thing are brought together.  The code keeps one list of
  instructions per position and reads the text once; the property matches each
  prefix afresh, and a prefix ends in a different context (the end of the text
  holds there) than the text does.  `Right` says that the list at a position is
  what is reached there in every longer prefix that does not cut a rune, and that
  a position was accepted if and only if the prefix that ends there matches;
  `StepRight` keeps it, and `NothingMore` (an empty list stays empty) justifies
  leaving the loop early.  Below it, `SpreadFacts` says that a closure is the
  smallest closed set; from that, `ExpandedIs`: the lists the compiler builds,
  with closures above `MaxClosure` replaced by an entry that is expanded when it
  is read, lead where the closure leads, and `AcceptedIs`: the backward search for
  accepting instructions agrees with the forward one.  `RegprogEndsAssumption` is
  what is assumed: `WellFormed` programs, as `regexp/syntax` makes them (finite,
  every target is an instruction), texts that are sequences, and a delimiter that
  is not part of a longer rune, as the slash and the dot are.
- `ContextProofs`, on `ContextPool`: `ContextsHaveOneOwner`, `ContextsAreMine`,
  `CachedQueriesFit` and `WritesReachOwnResponse`, for any number of requests,
  trees and contexts.  None of the four is inductive alone: that a context shows
  its own request after it was recycled needs `Pooled` (what is in a pool is held
  by nobody and belongs to the pool's tree), that a capture is not overwritten
  needs `OwnCells` (a params slice belongs to one context), and that a write
  reaches its own response needs `ChainsAreHeld` and `OneResponse`: all the
  recorders below the writer of a context in use belong to contexts in use for the
  same response.
- `ContextProofs`, on `ClientIP`: `ClientIsFound` and `NoAddressIsForged`, for any
  headers of clients, any number of proxies, any texts they write that satisfy
  `WrittenAssumption`, and any resolvers.  The invariant (`ForwardedInv`) says that
  the list read backwards begins with the addresses the proxies wrote, the last
  first (`Quoting`), that the list split at every comma is longer than that or just
  that (`Splitting`, for `LeftmostNonPrivate`), and who the peers were.  That a
  proxy keeps it is `ListGrows`: whatever the header held, even a quoted string or
  an escape that is still open, the last separator is the comma the proxy added,
  because `lastUnquoted` reads from the end and what it finds there does not depend
  on what is in front (`QuotesBehind`, `SeparatorBehind`).  `RangesAssumption` is
  the deployment: proxies connect from the trusted ranges and clients do not.
  `WrittenAssumption` says that a proxy writes one item, closes its quoted strings,
  and that the address it means is found in it; that `parseForwardedListItem` finds
  it in the forms the syntax allows (parameters in any order, quoted strings,
  brackets and ports) is what TLC checks when it evaluates the assumption.
- `DispatchProofs`: `ContextsFit`, `CallersRequestIsKept`,
  `HandlersSeeMatchedPaths`, `AllowedMethodsAreHandled` and
  `OtherMethodsAreNotServed`, for any routes, expressions, paths and options.
  The invariant says for each stage of `ServeHTTP` what has been found out by
  then.  That the caller's request is kept rests on `FlagFits`: wherever the flag
  says that the request is owned, a copy was made.  Two facts about matching
  carry the rest.  `SlashIsFixed`: the route of a relaxed match matches the path as it is once `fixTrailingSlash` changed it,
  which is why a handler may be called with the rewritten path.
  `MatchForOther`: a match depends on the method only through the route, so what
  the loop over the methods found for one method (`AllowLoop`, `AllowFacts`) is
  what the next request with it gets (`AllowedIsFound`, `OtherIsNotServed`).
- `DispatchProofs`, on redirects: `RedirectsLeadOn`, for any finite tables.  A
  `Location` names a host only if it is `//`, from a path redirect where slashes are
  not merged (`LocationLeaves`; `SlashNeverLeaves` for the other redirect).  What
  has to be shown is that a second redirect never follows the first for the same
  reason, and never leads to 404.  A second invariant (`LInv`) carries what the
  first request knew over to the one the client sends for the `Location`
  (`LocationIs`: after the client resolved it, it is the routing path the
  dispatcher meant).  For a normalised path `NormalizedIsStable` says that it is
  not normalised again.  For another trailing slash (`SlashLeads`) the route found
  for the first path matches the second as it stands (`SlashIsFixed`).  If the
  second asked for a slash again, for a match that is preferred there, that match
  would fit the first path as it stands; and of two such matches either the first
  is preferred on the second path or the second on the first path
  (`SlashesCross`), so that one of the two lookups did not return its least match.
  This needs that the preference is an order (`TraceOrder`) with a least match
  among finitely many (`MatchesFinite`, `LeastExists`).  `PatternsAssumption` is what the
  parser guarantees (`TokensAreInShape`): a path starts with static text, no
  static text is empty, and only a catch-all at the end is optional.
- `RouterProofs`, on `CowNode`: for any set `F` of nodes that the transaction does not hold
  in its cache, and a cache of any size.  `WriteNodeKeeps`: the node `writeNode`
  returns is never one of `F`, has the content of the node asked for, and stays
  in the cache although adding it may evict another one.  `InsertionLeavesFrozen`
  and `DeletionLeavesFrozen`: every step that `insertTokens`, `insertName`,
  `deleteTokens` and `deleteName` take at a node (split, new branch, new edge,
  cut off, merge) leaves `F` as it is and returns a node outside of `F`, whatever
  the call below returned, an error included.  `EmptyCacheFreezesAll` says that
  after a commit, a snapshot or an iteration `F` is the whole tree.
  `RoutesStayInOrder`: `addRoute`, `replaceRoute` and `delRoute` keep the routes
  of a leaf in the order in which lookups try them; `IsRoute` is what `NewRoute`
  enforces, that a priority needs matchers.
- `PatternParserProofs`: `TokensAreInShape`, for patterns of any length over the
  alphabet `Byte` (`RawsAssumption`) and any limits.
  Both loops keep `Reading`: the tokens of the part so far are in shape, the last
  of them is in braces, what is pending starts with the delimiter, and
  `prevWild`, `sawWild` and `staticSinceWild` remember what they should.  The last
  is what makes the check of a crowded wildcard right, since its text is not yet
  a token then.  A path begins with static text (`PathFrom`), from which readers of
  the tokens can tell where the hostname ends (`HostTokensAreTold`).

Only model-checked:

- liveness (`WriterProgress`, `Terminates`, `LookupTerminates`), which is out of
  the prover's reach;
- what rests on recursive operators: `WritableIsPrivate`, `SearchFinds`,
  `RadixShape`, `LeafOrdered` over whole trees, and the refinement of `RouterTxn`
  by `CowRouter` (the theorems on `CowNode` are about each step of the
  recursion, its composition is TLC's); `StackDiscipline`, `LookupPreferred` and
  `MemoSound` of `RouteLookup`, whose trees `CowTree` builds and whose reference
  recurs over tokens;
- what needs an induction over data: that the tokens spell the pattern and that a
  search reads the same edges (`TokensAreText`, under `TokensFit`), `HostIsName`,
  `PathReaches`.

## Abstractions

- Outside of `PatternParser`, patterns enter as parsed tokens; expressions and
  matchers are model values, and equality of matchers is an equivalence.
- Static edges are a function from the first character; the sorted array and its
  binary search are not modelled.  `maxParams` and `maxDepth`, capacity hints,
  are left out.
- A read transaction's base tree, from which it only borrows contexts, is left
  out of `RouterTxn` and `CowRouter`; `ContextPool` takes contexts from any
  published tree instead.
- Lookup: where the code asks `regexp` about a whole capture, `Accepts` answers;
  listings and VM threads step the program `Prog` gives for the same expression.
  Threads refer to nodes instead of indices, captures are sequences instead of
  blocks of an arena.  The memo of failed matchers is left out: matchers are
  functions of the request.  Escaped characters are single characters.
- Regprog: the lists of instructions are sets, since their order decides
  nothing; parsing and compiling an expression is `regexp/syntax`'s.
- Parser: whether `regexp` accepts an expression, and its size (`minRegexpSize`),
  is the constant `Refused`.  Bytes are a small alphabet that has one of each
  class the code tells apart; of an error's text only a short hint is kept.
- Client IP: names and addresses are single symbols, so that `netip` and the
  folding of case are external.  `addrSeq`, which reads forwards, also splits at
  commas in quoted strings; `LeftmostNonPrivate` is asked for lists without them.
  The header a resolver is configured with, and its ranges, are parameters.
- Iterators: static edges are met in any fixed order, and an iteration that the
  caller ends early yields a prefix of the full one.
- Dispatch: the second of two slashes at the start of a `Location` is escaped on
  purpose, so the client may ask for another path; `RedirectsLead` excepts it.  It
  also excepts `//`, which is not escaped (see Findings).  `CONNECT` never
  uses another trailing slash and is not normalised, although `Allow` may name
  it; both properties about `Allow` except it.  Of a path with dot
  segments they say nothing: a match that would be redirected to another slash is
  dropped there, together with the matches it was preferred to.  The backslash
  branch of `escapeLeadingSlashes` is left out: a routing path has no bare backslash.  Methods are tried in the
  order of a Go map, which is any order.
- Recorder: net/http's writer is external.  A flush after a hijack reaches the
  server and is not covered by `ServerNotMisused`.
- ContextPool: users close a context once, do not use it afterwards, and do not
  release one while another still writes through its recorder, as the
  documentation asks.  A write on a clone panics and is not modelled.

Not modelled: matchers (pure functions of a request), options (they fill
configuration records), the ring list of the writable cache (a sequence of keys
in `CowNode`), logging, error texts, the pretty log handler.

## Plan

Done, in the order of importance: the table and the transactions, their proofs,
the copy-on-write tree and its refinement, the lookup with its Pike VM against
its reference, the recorder, path normalisation, the dispatcher, pooled contexts,
the expression engine, the pattern parser, client IP resolvers, iterators; the
proofs about the recorder, path normalisation and its reference, pooled contexts,
the dispatcher, the steps on copy-on-write nodes, the pattern parser, the client IP
resolvers and the
listings of the expression engine.

Next:

1. in `RouterProofs`, that each step of an insertion and a deletion keeps the
   radix shape at the nodes it touches;
2. a strengthening of `Reading` by the text that the tokens spell, with the text
   kept as offsets, so that it needs no induction;
3. the ring list and the map of `simplelru` as an implementation of the sequence
   of keys that `CowNode` uses.
