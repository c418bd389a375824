------------------------------ MODULE RouterTxn ------------------------------
(***************************************************************************)
(* What the router promises to the goroutines that read and write it: write *)
(* transactions are serialized by Router.mu, every transaction works on a   *)
(* table of its own, and a commit replaces the published table in one       *)
(* atomic step.  Module CowRouter, which shares radix nodes and maps        *)
(* between tables, implements this specification.                           *)
(*                                                                          *)
(* A transaction handle goes through                                        *)
(*   idle -> locking -> locked -> open -> unlocking -> settled -> idle      *)
(* when it writes, and idle -> open -> idle when it reads.  locking is a    *)
(* goroutine blocked in mu.Lock, unlocking one between rootTxn = nil and    *)
(* the return of mu.Unlock, settled a Txn whose rootTxn is nil.  Releasing  *)
(* a handle and starting again stands for a new Txn value.                  *)
(*                                                                          *)
(* A call that fails (conflict, unknown route, name taken, read-only or     *)
(* settled transaction) leaves the state alone and is a stuttering step.    *)
(***************************************************************************)
EXTENDS RouteTable

CONSTANTS Writers,    \* handles of goroutines that open write transactions
          Readers     \* handles of read transactions, snapshots, iterators and requests

Txns == Writers \cup Readers

VARIABLES mu,         \* Router.mu is held; Go's mutex records no owner
          tree,       \* the table Router.tree points to
          txn         \* the transaction behind each handle

vars == <<mu, tree, txn>>

States == {"idle", "locking", "locked", "open", "unlocking", "settled"}

\* rootTxn = nil: no table, no base.
NoTxn(st) == [st |-> st, write |-> FALSE, base |-> EmptyTable, root |-> EmptyTable]

\* getTree().txn(): the transaction starts from the published table.  base,
\* tXn.tree, is what a write transaction will replace; a reader only borrows
\* pooled contexts from it, so its base is left out.
FromTree(w) == [st |-> "open", write |-> w, base |-> IF w THEN tree ELSE EmptyTable,
                root |-> tree]

Writing(t) == txn[t].st = "open" /\ txn[t].write

Holding(t) == txn[t].st \in {"locked", "unlocking"} \/ Writing(t)

Init ==
    /\ mu = FALSE
    /\ tree = EmptyTable
    /\ txn = [t \in Txns |-> NoTxn("idle")]

-----------------------------------------------------------------------------
(* Opening a transaction: Router.Txn *)

Request(t) ==
    /\ t \in Writers
    /\ txn[t].st = "idle"
    /\ txn' = [txn EXCEPT ![t] = NoTxn("locking")]
    /\ UNCHANGED <<mu, tree>>

Lock(t) ==
    /\ txn[t].st = "locking"
    /\ ~mu
    /\ mu' = TRUE
    /\ txn' = [txn EXCEPT ![t] = NoTxn("locked")]
    /\ UNCHANGED tree

Load(t) ==
    /\ txn[t].st = "locked"
    /\ txn' = [txn EXCEPT ![t] = FromTree(TRUE)]
    /\ UNCHANGED <<mu, tree>>

\* A read transaction, an iterator or a request: one atomic load, no lock.
BeginRead(t) ==
    /\ t \in Readers
    /\ txn[t].st = "idle"
    /\ txn' = [txn EXCEPT ![t] = FromTree(FALSE)]
    /\ UNCHANGED <<mu, tree>>

-----------------------------------------------------------------------------
(* Writing *)

SetRoot(t, T) ==
    /\ txn' = [txn EXCEPT ![t].root = T]
    /\ UNCHANGED <<mu, tree>>

Insert(t, r) ==
    /\ Writing(t)
    /\ LET T == txn[t].root
       IN  CanInsert(T, r) /\ SetRoot(t, Inserted(T, r))

Update(t, r) ==
    /\ Writing(t)
    /\ LET T == txn[t].root
       IN  \E old \in Registered(T, r) : CanUpdate(T, old, r) /\ SetRoot(t, Updated(T, old, r))

Delete(t, r) ==
    /\ Writing(t)
    /\ LET T == txn[t].root
       IN  \E old \in Registered(T, r) : SetRoot(t, Deleted(T, old))

\* Mutant of Truncate: the published table is emptied too.
TruncatePublished(t) ==
    /\ Writing(t)
    /\ txn' = [txn EXCEPT ![t].root = EmptyTable]
    /\ tree' = EmptyTable
    /\ UNCHANGED mu

Truncate(t) ==
    /\ Writing(t)
    /\ SetRoot(t, EmptyTable)

\* Snapshot and Iter: s gets a read-only view of t's uncommitted state.
Capture(t, s) ==
    /\ txn[t].st = "open"
    /\ s \in Readers
    /\ txn[s].st = "idle"
    /\ txn' = [txn EXCEPT ![s] = [txn[t] EXCEPT !.write = FALSE, !.base = EmptyTable]]
    /\ UNCHANGED <<mu, tree>>

-----------------------------------------------------------------------------
(* Finalizing *)

Commit(t) ==
    /\ Writing(t)
    /\ tree' = txn[t].root
    /\ txn' = [txn EXCEPT ![t] = NoTxn("unlocking")]
    /\ UNCHANGED mu

\* Mutant of Abort: a settled transaction unlocks again.
AbortSettled(t) ==
    /\ Writing(t) \/ txn[t].st = "settled"
    /\ txn' = [txn EXCEPT ![t] = NoTxn("unlocking")]
    /\ UNCHANGED <<mu, tree>>

\* Mutant of Abort: the mutex is not given back.
AbortKeepsLock(t) ==
    /\ Writing(t)
    /\ txn' = [txn EXCEPT ![t] = NoTxn("settled")]
    /\ UNCHANGED <<mu, tree>>

\* On a settled or a read-only transaction Commit and Abort do nothing: the
\* deferred Abort of Router.Add and Updates runs after a successful Commit.
Abort(t) ==
    /\ Writing(t)
    /\ txn' = [txn EXCEPT ![t] = NoTxn("unlocking")]
    /\ UNCHANGED <<mu, tree>>

Unlock(t) ==
    /\ txn[t].st = "unlocking"
    /\ mu' = FALSE
    /\ txn' = [txn EXCEPT ![t] = NoTxn("settled")]
    /\ UNCHANGED tree

Release(t) ==
    /\ txn[t].st = "settled" \/ (txn[t].st = "open" /\ ~txn[t].write)
    /\ txn' = [txn EXCEPT ![t] = NoTxn("idle")]
    /\ UNCHANGED <<mu, tree>>

Next ==
    \E t \in Txns :
       \/ Request(t) \/ Lock(t) \/ Load(t) \/ BeginRead(t)
       \/ \E r \in Routes : Insert(t, r) \/ Update(t, r) \/ Delete(t, r)
       \/ Truncate(t)
       \/ \E s \in Readers : Capture(t, s)
       \/ Commit(t) \/ Abort(t) \/ Unlock(t) \/ Release(t)

Spec == Init /\ [][Next]_vars

\* sync.Mutex in starvation mode hands the lock to the longest waiter, a
\* goroutine between two statements keeps running, and a write transaction is
\* finalized: the router's own methods and Updates defer Abort.
Fairness ==
    \A t \in Writers : /\ SF_vars(Lock(t)) /\ WF_vars(Load(t))
                       /\ WF_vars(Commit(t) \/ Abort(t)) /\ WF_vars(Unlock(t))

FairSpec == Spec /\ Fairness

-----------------------------------------------------------------------------
(* Properties *)

TypeOK ==
    /\ mu \in BOOLEAN
    /\ tree \in Tables
    /\ txn \in [Txns -> [st : States, write : BOOLEAN, base : Tables, root : Tables]]

\* At most one goroutine is between mu.Lock and mu.Unlock, and the mutex is
\* held exactly while one is: a second Commit or Abort never unlocks for
\* somebody else.
WriterExclusion ==
    /\ \A t, u \in Txns : Holding(t) /\ Holding(u) => t = u
    /\ mu <=> \E t \in Txns : Holding(t)

\* The published table and the one of every open transaction are consistent:
\* no two routes conflict, the name index, the method counters and the size
\* agree with the routes.  What insert, Update's renaming and delete's counter
\* bookkeeping must keep through every sequence of calls.
TablesConsistent ==
    /\ TableOK(tree)
    /\ \A t \in Txns : TableOK(txn[t].root)

\* Router.tree only ever moves from the table a write transaction started
\* from to the one it ends with: no commit overwrites another one.
NoLostUpdate ==
    [][tree' # tree =>
          \E t \in Txns : Writing(t) /\ txn[t].base = tree /\ txn[t].root = tree']_vars

\* Every goroutine blocked in Router.Txn(true) gets its transaction.
WriterProgress == \A t \in Writers : txn[t].st = "locking" ~> txn[t].st = "open"
=============================================================================
