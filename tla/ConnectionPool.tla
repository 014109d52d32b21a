--------------------------- MODULE ConnectionPool ---------------------------
(***************************************************************************)
(* The pool of sending connections (Pool and ConnectionPool of pool.py)    *)
(* and the ConnectionContext of common.py that takes a connection from the *)
(* pool and puts it back.                                                  *)
(*                                                                         *)
(* What happens under the pool's condition variable is one step.  A        *)
(* connection is created outside of it, and ConnectionPool.empty() takes   *)
(* items without it.  A waiter looks at the pool again every second: under *)
(* Python 2.7 wait_condition has a timeout.  (Without it a slot that is    *)
(* given back by a failed creation would wake nobody.)                     *)
(***************************************************************************)
EXTENDS Integers, Sequences, FiniteSets

CONSTANTS
    Caller,      \* threads that send
    Connection,  \* identities of connections
    NoConn,      \* a context without a connection
    MaxSize,     \* rpc_conn_pool_size
    MinSize,     \* conn_pool_min_size
    MaxUndone    \* bound: how often a replacement may fail

\* There are finitely many callers; a pool has room for one connection.
ASSUME PoolAssumption ==
    /\ IsFiniteSet(Caller)
    /\ NoConn \notin Connection
    /\ MaxSize \in Nat \ {0}
    /\ MinSize \in Nat
    /\ MaxUndone \in Nat

VARIABLES
    items,         \* _items: the free connections, the oldest first
    current_size,  \* _current_size
    pc,            \* where each caller is
    held,          \* the connection of each caller's context
    open,          \* connections that are established
    emptying,      \* empty(), by the driver's cleanup: "no", "running", "done"
    surplus,       \* ghost: items put although their slot had been given back
    emptied,       \* ghost: items that empty() has taken
    late           \* ghost: callers inside when the driver dropped the pool

vars == <<items, current_size, pc, held, open, emptying, surplus, emptied, late>>

\* A caller is out of the pool, waits in get(), creates the connection of the
\* slot it has taken, uses a connection, replaces one that could not be reset,
\* or has left a context whose replacement failed.
CallerPC == {"idle", "waiting", "creating", "using", "replacing", "undone"}

\* Type of the state.  Each item put twice may be expired twice, so that the
\* size can fall below zero.
TypeOK ==
    /\ items \in Seq([conn : Connection, old : BOOLEAN])
    /\ current_size \in -MaxUndone..MaxSize
    /\ pc \in [Caller -> CallerPC]
    /\ held \in [Caller -> Connection \cup {NoConn}]
    /\ open \subseteq Connection
    /\ emptying \in {"no", "running", "done"}
    /\ surplus \in 0..MaxUndone
    /\ emptied \in Nat
    /\ late \in Nat

Init ==
    /\ items = <<>>
    /\ current_size = 0
    /\ pc = [t \in Caller |-> "idle"]
    /\ held = [t \in Caller |-> NoConn]
    /\ open = {}
    /\ emptying = "no"
    /\ surplus = 0
    /\ emptied = 0
    /\ late = 0

Goto(t, where) == pc' = [pc EXCEPT ![t] = where]
Hold(t, c) == held' = [held EXCEPT ![t] = c]

\* Callers that are in get() or have a context that is not done.
Inside == {t \in Caller : pc[t] # "idle"}

InPool(c) == \E i \in 1..Len(items) : items[i].conn = c

\* A connection object that does not exist: create() may return it.
Fresh(c) == c \notin open /\ ~InPool(c) /\ \A t \in Caller : held[t] # c

\* Fault: a context puts its connection at both ends of the pool.
PutTwice(c) ==
    items' = <<[conn |-> c, old |-> FALSE]>> \o items
             \o <<[conn |-> c, old |-> FALSE]>>

\* put(): a new stop watch, and the newest place.
Put(c) == items' = Append(items, [conn |-> c, old |-> FALSE])

-----------------------------------------------------------------------------
(* get *)

\* Fault: expired items are forgotten and stay open.
ExpireUnclosed(s, k) ==
    /\ k > 0 => k + MinSize <= Len(s)
    /\ \A i \in 1..k : s[i].old
    /\ k + MinSize < Len(s) => ~s[k + 1].old
    /\ items' = SubSeq(s, k + 1, Len(s))
    /\ current_size' = current_size - k
    /\ UNCHANGED open

\* Fault: the slots of expired items are not given back.
ExpireUncounted(s, k) ==
    /\ k > 0 => k + MinSize <= Len(s)
    /\ \A i \in 1..k : s[i].old
    /\ k + MinSize < Len(s) => ~s[k + 1].old
    /\ items' = SubSeq(s, k + 1, Len(s))
    /\ open' = open \ {s[i].conn : i \in 1..k}
    /\ UNCHANGED current_size

\* expire() of the items s: the k oldest have expired, more than min_size
\* items were there each time, and the loop ends at the first one that has not
\* expired.  Each is closed and its slot given back.
Expire(s, k) ==
    /\ k > 0 => k + MinSize <= Len(s)
    /\ \A i \in 1..k : s[i].old
    /\ k + MinSize < Len(s) => ~s[k + 1].old
    /\ items' = SubSeq(s, k + 1, Len(s))
    /\ current_size' = current_size - k
    /\ open' = open \ {s[i].conn : i \in 1..k}

\* The caller enters get(), or looks again while it waits.  After cleanup the
\* driver has no pool any more.
InGet(t) == pc[t] = "waiting" \/ (pc[t] = "idle" /\ emptying # "done")

\* get(): the newest item, then expire().  The locks are the monkey-patched
\* ones of eventlet: pop(), and popleft() with the appendleft() of an item that
\* has not expired, happen without a switch, so that empty(), which has no lock,
\* never finds that item missing.  Only closing an expired item may switch, and
\* such an item has left the pool for good.
GetItem(t) ==
    /\ InGet(t)
    /\ items # <<>>
    /\ Hold(t, items[Len(items)].conn)
    /\ Goto(t, "using")
    /\ \E k \in 0..Len(items) :
           Expire(SubSeq(items, 1, Len(items) - 1), k)
    /\ UNCHANGED <<emptying, surplus, emptied, late>>

\* get(): no item, but a slot.
GetSlot(t) ==
    /\ InGet(t)
    /\ items = <<>>
    /\ current_size < MaxSize
    /\ current_size' = current_size + 1
    /\ Goto(t, "creating")
    /\ UNCHANGED <<items, held, open, emptying, surplus, emptied, late>>

\* get(): neither.
GetWait(t) ==
    /\ InGet(t)
    /\ pc[t] = "idle"
    /\ items = <<>>
    /\ current_size >= MaxSize
    /\ Goto(t, "waiting")
    /\ UNCHANGED <<items, current_size, held, open, emptying, surplus, emptied, late>>

\* The creation after the lock was dropped.
Create(t) ==
    /\ pc[t] = "creating"
    /\ \E c \in Connection : /\ Fresh(c)
                             /\ open' = open \cup {c}
                             /\ Hold(t, c)
    /\ Goto(t, "using")
    /\ UNCHANGED <<items, current_size, emptying, surplus, emptied, late>>

\* Fault: a failed creation keeps its slot.
CreateFailsUncounted(t) ==
    /\ pc[t] = "creating"
    /\ Goto(t, "idle")
    /\ UNCHANGED <<items, current_size, held, open, emptying, surplus, emptied, late>>

\* The creation raises: the slot is given back, and nobody is notified.
CreateFails(t) ==
    /\ pc[t] = "creating"
    /\ current_size' = current_size - 1
    /\ Goto(t, "idle")
    /\ UNCHANGED <<items, held, open, emptying, surplus, emptied, late>>

-----------------------------------------------------------------------------
(* ConnectionContext._done *)

\* reset() succeeds and the connection goes back.
Done(t) ==
    /\ pc[t] = "using"
    /\ held[t] \in open
    /\ Put(held[t])
    /\ Hold(t, NoConn)
    /\ Goto(t, "idle")
    /\ UNCHANGED <<current_size, open, emptying, surplus, emptied, late>>

\* reset() raises, always so for a closed connection: it is closed, and
\* create() is called.
ResetFails(t) ==
    /\ pc[t] = "using"
    /\ open' = open \ {held[t]}
    /\ Goto(t, "replacing")
    /\ UNCHANGED <<items, current_size, held, emptying, surplus, emptied, late>>

\* Fault: the closed connection goes into the pool, not the new one.
ReplaceOld(t) ==
    /\ pc[t] = "replacing"
    /\ \E c \in Connection : /\ Fresh(c)
                             /\ open' = open \cup {c}
                             /\ Put(held[t])
    /\ Hold(t, NoConn)
    /\ Goto(t, "idle")
    /\ UNCHANGED <<current_size, emptying, surplus, emptied, late>>

\* The replacement is put into the pool.
Replace(t) ==
    /\ pc[t] = "replacing"
    /\ \E c \in Connection : /\ Fresh(c)
                             /\ open' = open \cup {c}
                             /\ Put(c)
    /\ Hold(t, NoConn)
    /\ Goto(t, "idle")
    /\ UNCHANGED <<current_size, emptying, surplus, emptied, late>>

\* create() raises in the handler: the finally clause puts the closed
\* connection into the pool, and the context, which still has it, will be
\* finalised.
ReplaceFails(t) ==
    /\ pc[t] = "replacing"
    /\ surplus + Cardinality({u \in Caller : pc[u] = "undone"}) < MaxUndone
    /\ Put(held[t])
    /\ Goto(t, "undone")
    /\ UNCHANGED <<current_size, held, open, emptying, surplus, emptied, late>>

\* __del__ of that context calls _done again: reset() raises, and a new
\* connection, or the closed one once more, goes into the pool.
Finalise(t) ==
    /\ pc[t] = "undone"
    /\ \/ \E c \in Connection : /\ Fresh(c)
                                /\ open' = open \cup {c}
                                /\ Put(c)
       \/ Put(held[t]) /\ UNCHANGED open
    /\ surplus' = surplus + 1
    /\ Hold(t, NoConn)
    /\ Goto(t, "idle")
    /\ UNCHANGED <<current_size, emptying, emptied, late>>

-----------------------------------------------------------------------------
(* Time, and the driver's cleanup *)

\* The stop watch of the oldest item that has not expired does.
Age ==
    /\ \E i \in 1..Len(items) :
           /\ ~items[i].old
           /\ \A j \in 1..i-1 : items[j].old
           /\ items' = [items EXCEPT ![i].old = TRUE]
    /\ UNCHANGED <<current_size, pc, held, open, emptying, surplus, emptied, late>>

\* cleanup() calls empty().
BeginEmpty ==
    /\ emptying = "no"
    /\ emptying' = "running"
    /\ UNCHANGED <<items, current_size, pc, held, open, surplus, emptied, late>>

\* iter_free takes the newest item and empty() closes it; the size stays.
EmptyItem ==
    /\ emptying = "running"
    /\ items # <<>>
    /\ items' = SubSeq(items, 1, Len(items) - 1)
    /\ open' = open \ {items[Len(items)].conn}
    /\ emptied' = emptied + 1
    /\ UNCHANGED <<current_size, pc, held, emptying, surplus, late>>

\* No item is left: the driver forgets the pool, which the callers inside it
\* still have.
EndEmpty ==
    /\ emptying = "running"
    /\ items = <<>>
    /\ emptying' = "done"
    /\ late' = Cardinality(Inside)
    /\ UNCHANGED <<items, current_size, pc, held, open, surplus, emptied>>

-----------------------------------------------------------------------------
CallerStep(t) ==
    \/ GetItem(t) \/ GetSlot(t) \/ GetWait(t) \/ Create(t) \/ CreateFails(t)
    \/ Done(t) \/ ResetFails(t) \/ Replace(t) \/ ReplaceFails(t) \/ Finalise(t)

Next ==
    \/ \E t \in Caller : CallerStep(t)
    \/ Age \/ BeginEmpty \/ EmptyItem \/ EndEmpty

Spec == Init /\ [][Next]_vars

\* A creation returns or raises, a caller that has a connection is done with
\* it after its message is published (call() waits for the reply after it has
\* left the context), and a context is finalised.
Fairness ==
    \A t \in Caller :
        /\ WF_vars(pc[t] = "creating" /\ CallerStep(t))
        /\ WF_vars(pc[t] = "using" /\ CallerStep(t))
        /\ WF_vars(pc[t] = "replacing" /\ CallerStep(t))
        /\ WF_vars(pc[t] = "undone" /\ CallerStep(t))

FairSpec == Spec /\ Fairness

-----------------------------------------------------------------------------
(* Properties *)

\* Callers that own the slot of a connection.
Owner == {t \in Caller : pc[t] \in {"creating", "using", "replacing"}}

\* No slot is lost and none is made up: the size the pool believes in is its
\* free items and its owners, except for what empty() has taken without
\* counting and what finalised contexts have put twice.
SlotsCounted ==
    Len(items) + Cardinality(Owner) + emptied = current_size + surplus

\* An established connection has one place, in the pool or with one caller:
\* two threads never share one, and expire() and empty() never close one that
\* is in use.
NotShared ==
    \A c \in open :
        /\ \A i, j \in 1..Len(items) :
               items[i].conn = c /\ items[j].conn = c => i = j
        /\ \A t, u \in Caller : held[t] = c /\ held[u] = c => t = u
        /\ InPool(c) => \A t \in Caller : held[t] # c

\* What may be forgotten open.  Until the driver has dropped the pool nothing:
\* an established connection is in the pool or with a caller that uses it, so
\* that empty(), expire() or that caller will deal with it.  Afterwards nobody
\* empties the pool any more, and what a caller inside puts back stays open
\* (its heartbeat keeps it alive): at most one connection for each caller that
\* was inside when cleanup() dropped the pool, whatever these callers wait for,
\* create, reset, replace and finalise afterwards.
NotLeaked ==
    /\ emptying # "done" =>
           \A c \in open :
               InPool(c) \/ \E t \in Caller : pc[t] = "using" /\ held[t] = c
    /\ emptying = "done" => Cardinality(open) <= late

\* Until a replacement fails, whoever gets a connection gets one that is
\* established, and so does the next caller.
UsableUnlessUndone ==
    (surplus = 0 /\ \A t \in Caller : pc[t] # "undone")
        => /\ \A t \in Caller : pc[t] = "using" => held[t] \in open
           /\ \A i \in 1..Len(items) : items[i].conn \in open

\* A caller waits for callers that publish, never for callers that wait: as
\* long as nobody empties the pool, an item or a slot comes up for a waiter.
SlotComesUp ==
    \A t \in Caller :
        pc[t] = "waiting"
            ~> \/ pc[t] # "waiting"
               \/ items # <<>>
               \/ current_size < MaxSize
               \/ emptying # "no"
=============================================================================
