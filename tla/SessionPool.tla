---------------------------- MODULE SessionPool ----------------------------
(***************************************************************************)
(* db.py: get_session, with the pool of connections behind it.             *)
(*                                                                         *)
(* A borrower is one use of get_session.  Its body executes statements     *)
(* that write; SQLite (in WAL mode) lets one connection at a time have an  *)
(* open write transaction, and a connection that is closed drops it.       *)
(* Whatever is awaited can be cancelled.  A commit or a rollback that is   *)
(* cancelled is still carried out by the thread of the connection, which   *)
(* is as if the cancellation came after it.                                *)
(***************************************************************************)
EXTENDS Integers, Sequences

CONSTANTS MaxBorrower, \* bound: uses of get_session
          PoolSize,    \* _get_pool_size
          MaxWrites    \* bound: writes in one session

ASSUME PoolAssumption ==
  MaxBorrower \in Nat /\ MaxWrites \in Nat /\ PoolSize \in Nat /\ PoolSize >= 2

Borrowers == 1..MaxBorrower
Pooled == 1..PoolSize
Fresh(b) == PoolSize + b  \* the connection get_session opens for b alone
Connections == 1..(PoolSize + MaxBorrower)

VARIABLES
  pool,        \* the connections in _pool
  poolOpen,    \* _pool is not None
  session,     \* idle, body, raised, leaving, over
  conn,        \* the connection of a borrower, 0 for none
  written,     \* how many writes its body has executed
  uncommitted, \* the open transaction of a connection
  committed,   \* the writes in the database
  outcome      \* history: none, committed, rolledback, cancelled

poolVars == <<pool, poolOpen, session, conn, written, uncommitted, committed, outcome>>

PoolInit ==
  /\ pool = [c \in Pooled |-> c]
  /\ poolOpen = TRUE
  /\ session = [b \in Borrowers |-> "idle"]
  /\ conn = [b \in Borrowers |-> 0]
  /\ written = [b \in Borrowers |-> 0]
  /\ uncommitted = [c \in Connections |-> {}]
  /\ committed = {}
  /\ outcome = [b \in Borrowers |-> "none"]

Moves(b, from, to) == session[b] = from /\ session' = [session EXCEPT ![b] = to]
Ends(b, how) == outcome' = [outcome EXCEPT ![b] = how]
NoTransaction(c) == uncommitted' = [uncommitted EXCEPT ![c] = {}]
-----------------------------------------------------------------------------
Borrow(b) ==
  /\ poolOpen /\ pool # <<>>
  /\ Moves(b, "idle", "body")
  /\ conn' = [conn EXCEPT ![b] = Head(pool)]
  /\ pool' = Tail(pool)
  /\ UNCHANGED <<poolOpen, written, uncommitted, committed, outcome>>

(* Ten seconds in vain, or the pool is closed. *)
Connect(b) ==
  /\ ~ poolOpen \/ pool = <<>>
  /\ Moves(b, "idle", "body")
  /\ conn' = [conn EXCEPT ![b] = Fresh(b)]
  /\ UNCHANGED <<pool, poolOpen, written, uncommitted, committed, outcome>>

(* A statement waits, or raises, while another connection writes. *)
Execute(b) ==
  /\ session[b] = "body" /\ written[b] < MaxWrites
  /\ \A c \in Connections \ {conn[b]} : uncommitted[c] = {}
  /\ written' = [written EXCEPT ![b] = @ + 1]
  /\ uncommitted' = [uncommitted EXCEPT ![conn[b]] = @ \cup {<<b, written'[b]>>}]
  /\ UNCHANGED <<pool, poolOpen, session, conn, committed, outcome>>

Commit(b) ==
  /\ Moves(b, "body", "leaving")
  /\ committed' = committed \cup uncommitted[conn[b]]
  /\ NoTransaction(conn[b])
  /\ Ends(b, "committed")
  /\ UNCHANGED <<pool, poolOpen, conn, written>>

(* The body, one of its statements or the commit raises. *)
Raise(b) ==
  /\ Moves(b, "body", "raised")
  /\ UNCHANGED <<pool, poolOpen, conn, written, uncommitted, committed, outcome>>

(* Mutant of Rollback: the transaction stays open. *)
RollbackNot(b) ==
  /\ Moves(b, "raised", "leaving")
  /\ Ends(b, "rolledback")
  /\ UNCHANGED <<pool, poolOpen, conn, written, uncommitted, committed>>

Rollback(b) ==
  /\ Moves(b, "raised", "leaving")
  /\ NoTransaction(conn[b])
  /\ Ends(b, "rolledback")
  /\ UNCHANGED <<pool, poolOpen, conn, written, committed>>

(* CancelledError is no Exception: nothing is rolled back. *)
CancelBody(b) ==
  /\ Moves(b, "body", "leaving")
  /\ Ends(b, "cancelled")
  /\ UNCHANGED <<pool, poolOpen, conn, written, uncommitted, committed>>

(* The finally clause. *)
GiveBack(b) ==
  /\ Moves(b, "leaving", "over")
  /\ conn' = [conn EXCEPT ![b] = 0]
  /\ IF conn[b] \in Pooled /\ poolOpen
     THEN pool' = Append(pool, conn[b]) /\ UNCHANGED uncommitted
     ELSE NoTransaction(conn[b]) /\ UNCHANGED pool
  /\ UNCHANGED <<poolOpen, written, committed, outcome>>

(* close_pool, at the shutdown: from now on nobody borrows or gives back,  *)
(* and the connections are closed one by one.                              *)
ClosePool ==
  /\ poolOpen /\ poolOpen' = FALSE
  /\ UNCHANGED <<pool, session, conn, written, uncommitted, committed, outcome>>

CloseNext ==
  /\ ~ poolOpen /\ pool # <<>>
  /\ pool' = Tail(pool)
  /\ NoTransaction(Head(pool))
  /\ UNCHANGED <<poolOpen, session, conn, written, committed, outcome>>
-----------------------------------------------------------------------------
SessionSteps(b) ==
  \/ Borrow(b) \/ Connect(b) \/ Execute(b) \/ Commit(b)
  \/ Raise(b) \/ Rollback(b) \/ CancelBody(b) \/ GiveBack(b)

PoolNext == ClosePool \/ CloseNext \/ \E b \in Borrowers : SessionSteps(b)

PoolSpec == PoolInit /\ [][PoolNext]_poolVars
-----------------------------------------------------------------------------
(* All the writes of a session reach the database if it ended well and     *)
(* none if it raised, whoever had its connection before or has it after;   *)
(* and nobody holds the write lock of the database beyond its session.     *)
(* A session that was cancelled is excepted from both: the next one on its *)
(* connection commits what it wrote, or rolls it back.                     *)
SessionsAtomic ==
  /\ \A b \in Borrowers : outcome[b] # "cancelled" =>
       {w \in committed : w[1] = b} =
         IF outcome[b] = "committed" THEN {b} \X (1..written[b]) ELSE {}
  /\ \A c \in Connections : \A w \in uncommitted[c] :
       conn[w[1]] = c \/ outcome[w[1]] = "cancelled"
=============================================================================
