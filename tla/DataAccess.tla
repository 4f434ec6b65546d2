---------------------------- MODULE DataAccess ----------------------------
(***************************************************************************)
(* Transactions of services/data_access_layer.py: blocks under             *)
(* get_db_session that compose operations of LoanApplicationDAL, over the  *)
(* PostgreSQL server DATABASE_URL names, at its default isolation level    *)
(* READ COMMITTED. One session is one use of get_db_session.               *)
(*                                                                         *)
(* The database is external: the committed rows, at most one transaction   *)
(* that has written a row and not ended, the statement a session waits     *)
(* for, and the detection of deadlocks. SQLAlchemy is external too: a      *)
(* session keeps the instances it loaded (the identity map), an UPDATE is  *)
(* emitted only for a changed attribute, and the flush of an UPDATE that   *)
(* matches no row raises StaleDataError while that of a DELETE only warns. *)
(*                                                                         *)
(* Names that LoanService also has carry the prefix DA, so that one module *)
(* of proofs can extend both.                                              *)
(***************************************************************************)
EXTENDS Naturals, FiniteSets

CONSTANTS
  Sessions,   \* uses of get_db_session
  LoanIds,    \* loan_id
  Statuses,   \* VALID_STATUSES
  Pending,    \* the status create() gives
  Null,       \* no row, no instance, no session
  MaxOps      \* bound: operations of one session

ASSUME DataAccessAssumption ==
  /\ Pending \in Statuses
  /\ Null \notin Statuses \cup Sessions
  /\ MaxOps \in Nat

VARIABLES
  table,      \* the committed rows
  lock,       \* the session that wrote the row and has not ended
  draft,      \* the row as that session sees it
  stage,      \* where a session stands
  stmt,       \* the statement its flush sends
  seen,       \* the status of each instance in its identity map
  ops,        \* operations begun
  \* history
  promised,   \* the row as the session's last write of it was answered
  applied,    \* rows whose write by the session was committed
  ghosts,     \* rows it was told to have deleted, or failed to update, in vain
  lost,       \* sessions whose commit was done and not answered
  disturbed   \* rows that other sessions committed since it began

db        == <<table, lock, draft>>
DAhistory == <<promised, applied, ghosts, lost, disturbed>>
DAvars    == <<db, stage, stmt, seen, ops, DAhistory>>

Row       == Statuses \cup {Null}
Kinds     == {"insert", "update", "delete"}
Statement == [kind : Kinds, id : LoanIds, row : Row, missed : BOOLEAN]
NoRow     == [k \in {} |-> Null]
Promises  == UNION {[D -> Row] : D \in SUBSET LoanIds}
Ended     == {"committed", "failed"}

DATypeOK ==
  /\ table \in [LoanIds -> Row]
  /\ lock \in [LoanIds -> Sessions \cup {Null}]
  /\ draft \in [LoanIds -> Row]
  /\ stage \in [Sessions -> {"new", "open", "flush", "raised"} \cup Ended]
  /\ stmt \in [Sessions -> Statement \cup {Null}]
  /\ \A s \in Sessions : stage[s] = "flush" => stmt[s] \in Statement
  /\ seen \in [Sessions -> [LoanIds -> Row]]
  /\ ops \in [Sessions -> 0 .. MaxOps]
  /\ promised \in [Sessions -> Promises]
  /\ applied \in [Sessions -> SUBSET LoanIds]
  /\ ghosts \in [Sessions -> SUBSET LoanIds]
  /\ disturbed \in [Sessions -> SUBSET LoanIds]
  /\ lost \subseteq Sessions
  /\ \A k \in LoanIds : IF lock[k] = Null THEN draft[k] = Null
                        ELSE stage[lock[k]] \notin Ended \cup {"new"}

DAInit ==
  /\ \E row \in {Null, Pending} : table = [k \in LoanIds |-> row]
  /\ lock = [k \in LoanIds |-> Null]
  /\ draft = [k \in LoanIds |-> Null]
  /\ stage = [s \in Sessions |-> "new"]
  /\ stmt = [s \in Sessions |-> Null]
  /\ seen = [s \in Sessions |-> [k \in LoanIds |-> Null]]
  /\ ops = [s \in Sessions |-> 0]
  /\ promised = [s \in Sessions |-> NoRow]
  /\ applied = [s \in Sessions |-> {}]
  /\ ghosts = [s \in Sessions |-> {}]
  /\ disturbed = [s \in Sessions |-> {}]
  /\ lost = {}

-----------------------------------------------------------------------------
(* The database                                                            *)

\* READ COMMITTED: a statement sees what is committed and its own writes.
Visible(s, k) == IF lock[k] = s THEN draft[k] ELSE table[k]

\* The session whose end a statement waits for: a writer of the row it wants
\* to write, which for an INSERT need not be committed.
Holder(s) ==
  LET k == stmt[s].id
  IN  IF stage[s] = "flush" /\ lock[k] # s /\ (stmt[s].kind = "insert" \/ table[k] # Null)
      THEN lock[k] ELSE Null

Blocked(s) == Holder(s) # Null

\* Sessions that wait for each other in a ring.
Rings == {R \in SUBSET Sessions : R # {} /\ {Holder(s) : s \in R} = R}

\* Variant: the statement is committed at once.
WrittenForGood(s, k, row) ==
  /\ table' = [table EXCEPT ![k] = row]
  /\ applied' = [applied EXCEPT ![s] = @ \cup {k}]
  /\ disturbed' = [o \in Sessions |-> IF o = s THEN disturbed[o] ELSE disturbed[o] \cup {k}]
  /\ UNCHANGED <<lock, draft>>

\* A statement writes a row; the lock stays until the transaction ends.
Written(s, k, row) ==
  /\ lock' = [lock EXCEPT ![k] = s]
  /\ draft' = [draft EXCEPT ![k] = row]
  /\ UNCHANGED <<table, applied, disturbed>>

Released(s) ==
  /\ lock' = [k \in LoanIds |-> IF lock[k] = s THEN Null ELSE lock[k]]
  /\ draft' = [k \in LoanIds |-> IF lock[k] = s THEN Null ELSE draft[k]]

\* The end of a transaction that keeps what it wrote. A statement that waits
\* for a row deleted here matches no row, whatever is inserted later.
Kept(s) ==
  LET rows == {k \in LoanIds : lock[k] = s}
      waits == {o \in Sessions : Holder(o) = s /\ stmt[o].kind # "insert"
                                 /\ draft[stmt[o].id] = Null}
  IN  /\ table' = [k \in LoanIds |-> Visible(s, k)]
      /\ Released(s)
      /\ applied' = [applied EXCEPT ![s] = @ \cup rows]
      /\ disturbed' = [o \in Sessions |->
                         IF o # s /\ stage[o] # "new" THEN disturbed[o] \cup rows
                         ELSE disturbed[o]]
      /\ \E W \in SUBSET waits :
           stmt' = [o \in Sessions |-> IF o \in W THEN [stmt[o] EXCEPT !.missed = TRUE]
                                       ELSE stmt[o]]

-----------------------------------------------------------------------------
(* get_db_session                                                          *)

Begin(s) ==
  /\ stage[s] = "new"
  /\ stage' = [stage EXCEPT ![s] = "open"]
  /\ UNCHANGED <<db, stmt, seen, ops, DAhistory>>

\* session.close() forgets the instances.
Closed(s) == seen' = [seen EXCEPT ![s] = [k \in LoanIds |-> Null]]

\* The block ends, session.commit() is answered.
Commit(s) ==
  /\ stage[s] = "open"
  /\ Kept(s)
  /\ Closed(s)
  /\ stage' = [stage EXCEPT ![s] = "committed"]
  /\ UNCHANGED <<ops, promised, ghosts, lost>>

\* The connection breaks after the commit was done: an OperationalError.
CommitUnanswered(s) ==
  /\ stage[s] = "open"
  /\ Kept(s)
  /\ stage' = [stage EXCEPT ![s] = "raised"]
  /\ lost' = lost \cup {s}
  /\ UNCHANGED <<seen, ops, promised, ghosts>>

\* A failed flush rolls the transaction back before it raises.
Raise(s) ==
  /\ Released(s)
  /\ stage' = [stage EXCEPT ![s] = "raised"]
  /\ UNCHANGED <<table, stmt, seen, ops, promised, applied, lost, disturbed>>

\* The connection breaks earlier, and the server ends the transaction.
Disconnect(s) ==
  /\ stage[s] \in {"open", "flush"}
  /\ Raise(s)
  /\ UNCHANGED ghosts

\* The server ends one transaction of a ring.
DeadlockAbort(s) ==
  /\ \E R \in Rings : s \in R
  /\ Raise(s)
  /\ UNCHANGED ghosts

\* A ValueError of the validation, or an exception of the block itself: no
\* rollback here, the transaction is still open.
Reject(s) ==
  /\ stage[s] = "open"
  /\ stage' = [stage EXCEPT ![s] = "raised"]
  /\ UNCHANGED <<db, stmt, seen, ops, DAhistory>>

\* Variant: without close(), what no rollback() ended stays open.
LeftOpen(s) == Closed(s) /\ UNCHANGED <<lock, draft>>

\* close() ends the transaction that a ValueError left open.
Finally(s) == Closed(s) /\ Released(s)

\* The exception leaves the block: rollback() for an SQLAlchemyError, whose
\* transaction has ended already, and close() for all.
Unwind(s) ==
  /\ stage[s] = "raised"
  /\ Finally(s)
  /\ stage' = [stage EXCEPT ![s] = "failed"]
  /\ UNCHANGED <<table, stmt, ops, DAhistory>>

-----------------------------------------------------------------------------
(* LoanApplicationDAL                                                      *)

\* session.get: the instance at hand, if the block still holds it, or a SELECT.
Got(s, k) == {Visible(s, k)} \cup ({seen[s][k]} \ {Null})

\* find_by_id. query.all() leaves the instances at hand as they are.
FindById(s, k) ==
  /\ stage[s] = "open" /\ ops[s] < MaxOps
  /\ \E row \in Got(s, k) : seen' = [seen EXCEPT ![s][k] = row]
  /\ ops' = [ops EXCEPT ![s] = @ + 1]
  /\ UNCHANGED <<db, stage, stmt, DAhistory>>

FindAll(s) ==
  /\ stage[s] = "open" /\ ops[s] < MaxOps
  /\ seen' = [seen EXCEPT ![s] =
                [k \in LoanIds |-> IF @[k] = Null THEN Visible(s, k) ELSE @[k]]]
  /\ ops' = [ops EXCEPT ![s] = @ + 1]
  /\ UNCHANGED <<db, stage, stmt, DAhistory>>

Flush(s, kind, k, row) ==
  /\ stage' = [stage EXCEPT ![s] = "flush"]
  /\ stmt' = [stmt EXCEPT ![s] = [kind |-> kind, id |-> k, row |-> row, missed |-> FALSE]]

Answered(s, k, row) ==
  promised' = [promised EXCEPT ![s] =
                 [j \in DOMAIN @ \cup {k} |-> IF j = k THEN row ELSE @[j]]]

CreateRow(s, k) ==
  /\ stage[s] = "open" /\ ops[s] < MaxOps
  /\ Flush(s, "insert", k, Pending)
  /\ ops' = [ops EXCEPT ![s] = @ + 1]
  /\ UNCHANGED <<db, seen, DAhistory>>

\* Variant: the flush is left to find out.
IsThereOrNot(row) == TRUE

\* The lookup of update_status and delete: what is not there ends the call.
IsThere(row) == row # Null

\* SQLAlchemy emits no UPDATE when the attribute gets the value it has.
UpdateStatus(s, k, new) ==
  /\ stage[s] = "open" /\ ops[s] < MaxOps
  /\ ops' = [ops EXCEPT ![s] = @ + 1]
  /\ \E row \in Got(s, k) :
       \/ ~IsThere(row)
          /\ seen' = [seen EXCEPT ![s][k] = Null]
          /\ UNCHANGED <<stage, stmt, promised>>
       \/ IsThere(row) /\ row = new
          /\ seen' = [seen EXCEPT ![s][k] = new]
          /\ Answered(s, k, new)
          /\ UNCHANGED <<stage, stmt>>
       \/ IsThere(row) /\ row # new
          /\ seen' = [seen EXCEPT ![s][k] = new]
          /\ Flush(s, "update", k, new)
          /\ UNCHANGED promised
  /\ UNCHANGED <<db, applied, ghosts, lost, disturbed>>

Delete(s, k) ==
  /\ stage[s] = "open" /\ ops[s] < MaxOps
  /\ ops' = [ops EXCEPT ![s] = @ + 1]
  /\ \E row \in Got(s, k) :
       \/ ~IsThere(row) /\ UNCHANGED <<stage, stmt>>
       \/ IsThere(row) /\ Flush(s, "delete", k, Null)
  /\ seen' = [seen EXCEPT ![s][k] = Null]
  /\ UNCHANGED <<db, DAhistory>>

-----------------------------------------------------------------------------
(* session.flush(), the statement being executed                           *)

\* The rows the statement finds: an INSERT needs none, the others one.
Matches(s) ==
  LET k == stmt[s].id
  IN  IF stmt[s].kind = "insert" THEN Visible(s, k) = Null
      ELSE Visible(s, k) # Null /\ ~stmt[s].missed

Execute(s) ==
  LET k == stmt[s].id
  IN  /\ stage[s] = "flush" /\ ~Blocked(s)
      /\ Matches(s)
      /\ Written(s, k, stmt[s].row)
      /\ Answered(s, k, stmt[s].row)
      /\ seen' = [seen EXCEPT ![s][k] = stmt[s].row]
      /\ stage' = [stage EXCEPT ![s] = "open"]
      /\ UNCHANGED <<stmt, ops, ghosts, lost>>

\* A DELETE of nothing only warns: delete() returns True.
DeleteNothing(s) ==
  /\ stage[s] = "flush" /\ ~Blocked(s)
  /\ stmt[s].kind = "delete" /\ ~Matches(s)
  /\ Answered(s, stmt[s].id, Null)
  /\ ghosts' = [ghosts EXCEPT ![s] = @ \cup {stmt[s].id}]
  /\ stage' = [stage EXCEPT ![s] = "open"]
  /\ UNCHANGED <<db, stmt, seen, ops, applied, lost, disturbed>>

\* StaleDataError of an UPDATE of nothing.
UpdateNothing(s) ==
  /\ stage[s] = "flush" /\ ~Blocked(s)
  /\ stmt[s].kind = "update" /\ ~Matches(s)
  /\ ghosts' = [ghosts EXCEPT ![s] = @ \cup {stmt[s].id}]
  /\ Raise(s)

\* IntegrityError of an INSERT of a key that is there.
InsertTwice(s) ==
  /\ stage[s] = "flush" /\ ~Blocked(s)
  /\ stmt[s].kind = "insert" /\ ~Matches(s)
  /\ Raise(s)
  /\ UNCHANGED ghosts

-----------------------------------------------------------------------------

Operate(s) ==
  \/ FindAll(s)
  \/ \E k \in LoanIds :
       FindById(s, k) \/ CreateRow(s, k) \/ Delete(s, k)
       \/ \E new \in Statuses : UpdateStatus(s, k, new)

Perform(s) == Execute(s) \/ DeleteNothing(s) \/ UpdateNothing(s) \/ InsertTwice(s)

\* What the thread in the block does by itself.
Run(s) == Operate(s) \/ Perform(s) \/ Commit(s) \/ Reject(s) \/ Unwind(s)

\* Every session has ended.
Over == (\A s \in Sessions : stage[s] \in Ended) /\ UNCHANGED DAvars

DANext ==
  \/ \E s \in Sessions :
       Begin(s) \/ Run(s) \/ CommitUnanswered(s) \/ Disconnect(s) \/ DeadlockAbort(s)
  \/ Over

\* A thread in the block goes on, and the server resolves deadlocks
\* (deadlock_timeout). Connections need not break, nor sessions begin.
Fairness ==
  /\ \A s \in Sessions : WF_DAvars(Run(s))
  /\ WF_DAvars(\E s \in Sessions : DeadlockAbort(s))

DASpec == DAInit /\ [][DANext]_DAvars /\ Fairness

-----------------------------------------------------------------------------
(* Properties                                                              *)

\* Operations composed in one transaction take effect together, "On success
\* the transaction is committed; on any SQLAlchemyError the transaction is rolled
\* back", and on any other error by close(): a committed session
\* left every row as its operations were answered, unless another transaction
\* changed the row meanwhile or later, and one that failed left nothing, unless
\* only the answer of its commit was lost.
AllOrNothing ==
  \A s \in Sessions :
    /\ stage[s] = "committed" =>
         \A k \in DOMAIN promised[s] \ disturbed[s] : table[k] = promised[s][k]
    /\ stage[s] # "committed" /\ s \notin lost => applied[s] = {}

\* delete() answers True for a loan that was not there, and update_status
\* fails instead of returning None, only when another transaction changed the
\* loan after this one began: the lookup and the flush are two statements.
GhostsNeedOverlap == \A s \in Sessions : ghosts[s] \subseteq disturbed[s]

\* Every transaction ends: no session waits for ever for a row, whatever the
\* order in which blocks write several loans and however they fail.
TransactionsEnd == \A s \in Sessions : stage[s] = "open" ~> stage[s] \in Ended

-----------------------------------------------------------------------------
(* The inductive invariant                                                 *)

Running(s) == stage[s] \in {"open", "flush"}

BeginsEmpty ==
  \A s \in Sessions :
    stage[s] = "new" => DOMAIN promised[s] = {} /\ \A k \in LoanIds : seen[s][k] = Null

\* An instance at hand is the row as the session sees it, unless the statement
\* that makes it so is under way or another transaction committed the row.
InstancesTrue ==
  \A s \in Sessions, k \in LoanIds :
    Running(s) /\ seen[s][k] # Null /\ k \notin disturbed[s] =>
      seen[s][k] = Visible(s, k) \/ (stage[s] = "flush" /\ stmt[s].id = k)

\* What a block was told of a row is what it sees there.
PromisesVisible ==
  \A s \in Sessions :
    Running(s) =>
      \A k \in DOMAIN promised[s] \ disturbed[s] : Visible(s, k) = promised[s][k]

\* What the lookup found is there for the statement.
FoundIsThere ==
  \A s \in Sessions :
    stage[s] = "flush" /\ stmt[s].kind # "insert" /\ stmt[s].id \notin disturbed[s] =>
      Visible(s, stmt[s].id) # Null /\ ~stmt[s].missed

DAInv ==
  /\ DATypeOK /\ BeginsEmpty /\ InstancesTrue /\ PromisesVisible /\ FoundIsThere
  /\ AllOrNothing /\ GhostsNeedOverlap

=============================================================================
