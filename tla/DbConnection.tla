----------------------------- MODULE DbConnection -----------------------------
(***************************************************************************)
(* gonglib's dbConnection as its callers see it: statements that write     *)
(* rows, and BEGIN / COMMIT / ROLLBACK that do not nest.  Each client      *)
(* process owns one connection; all of them share one database.            *)
(*                                                                         *)
(* The server itself is not under src/: what it does with a BEGIN inside   *)
(* an open transaction, with a row another transaction has written and     *)
(* with a failed statement is modelled from how the code uses it.          *)
(***************************************************************************)
EXTENDS Naturals

CONSTANTS
  Clients,   (* Processes, each with a connection of its own.              *)
  MaxId,     (* Last value of the autoincrement counter: bounds the model. *)
  Rows,      (* Every row a table may hold.                                *)
  NoRow,     (* What an id without a row maps to.                          *)
  Same,      (* "This transaction has not written the row".                *)
  Driver     (* "mysql" or "sqlite".                                       *)

ASSUME DriverAssumption == Driver \in {"mysql", "sqlite"}
ASSUME IdAssumption     == MaxId \in Nat \ {0}
ASSUME RowAssumption    == NoRow \notin Rows /\ Same \notin Rows /\ Same # NoRow

VARIABLES
  disk,      (* The committed rows, by id.                                 *)
  pend,      (* pend[c][i]: what c's open transaction did to row i.        *)
  inTx       (* inTx[c]: c's connection has a transaction open.            *)

conVars == <<disk, pend, inTx>>

Ids    == 1 .. MaxId
NoPend == [i \in Ids |-> Same]

ConTypeOK ==
  /\ disk \in [Ids -> Rows \cup {NoRow}]
  /\ pend \in [Clients -> [Ids -> Rows \cup {NoRow, Same}]]
  /\ inTx \in [Clients -> BOOLEAN]

ConInit ==
  /\ disk = [i \in Ids |-> NoRow]
  /\ pend = [c \in Clients |-> NoPend]
  /\ inTx = [c \in Clients |-> FALSE]

\* The database as connection c sees it.
View(c) == [i \in Ids |-> IF pend[c][i] = Same THEN disk[i] ELSE pend[c][i]]

\* A row another open transaction has written stays locked until it ends.
Unlocked(c, i) == \A d \in Clients \ {c} : pend[d][i] = Same

-------------------------------------------------------------------------------

\* beginTransaction.  On MySQL a BEGIN commits whatever was open; on SQLite it
\* is an error the connection ignores, so that the open transaction goes on.
BeginTransaction(c) ==
  IF Driver = "mysql"
    THEN /\ disk' = View(c)
         /\ pend' = [pend EXCEPT ![c] = NoPend]
         /\ inTx' = [inTx EXCEPT ![c] = TRUE]
    ELSE /\ inTx' = [inTx EXCEPT ![c] = TRUE]
         /\ UNCHANGED <<disk, pend>>

\* commitTransaction: nothing to do when no transaction is open.
CommitTransaction(c) ==
  /\ disk' = View(c)
  /\ pend' = [pend EXCEPT ![c] = NoPend]
  /\ inTx' = [inTx EXCEPT ![c] = FALSE]

\* rollbackTransaction, and what the server does when a connection drops.
RollbackTransaction(c) ==
  /\ pend' = [pend EXCEPT ![c] = NoPend]
  /\ inTx' = [inTx EXCEPT ![c] = FALSE]
  /\ UNCHANGED disk

\* exec of one INSERT, UPDATE or DELETE on row i: part of the open transaction,
\* or at once when there is none.
Exec(c, i, row) ==
  /\ Unlocked(c, i)
  /\ IF inTx[c]
       THEN pend' = [pend EXCEPT ![c][i] = row] /\ UNCHANGED disk
       ELSE disk' = [disk EXCEPT ![i] = row] /\ UNCHANGED pend
  /\ UNCHANGED inTx
===============================================================================
