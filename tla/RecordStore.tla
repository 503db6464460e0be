----------------------------- MODULE RecordStore ------------------------------
(***************************************************************************)
(* What save and remove promise, seen from the database: a record and its  *)
(* details are one thing.  A client asks for a record to be stored, or to  *)
(* go; the request is granted whole, in one step, or it is dropped.        *)
(***************************************************************************)
CONSTANTS
  Clients, Ids,
  Contents,   (* Every record with its details.                            *)
  NoRecord,   (* No record under an id: what a removal asks for.           *)
  NoRequest   (* A client that asks for nothing.                           *)

VARIABLES
  recs,       (* recs[i]: the record stored under i, with its details.     *)
  asked       (* asked[c]: the request of client c.                        *)

vars == <<recs, asked>>

Init ==
  /\ recs = [i \in Ids |-> NoRecord]
  /\ asked = [c \in Clients |-> NoRequest]

Ask(c) ==
  /\ asked[c] = NoRequest
  /\ \E r \in Contents \cup {NoRecord} : asked' = [asked EXCEPT ![c] = r]
  /\ UNCHANGED recs

Grant(c) ==
  /\ asked[c] # NoRequest
  /\ \E i \in Ids : recs' = [recs EXCEPT ![i] = asked[c]]
  /\ asked' = [asked EXCEPT ![c] = NoRequest]

Drop(c) ==
  /\ asked[c] # NoRequest
  /\ asked' = [asked EXCEPT ![c] = NoRequest]
  /\ UNCHANGED recs

Next == \E c \in Clients : Ask(c) \/ Grant(c) \/ Drop(c)

Spec == Init /\ [][Next]_vars
===============================================================================
