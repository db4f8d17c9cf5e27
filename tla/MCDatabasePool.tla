---------------------------- MODULE MCDatabasePool ----------------------------
(* Two transactions of two statements, an empty one, a one-way statement   *)
(* and a query: two workers and a server that refuses statements, or one   *)
(* worker (the default) and every kind of fault.                           *)
EXTENDS DatabasePool

CONSTANTS save1, save2, empty, update, select, w1, w2

MCKind == [o \in Operations |-> CASE o \in {save1, save2, empty} -> "transaction"
                                  [] o = update -> "statement"
                                  [] o = select -> "query"]
MCSize == [o \in Operations |-> CASE o \in {save1, save2} -> 2
                                  [] o = empty -> 0
                                  [] OTHER -> 1]
MCScenarios ==
  {[threads |-> {w1, w2}, ops |-> {save1, save2}, losses |-> 0, ignored |-> 0, errors |-> 2],
   [threads |-> {w1}, ops |-> {save1, empty, update, select}, losses |-> 1, ignored |-> 1, errors |-> 1]}

MCLosses ==
  {[threads |-> {w1, w2}, ops |-> {save1, update}, losses |-> 1, ignored |-> 0, errors |-> 0]}
=============================================================================
