----------------------------- MODULE SchemaPlan -----------------------------
(***************************************************************************)
(* Tables, column groups and projection plans.  A plan is the string the   *)
(* four functions of schema_project.c interpret: pairs of a number and an  *)
(* operation.  The plan generator is not part of this repository; Plan is  *)
(* modelled from the plans the interpreters are written for: the columns   *)
(* of a projection in turn, each at every place a cursor holds it, by a    *)
(* switch to the cursor's key or value where one is needed, a skip over    *)
(* the columns before it, and a NEXT at its first place, a REUSE at the    *)
(* others.                                                                 *)
(***************************************************************************)
EXTENDS Integers, Sequences, SequencesExt

CONSTANTS
    Columns,    \* the names of columns
    TypeOf      \* TypeOf[c]: the type of column c

\* WT_PROJ_KEY, WT_PROJ_VALUE, WT_PROJ_NEXT, WT_PROJ_SKIP, WT_PROJ_REUSE
ProjOps == {"k", "v", "n", "s", "r"}

\* One pair of a plan; arg is a cursor for "k" and "v", a count for the
\* others, 0 where the string gives none.
PlanOp == [arg : Nat, op : ProjOps]

\* A table: its key columns, and the value columns of each column group.
\* Cursor g of a cursor list is the cursor on column group g.
IsTable(t) ==
    /\ t.key \in Seq(Columns)
    /\ t.groups \in Seq(Seq(Columns))
    /\ t.groups # <<>>

\* The columns a cursor holds in its key or its value.
Held(t, g, kind) == IF kind = "k" THEN t.key ELSE t.groups[g]

\* The places of a column: in the key, looked at once, of cursor 1; in the
\* value, of every column group that has it.  col counts from 0.
Places(t, c) ==
    LET In(g, kind) ==
            LET cols == Held(t, g, kind)
            IN  SelectSeq([i \in DOMAIN cols |->
                                [cg |-> g, kind |-> kind, col |-> i - 1]],
                          LAMBDA x : cols[x.col + 1] = c)
    IN  In(1, "k") \o FlattenSeq([g \in DOMAIN t.groups |-> In(g, "v")])

\* The places a projection visits, in order, each with whether it is the
\* first place of its column.
Visits(t, proj) ==
    FlattenSeq([i \in DOMAIN proj |->
        LET at == Places(t, proj[i])
        IN  [j \in DOMAIN at |-> [at |-> at[j], first |-> j = 1, arg |-> i]]])

\* The plan of a projection.
Plan(t, proj) ==
    LET Visit(acc, x) ==
            LET switch == \/ acc.cg # x.at.cg
                          \/ acc.kind # x.at.kind
                          \/ acc.col > x.at.col
                from   == IF switch THEN 0 ELSE acc.col
                count  == x.at.col - from
            IN  [cg |-> x.at.cg, kind |-> x.at.kind, col |-> x.at.col + 1,
                 plan |-> acc.plan
                    \o (IF switch THEN <<[arg |-> x.at.cg, op |-> x.at.kind]>>
                        ELSE <<>>)
                    \o (IF count > 0
                        THEN <<[arg |-> IF count > 1 THEN count ELSE 0,
                                op |-> "s"]>>
                        ELSE <<>>)
                    \o <<[arg |-> 0, op |-> IF x.first THEN "n" ELSE "r"]>>]
    IN  FoldLeft(Visit, [cg |-> 0, kind |-> "k", col |-> 0, plan |-> <<>>],
                 Visits(t, proj)).plan

\* The format of a projection: the types of its columns.
Format(cols) == [i \in DOMAIN cols |-> TypeOf[cols[i]]]

=============================================================================
