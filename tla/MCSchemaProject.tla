-------------------------- MODULE MCSchemaProject --------------------------
(***************************************************************************)
(* The tables, projections and values the projection layer is checked on.  *)
(***************************************************************************)
EXTENDS SchemaProject

\* Columns k (a key), n (the record number of a column store), a, b, c.
MCColumns == {"k", "n", "a", "b", "c"}

MCTypeOf == [x \in MCColumns |->
                CASE x = "n" -> "r" [] x = "b" -> "S" [] OTHER -> "i"]

\* Values 0 and 1; 1 takes two bytes, so that a value written over
\* another changes the length of what follows.
MCValues == 0 .. 1

MCWidth == [v \in MCValues |-> v + 1]

\* One column group, its columns in the table's order.
Simple == [key |-> <<"k">>, groups |-> <<<<"a", "b", "c">>>>]

\* Two column groups, the second with its columns out of the table's order.
Grouped == [key |-> <<"k">>, groups |-> <<<<"a">>, <<"c", "b">>>>]

\* Two column groups that both hold column b.
Shared == [key |-> <<"k">>, groups |-> <<<<"a", "b">>, <<"b">>>>]

\* The same, with a column before b in the second group, and with one
\* behind it.
SharedLate == [key |-> <<"k">>, groups |-> <<<<"a", "b">>, <<"c", "b">>>>]

SharedEarly == [key |-> <<"k">>, groups |-> <<<<"a", "b">>, <<"b", "c">>>>]

\* A column store.
ColumnStore == [key |-> <<"n">>, groups |-> <<<<"a", "b">>>>]

MCTables == {Simple, Grouped, Shared, ColumnStore}

\* Columns in the order of a column group, against it, behind columns the
\* projection leaves out, and with a key.
MCProjections ==
    {<<"a", "b">>, <<"b", "a">>, <<"c", "b">>, <<"k", "b">>, <<"n", "b">>}

\* A projection whose plan only ever appends to a key or a value: within
\* each, its places come in the order of the columns, and none is the
\* record number of a column store.
Appends(t, proj) ==
    LET visits == Visits(t, proj)
    IN  \A i, j \in DOMAIN visits :
            /\ TypeOf[proj[visits[i].arg]] # "r"
            /\ (i < j /\ visits[i].at.cg = visits[j].at.cg
                      /\ visits[i].at.kind = visits[j].at.kind)
                => visits[i].at.col < visits[j].at.col

AppendingCalls == {x \in MCTables \X MCProjections : Appends(x[1], x[2])}

\* A row store with one column group, where project_in writes over columns
\* when the projection is not in the order of the group.
RowTables == {Simple}

RowCalls == RowTables \X MCProjections

\* Tables whose plans have a REUSE behind a SKIP, and a NEXT behind a REUSE.
ReuseTables == {SharedLate, SharedEarly}

ReuseProjections == {<<"a", "b">>, <<"c", "b">>, <<"b", "c">>}

NoCalls == {}

=============================================================================
