----------------------------- MODULE Projection -----------------------------
(***************************************************************************)
(* What the projection layer promises, in terms of columns: the cursors on *)
(* the column groups of a table hold, each in its key and in its value, a  *)
(* list of column values, and a call sets or reports the columns that a    *)
(* projection names.  Nothing here knows of plans, formats, packed bytes   *)
(* or buffer offsets.                                                      *)
(***************************************************************************)
EXTENDS SchemaPlan, FiniteSets

CONSTANTS
    Values,         \* what a column can hold
    Zero,           \* the cleared value
    Tables,         \* the tables a behaviour may be about
    Projections,    \* the column lists callers project
    VisitsOf        \* VisitsOf[t][proj]: the places proj visits in table t

ASSUME VisitsOf = [t \in Tables |-> [proj \in Projections |-> Visits(t, proj)]]

VARIABLES
    table,  \* the table the cursors are open on
    row,    \* row[g][kind]: the values cursor g holds in its key, its value
    call,   \* the last call and its arguments
    result  \* what the last call gave back

vars == <<table, row, call, result>>

\* The calls: a function, a projection, a value for each of its columns
\* where the function takes values, and whether only keys are set.
Call == [op : {"in", "out", "slice", "merge"}, proj : Projections,
         args : {<<>>} \cup UNION {[DOMAIN p -> Values] : p \in Projections},
         key_only : BOOLEAN]

Calls ==
    {c \in Call :
        /\ DOMAIN c.args = IF c.op \in {"in", "slice"} THEN DOMAIN c.proj ELSE {}
        /\ c.key_only => c.op = "slice"}

NoCall == [op |-> "none", proj |-> <<>>, args |-> <<>>, key_only |-> FALSE]

Result == [ret : {"ok", "notfound", "einval", "enomem"}, out : Seq(Values)]

Ok == [ret |-> "ok", out |-> <<>>]

TypeOK ==
    /\ table \in Tables
    /\ row \in [DOMAIN table.groups -> [{"k", "v"} -> Seq(Values)]]
    /\ call \in Calls \cup {NoCall}
    /\ result \in Result

\* The rows after the columns of a projection were set, in the keys and
\* values of the given kinds.  What a visit names is emptied first.  A
\* column the projection does not name, before one it names, is cleared;
\* of two values for one column the later one stays.
Assigned(proj, args, kinds) ==
    LET visits == VisitsOf[table][proj]
        Put(g, kind) ==
            LET at == {i \in DOMAIN visits :
                        visits[i].at.cg = g /\ visits[i].at.kind = kind}
            IN  IF kind \notin kinds \/ at = {} THEN row[g][kind]
                ELSE [j \in 1 .. Max({visits[i].at.col : i \in at}) + 1 |->
                        LET on == {i \in at : visits[i].at.col = j - 1}
                        IN  IF on = {} THEN Zero
                            ELSE args[visits[Max(on)].arg]]
    IN  [g \in DOMAIN row |-> [kind \in {"k", "v"} |-> Put(g, kind)]]

\* What a walk over the places of a projection reports: the value at the
\* first place of each column, up to the first place a cursor does not
\* reach.  A later place of a column must be reached, not held.
Reported(proj) ==
    LET visits == VisitsOf[table][proj]
        short  == {i \in DOMAIN visits :
                    Len(row[visits[i].at.cg][visits[i].at.kind])
                        < visits[i].at.col + (IF visits[i].first THEN 1 ELSE 0)}
        done   == IF short = {} THEN Len(visits) ELSE Min(short) - 1
        Value(x) == row[x.at.cg][x.at.kind][x.at.col + 1]
    IN  [ret |-> IF short = {} THEN "ok" ELSE "einval",
         out |-> FoldLeft(LAMBDA acc, x :
                            IF x.first THEN Append(acc, Value(x)) ELSE acc,
                          <<>>, SubSeq(visits, 1, done))]

\* The application sets the columns of a projection, or those of a packed
\* buffer are set: all, or the key columns.
Set(c) ==
    /\ c.op \in {"in", "slice"}
    /\ row' = Assigned(c.proj, c.args,
                       IF c.key_only THEN {"k"} ELSE {"k", "v"})
    /\ result' = Ok

\* A call that sets columns runs out of memory: a key or value the
\* projection names holds no more columns than the call would have left
\* there, each with the value it was to get or cleared (the record number
\* of a column store: or with the one it had); the others hold what they
\* held.
SetFails(c) ==
    /\ c.op \in {"in", "slice"}
    /\ result' = [ret |-> "enomem", out |-> <<>>]
    /\ LET kinds  == IF c.key_only THEN {"k"} ELSE {"k", "v"}
           whole  == Assigned(c.proj, c.args, kinds)
           visits == VisitsOf[table][c.proj]
           Named(g, kind) ==
                kind \in kinds /\ \E i \in DOMAIN visits :
                    visits[i].at.cg = g /\ visits[i].at.kind = kind
       IN  \E left \in {row'} :
             \A g \in DOMAIN row, kind \in {"k", "v"} :
                IF Named(g, kind)
                THEN /\ Len(left[g][kind]) <= Len(whole[g][kind])
                     /\ \A j \in DOMAIN left[g][kind] :
                            \/ left[g][kind][j] \in {whole[g][kind][j], Zero}
                            \/ /\ kind = "k" /\ Format(table.key) = <<"r">>
                               /\ left[g][kind] = row[g][kind]
                ELSE left[g][kind] = row[g][kind]

\* The application gets the columns of a projection, or they are packed
\* into a buffer.
Get(c) ==
    /\ c.op \in {"out", "merge"}
    /\ result' = Reported(c.proj)
    /\ UNCHANGED row

\* Packing into a buffer runs out of memory: the columns stay.
GetFails(c) ==
    /\ c.op = "merge"
    /\ result' \in Result
    /\ result'.ret = "enomem"
    /\ UNCHANGED row

\* One call.
Do(c) ==
    /\ c \in Calls
    /\ call' = c
    /\ Set(c) \/ SetFails(c) \/ Get(c) \/ GetFails(c)
    /\ UNCHANGED table

\* A fresh cursor holds nothing, but for the record number that is the key
\* of a column store.
Init ==
    /\ table \in Tables
    /\ \E r \in Values :
        row = [g \in DOMAIN table.groups |->
                [kind \in {"k", "v"} |->
                    IF kind = "k" /\ Format(table.key) = <<"r">>
                    THEN <<r>> ELSE <<>>]]
    /\ call = NoCall
    /\ result = Ok

Next == \E c \in Calls : Do(c)

Spec == Init /\ [][Next]_vars

=============================================================================
