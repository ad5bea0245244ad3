---------------------------- MODULE FormatConfig ----------------------------
(***************************************************************************)
(* The configuration of the format test program, src/test/format/config.c: *)
(* the table of entries a user sets by name, for good, and config_setup    *)
(* fills with random values for each run, and the file RUNDIR/run that     *)
(* config_print writes of a run and config_file reads to replay it.        *)
(*                                                                         *)
(* The table c[] and the globals are those config.c uses; their            *)
(* initialisers (config.h) and the program that calls config.c are not     *)
(* among the sources.  An entry is known by its name, a value typed by a   *)
(* user by its text, and a random number by the set it is drawn from.  A   *)
(* process that calls exit is gone: its memory is left as the call found   *)
(* it.                                                                     *)
(***************************************************************************)
EXTENDS Integers, Sequences, FiniteSets, SequencesExt, TLC

CONSTANTS
    Table,      \* c[], by name: flags, min, max and type_mask of an entry
    Order,      \* the names, in the order of c[]
    Keywords,   \* for each keyword a user types, the names that begin
                \* with it
    Digits,     \* the numerals a value is written with, that of 0 first
    Sources,    \* the texts a user gives as data source
    SourceLike, \* those of them that begin with file, table or lsm
    NULL

Names == DOMAIN Table

FIX == 1
ROW == 2
VAR == 3

\* The names config_translate knows a file type by.
Spellings ==
    FIX :> {"fix", "flcs", "fixed-length column-store"}
    @@ VAR :> {"var", "vlcs", "variable-length column-store"}
    @@ ROW :> {"row", "row-store"}

Types == DOMAIN Spellings

Numbers == 0..(Len(Digits) - 1)

ASSUME /\ {"data_source", "file_type", "threads", "ops", "delete_pct"}
              \subseteq Names
       /\ Order \in Seq(Names) /\ Range(Order) = Names
       /\ \A kw \in DOMAIN Keywords : Keywords[kw] \subseteq Names
       /\ {"file", "table", "lsm"} \subseteq SourceLike
       /\ SourceLike \subseteq Sources
       /\ \A e \in Names :
            /\ Table[e].flags \subseteq {"BOOL", "IGNORE", "OPS", "STRING"}
            /\ Table[e].type_mask \subseteq Types
            /\ "STRING" \in Table[e].flags
                  <=> e \in {"data_source", "file_type"}

VARIABLES
    flags,      \* C_PERM and C_TEMP of each entry
    v,          \* *cp->v of the entries that hold a number
    vstr,       \* *cp->vstr of the entries that hold a string
    type,       \* g.type
    uri,        \* g.uri, as the data source it was built from
    replay,     \* g.replay: the process was started with -r
    status,     \* "args" before the first run, "run", "printed" when the
                \* run is written, or "exit"
    loaded,     \* the process has read RUNDIR/run
    printed,    \* the lines of RUNDIR/run, or NULL
    given       \* history: the numbers the user of this process set

vars == <<flags, v, vstr, type, uri, replay, status, loaded, printed, given>>

Strings == {e \in Names : "STRING" \in Table[e].flags}

Texts ==
    Range(Digits) \cup UNION Range(Spellings) \cup Sources
        \cup {"error: unknown file type"}

\* A line of a configuration file: name=value, or a comment.
Line == [kw : Names \cup {"#"}, text : Texts \cup Names]

TypeOK ==
    /\ flags \in [Names -> SUBSET {"PERM", "TEMP"}]
    /\ v \in [Names \ Strings -> Numbers]
    /\ \A e \in Names \ Strings :
          v[e] <= IF "BOOL" \in Table[e].flags THEN 1 ELSE Table[e].max
    /\ vstr \in [Strings -> Texts \cup {NULL}]
    /\ type \in Types \cup {NULL}
    /\ uri \in Texts \cup {NULL}
    /\ replay \in BOOLEAN
    /\ status \in {"args", "run", "printed", "exit"}
    /\ loaded \in BOOLEAN
    /\ printed \in Seq(Line) \cup {NULL}
    /\ given \in [Names \ Strings -> Numbers \cup {NULL}]

-----------------------------------------------------------------------------
(* The table and the globals as one value, and the calls as functions of it *)

G == [flags |-> flags, v |-> v, vstr |-> vstr, type |-> type, uri |-> uri,
      exit |-> FALSE]

Install(g) ==
    /\ flags' = g.flags
    /\ v' = g.v
    /\ vstr' = g.vstr
    /\ type' = g.type
    /\ uri' = g.uri

Exit(g) == [g EXCEPT !.exit = TRUE]

\* config_translate: the number a text stands for, or NULL where it exits.
ConfigTranslate(s) ==
    CASE s \in Range(Digits) -> CHOOSE n \in Numbers : Digits[n + 1] = s
      [] \E t \in Types : s \in Spellings[t] ->
            CHOOSE t \in Types : s \in Spellings[t]
      [] OTHER -> NULL

\* config_file_type
ConfigFileType(n) ==
    CASE n = FIX -> "fixed-length column-store"
      [] n = VAR -> "variable-length column-store"
      [] n = ROW -> "row-store"
      [] OTHER -> "error: unknown file type"

\* config_find: the first entry of the table whose name begins with the
\* keyword, or NULL where it exits.
ConfigFind(kw) ==
    LET hits == {i \in DOMAIN Order : Order[i] \in Keywords[kw]}
    IN  IF hits = {} THEN NULL ELSE Order[Min(hits)]

\* config_single for an entry that holds a string: a value is stored when
\* the keyword is the whole name, a data source when it begins like one of
\* the three, a file type by its long name.
SingleString(g, e, kw, text) ==
    LET new == CASE kw = "data_source" ->
                      IF text \in SourceLike THEN text ELSE NULL
                 [] kw = "file_type" ->
                      IF ConfigTranslate(text) = NULL THEN NULL
                      ELSE ConfigFileType(ConfigTranslate(text))
                 [] OTHER -> g.vstr[e]
    IN  IF new = NULL THEN Exit(g) ELSE [g EXCEPT !.vstr[e] = new]

\* MUTANT of SingleNumber: the value is stored as it was typed.
SingleNumberUnchecked(g, e, text) ==
    LET n == ConfigTranslate(text)
    IN  IF n # NULL THEN [g EXCEPT !.v[e] = n] ELSE Exit(g)

\* config_single for an entry that holds a number.
SingleNumber(g, e, text) ==
    LET n == ConfigTranslate(text)
        legal == IF "BOOL" \in Table[e].flags THEN {0, 1}
                 ELSE Table[e].min .. Table[e].max
    IN  IF n \in legal THEN [g EXCEPT !.v[e] = n] ELSE Exit(g)

\* config_single: kw is what stands before the "=", or NULL without one.
Single(g, kw, text, perm) ==
    LET e == IF kw = NULL THEN NULL ELSE ConfigFind(kw)
        marked == [g EXCEPT !.flags[e] =
                               @ \cup {IF perm THEN "PERM" ELSE "TEMP"}]
    IN  IF g.exit THEN g
        ELSE IF e = NULL THEN Exit(g)
        ELSE IF e \in Strings THEN SingleString(marked, e, kw, text)
        ELSE SingleNumber(marked, e, text)

\* config_clear
ConfigClear(g) ==
    [g EXCEPT !.flags = [e \in Names |-> @[e] \ {"TEMP"}],
              !.vstr = [e \in Strings |->
                          IF "PERM" \in g.flags[e] THEN @[e] ELSE NULL],
              !.uri = NULL]

-----------------------------------------------------------------------------
(* config_setup, as the steps it goes through *)

Perm(g, e) == "PERM" \in g.flags[e]

\* CONF_RAND
ConfRand(e) == Table[e].min .. Table[e].max

\* The data source, unless the user gave one: file or table.
DataSource(g) ==
    IF Perm(g, "data_source") THEN {g}
    ELSE {Single(g, "data_source", s, FALSE) : s \in {"file", "table"}}

\* The file type, unless the user gave one: row-store for an LSM tree.
FileType(g) ==
    IF g.exit \/ Perm(g, "file_type") THEN {g}
    ELSE {Single(g, "file_type", t, FALSE) :
            t \in IF g.vstr["data_source"] = "lsm" THEN {"row"}
                  ELSE {"fix", "var", "row"}}

\* MUTANT of Mismatch: a data source and a file type the user gave are
\* taken as they are.
MismatchUnchecked(g) == FALSE

\* "lsm data_source is only compatible with row file_type"
Mismatch(g) == g.type # ROW /\ g.vstr["data_source"] = "lsm"

\* g.type and g.uri.  A file type config_single stored as unknown is
\* found here.
Object(g) ==
    LET t == IF g.exit THEN NULL ELSE ConfigTranslate(g.vstr["file_type"])
        typed == [g EXCEPT !.type = t]
    IN  IF t = NULL \/ Mismatch(typed) THEN Exit(g)
        ELSE [typed EXCEPT !.uri = g.vstr["data_source"]]

\* "Default single-threaded half of the time."
Threads(g) ==
    IF g.exit \/ Perm(g, "threads") THEN {g}
    ELSE {[g EXCEPT !.v["threads"] = n] : n \in {1} \cup ConfRand("threads")}

\* MUTANT of Randomised: what the user set for good is drawn again.
RandomisedWithPerm(g) ==
    {e \in Names : "IGNORE" \notin Table[e].flags /\ "TEMP" \notin g.flags[e]}

\* The entries that get a random value in every run.
Randomised(g) ==
    {e \in Names : "IGNORE" \notin Table[e].flags /\ g.flags[e] = {}}

\* "Fill in random values for the rest of the run": a boolean is set N
\* times in 100, where N is its min.
Fill(g) ==
    LET Draws(e) == IF "BOOL" \notin Table[e].flags THEN ConfRand(e)
                    ELSE {b \in {0, 1} : /\ b = 1 => Table[e].min >= 1
                                         /\ b = 0 => Table[e].min < 100}
        E == Randomised(g)
    IN  IF g.exit THEN {g}
        ELSE {[g EXCEPT !.v = [e \in DOMAIN g.v |->
                                 IF e \in E THEN d[e] ELSE @[e]]] :
                d \in {f \in [E -> Numbers] : \A e \in E : f[e] \in Draws(e)}}

\* "Clear operations values if the whole run is read-only."
ReadOnly(g) ==
    IF g.exit \/ g.v["ops"] # 0 THEN g
    ELSE [g EXCEPT !.v = [e \in DOMAIN g.v |->
                            IF "OPS" \in Table[e].flags THEN 0 ELSE @[e]]]

\* "Multi-threaded runs cannot be replayed."
Replayable(g) ==
    IF ~g.exit /\ replay /\ g.v["threads"] # 1 THEN Exit(g) ELSE g

\* Every tenth run, the delete percentage is 0 "so salvage gets run".
Salvage(g, tenth) ==
    IF ~g.exit /\ ~replay /\ tenth /\ "delete_pct" \in Randomised(g)
    THEN [g EXCEPT !.v["delete_pct"] = 0]
    ELSE g

\* config_setup: what it may leave, in a run that is the tenth or not.
Setups(g, tenth) ==
    LET typed == {Object(t) : t \in UNION {FileType(s) :
                                 s \in DataSource(ConfigClear(g))}}
        filled == UNION {Fill(t) : t \in UNION {Threads(s) : s \in typed}}
    IN  {Salvage(Replayable(ReadOnly(f)), tenth) : f \in filled}

\* config_print: the lines of RUNDIR/run.
Lines(g) ==
    [i \in DOMAIN Order |->
       LET e == Order[i]
       IN  CASE Table[e].type_mask # {} /\ g.type \notin Table[e].type_mask ->
                  [kw |-> "#", text |-> e]
             [] e \in Strings -> [kw |-> e, text |-> g.vstr[e]]
             [] OTHER -> [kw |-> e, text |-> Digits[g.v[e] + 1]]]

\* A line of a file: a config_single, unless it is a comment.
ReadLine(perm, g, l) ==
    IF l.kw = "#" THEN g ELSE Single(g, l.kw, l.text, perm)

\* MUTANT of FileRead: the lines are set for one run.
FileReadForOneRun(g, lines) ==
    FoldLeft(LAMBDA a, l : ReadLine(FALSE, a, l), g, lines)

\* config_file: the lines in their order, each set for good.
FileRead(g, lines) == FoldLeft(LAMBDA a, l : ReadLine(TRUE, a, l), g, lines)

-----------------------------------------------------------------------------
(* Actions *)

\* The process is left, or goes on with what the user's settings made of
\* the table.
Return(g) ==
    IF g.exit
    THEN status' = "exit" /\ UNCHANGED <<flags, v, vstr, type, uri, given>>
    ELSE /\ Install(g)
         /\ given' = [e \in Names \ Strings |->
                        IF Perm(g, e) THEN g.v[e] ELSE NULL]
         /\ UNCHANGED status

\* A name=value of the command line, or a line of the user's own file.
\* A replay is followed with the settings of RUNDIR/run and no others.
ConfigSingle(kw, text) ==
    /\ status = "args"
    /\ ~replay
    /\ Return(Single(G, kw, text, TRUE))
    /\ UNCHANGED <<replay, loaded, printed>>

\* A process started with -r reads the file the run before it wrote, or
\* finds none.
ConfigFile ==
    /\ status = "args"
    /\ replay /\ ~loaded
    /\ Return(IF printed = NULL THEN Exit(G) ELSE FileRead(G, printed))
    /\ loaded' = (printed # NULL)
    /\ UNCHANGED <<replay, printed>>

\* The configuration of the next run.  The file of the run before is of
\* no use from here on, except to the replay that was started with it.
ConfigSetup(tenth) ==
    /\ status \in {"args", "run", "printed"}
    /\ replay => loaded
    /\ \E g \in Setups(G, tenth) :
         IF g.exit THEN status' = "exit"
                        /\ UNCHANGED <<flags, v, vstr, type, uri>>
         ELSE Install(g) /\ status' = "run"
    /\ printed' = IF replay THEN printed ELSE NULL
    /\ UNCHANGED <<replay, loaded, given>>

\* The run is written to RUNDIR/run, unless the file cannot be opened.
ConfigPrint ==
    /\ status = "run"
    /\ \/ printed' = Lines(G) /\ status' = "printed"
       \/ status' = "exit" /\ UNCHANGED printed
    /\ UNCHANGED <<flags, v, vstr, type, uri, replay, loaded, given>>

\* The program is started again: with -r, to replay the run RUNDIR/run is
\* of, or without, for a test that never reads that file.
Start(r) ==
    /\ status \in {"run", "printed", "exit"}
    /\ flags' = [e \in Names |-> {}]
    /\ v' = [e \in Names \ Strings |-> 0]
    /\ vstr' = [e \in Strings |-> NULL]
    /\ type' = NULL
    /\ uri' = NULL
    /\ replay' = r
    /\ status' = "args"
    /\ loaded' = FALSE
    /\ printed' = IF r THEN printed ELSE NULL
    /\ given' = [e \in Names \ Strings |-> NULL]

Init ==
    /\ flags = [e \in Names |-> {}]
    /\ v = [e \in Names \ Strings |-> 0]
    /\ vstr = [e \in Strings |-> NULL]
    /\ type = NULL
    /\ uri = NULL
    /\ replay = FALSE
    /\ status = "args"
    /\ loaded = FALSE
    /\ printed = NULL
    /\ given = [e \in Names \ Strings |-> NULL]

Next ==
    \/ \E kw \in DOMAIN Keywords \cup {NULL}, text \in Texts :
          ConfigSingle(kw, text)
    \/ ConfigFile
    \/ \E tenth \in BOOLEAN : ConfigSetup(tenth)
    \/ ConfigPrint
    \/ \E r \in BOOLEAN : Start(r)

Spec == Init /\ [][Next]_vars

-----------------------------------------------------------------------------
(* Properties *)

\* A run on an LSM tree is a run on a row store, whoever chose the two:
\* config_setup picks row-store for a data source lsm the user gave, and
\* leaves the program when the user gave both and they do not agree.
LsmIsRowStore ==
    (status \in {"run", "printed"} /\ vstr["data_source"] = "lsm")
        => type = ROW

\* What the user set is what every run has.  config_setup draws no value
\* for an entry that has C_PERM and config_clear does not free its string,
\* run after run; the one thing that overrides the user is a read-only
\* run (ops = 0), which has every operation percentage 0.
PermanentValuesKept ==
    [][\A e \in Names :
          ("PERM" \in flags[e] /\ status' = "run") =>
             IF e \in Strings THEN vstr'[e] = vstr[e]
             ELSE \/ v'[e] = v[e]
                  \/ "OPS" \in Table[e].flags /\ v'["ops"] = 0 /\ v'[e] = 0]_vars

\* What the user set for good is what every run has that is not read-only:
\* "Clear operations values if the whole run is read-only" is about the
\* run with ops = 0, and the runs after it draw ops again.
UserSettingsHold ==
    status \in {"run", "printed"} =>
        \A e \in Names \ Strings :
           given[e] # NULL =>
              \/ v[e] = given[e]
              \/ "OPS" \in Table[e].flags /\ v["ops"] = 0

\* A run can be replayed from the file config_print wrote of it: every
\* line of RUNDIR/run is one config_single accepts, for the file type by
\* the long name config_file_type printed; config_setup then leaves all
\* of them alone, so that the replay would print the same file.  The one
\* run -r refuses is a run of several threads.
ReplayReproducesRun ==
    [][/\ (~loaded /\ loaded') => status' # "exit"
       /\ (loaded /\ status' = "run") => Lines(G)' = printed
       /\ (loaded /\ status = "args" /\ status' = "exit") => v["threads"] # 1
      ]_vars

=============================================================================
