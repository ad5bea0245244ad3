----------------------------- MODULE MCPrograms -----------------------------
(***************************************************************************)
(* The programs of the repository for TLC: the configuration of the format *)
(* test, the example ex_file and the threads of the fops test.  They are   *)
(* programs of their own, so a behaviour is a behaviour of one of them,    *)
(* chosen at the start.                                                    *)
(***************************************************************************)
EXTENDS Integers, Sequences, TLC

CONSTANTS NULL, Signal

VARIABLES
    program,
    flags, v, vstr, type, uri, replay, status, loaded, printed, given,
    pc, conn, session, ret, file, exit,
    m_w, m_z, th, run_stats, main, next, shown

formatVars ==
    <<flags, v, vstr, type, uri, replay, status, loaded, printed, given>>

exampleVars == <<pc, conn, session, ret, file, exit>>

fopsVars == <<m_w, m_z, th, run_stats, main, next, shown>>

Programs == {"format", "ex_file", "fops"}

\* Six entries of the table, with the flags config.c tests: the two
\* strings and the number of threads are set by config_setup itself
\* (C_IGNORE), delete_pct is an operation percentage, and huffman_key is a
\* boolean of row stores that is set in half of the runs.
MCTable ==
    [data_source |-> [flags |-> {"IGNORE", "STRING"}, min |-> 0, max |-> 0,
                      type_mask |-> {}],
     delete_pct  |-> [flags |-> {"OPS"}, min |-> 0, max |-> 1,
                      type_mask |-> {}],
     file_type   |-> [flags |-> {"IGNORE", "STRING"}, min |-> 0, max |-> 0,
                      type_mask |-> {}],
     huffman_key |-> [flags |-> {"BOOL"}, min |-> 50, max |-> 0,
                      type_mask |-> {2}],
     ops         |-> [flags |-> {}, min |-> 0, max |-> 1, type_mask |-> {}],
     threads     |-> [flags |-> {"IGNORE"}, min |-> 1, max |-> 2,
                      type_mask |-> {}]]

MCOrder ==
    <<"data_source", "delete_pct", "file_type", "huffman_key", "ops",
      "threads">>

\* What a user types before the "=": the names, "d", which two names begin
\* with, "file", and a word no name begins with.
MCKeywords ==
    [kw \in DOMAIN MCTable |-> {kw}]
    @@ "d" :> {"data_source", "delete_pct"}
    @@ "file" :> {"file_type"}
    @@ "bzip" :> {}

MCDigits == <<"0", "1", "2">>

MCSources == {"file", "table", "lsm", "lsmfile", "kvs"}

MCSourceLike == MCSources \ {"kvs"}

\* A failed call returns an error of the system or one of the library.
MCErrors == {22, -31802}

Format == INSTANCE FormatConfig
    WITH Table <- MCTable, Order <- MCOrder, Keywords <- MCKeywords,
         Digits <- MCDigits, Sources <- MCSources,
         SourceLike <- MCSourceLike

Example == INSTANCE ExFile WITH Errors <- MCErrors

\* Two readings of the clock: one whose seconds have a low half of 0.
MCClocks == {[sec |-> 16, usec |-> 1], [sec |-> 3, usec |-> 7]}

\* Two threads of two operations each, on words of eight bits.
Threads == INSTANCE Fops
    WITH NThreads <- 2, Nops <- 2, HalfBits <- 4, MultZ <- 9, MultW <- 5,
         Clocks <- MCClocks

\* The variables of the programs hold what the programs put there.
TypeOK ==
    /\ program \in Programs
    /\ Format!TypeOK
    /\ Example!TypeOK
    /\ Threads!TypeOK

Init ==
    /\ program \in Programs
    /\ Format!Init
    /\ Example!Init
    /\ Threads!Init

\* A step of one program leaves the others as they are.
InFormat == UNCHANGED <<program, exampleVars, fopsVars>>

InExample == UNCHANGED <<program, formatVars, fopsVars>>

InFops == UNCHANGED <<program, formatVars, exampleVars>>

ConfigSingle(kw, text) ==
    program = "format" /\ Format!ConfigSingle(kw, text) /\ InFormat

ConfigFile == program = "format" /\ Format!ConfigFile /\ InFormat

ConfigSetup(tenth) ==
    program = "format" /\ Format!ConfigSetup(tenth) /\ InFormat

ConfigPrint == program = "format" /\ Format!ConfigPrint /\ InFormat

FormatStart(r) == program = "format" /\ Format!Start(r) /\ InFormat

Connect == program = "ex_file" /\ Example!Connect /\ InExample

Create == program = "ex_file" /\ Example!Create /\ InExample

Close == program = "ex_file" /\ Example!Close /\ InExample

ExampleStart == program = "ex_file" /\ Example!Start /\ InExample

Check(t) == program = "fops" /\ Threads!Check(t) /\ InFops

SeedW(t, clock) == program = "fops" /\ Threads!SeedW(t, clock) /\ InFops

SeedZ(t) == program = "fops" /\ Threads!SeedZ(t) /\ InFops

LoadZ(t) == program = "fops" /\ Threads!LoadZ(t) /\ InFops

StoreZ(t) == program = "fops" /\ Threads!StoreZ(t) /\ InFops

LoadW(t) == program = "fops" /\ Threads!LoadW(t) /\ InFops

StoreW(t) == program = "fops" /\ Threads!StoreW(t) /\ InFops

ThreadCreate == program = "fops" /\ Threads!Create /\ InFops

Die == program = "fops" /\ Threads!Die /\ InFops

Join == program = "fops" /\ Threads!Join /\ InFops

PrintStats == program = "fops" /\ Threads!PrintStats /\ InFops

FopsStart == program = "fops" /\ Threads!Start /\ InFops

Next ==
    \/ \E kw \in DOMAIN MCKeywords \cup {NULL}, text \in Format!Texts :
          ConfigSingle(kw, text)
    \/ ConfigFile
    \/ \E tenth \in BOOLEAN : ConfigSetup(tenth)
    \/ ConfigPrint
    \/ \E r \in BOOLEAN : FormatStart(r)
    \/ Connect
    \/ Create
    \/ Close
    \/ ExampleStart
    \/ \E t \in Threads!Threads :
          \/ Check(t)
          \/ \E clock \in MCClocks : SeedW(t, clock)
          \/ SeedZ(t)
          \/ LoadZ(t)
          \/ StoreZ(t)
          \/ LoadW(t)
          \/ StoreW(t)
    \/ ThreadCreate
    \/ Die
    \/ Join
    \/ PrintStats
    \/ FopsStart

Spec == Init /\ [][Next]_<<program, formatVars, exampleVars, fopsVars>>

-----------------------------------------------------------------------------

\* A run on an LSM tree is a run on a row store, whether config_setup or
\* the user chose the data source and the file type.
LsmIsRowStore == Format!LsmIsRowStore

\* config_setup and config_clear leave what the user set, run after run,
\* but for the operation percentages of a read-only run.
PermanentValuesKept == Format!PermanentValuesKept

\* A permanent setting holds in every run that is not read-only, also in
\* the runs after one that config_setup made read-only.
UserSettingsHold == Format!UserSettingsHold

\* config_file and config_setup make of the file config_print wrote the
\* run it was written of; a run of several threads is refused.
ReplayReproducesRun == Format!ReplayReproducesRun

\* print_stats of fops prints counts that add up to nops for every thread:
\* it runs after the last join.
PrintedStatsAreFinal == Threads!PrintedStatsAreFinal

\* Once r() has returned a number, m_w is not 0 and the clock is not read
\* again, whatever the threads do to each other's stores.
SeedOfWSurvives == Threads!SeedOfWSurvives

\* Once r() has returned a number and no thread is seeding, neither word
\* of the generator is 0.
SeedSurvives == Threads!SeedSurvives

=============================================================================
