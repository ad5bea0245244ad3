-------------------------------- MODULE Fops --------------------------------
(***************************************************************************)
(* The threads of the file operations test, src/test/fops/fops.c:          *)
(* fop_start creates the threads, joins them and prints what each of them  *)
(* counted; a thread draws nops operations with r(), a multiply-with-carry *)
(* generator whose two words m_z and m_w are static and shared by the      *)
(* threads without a lock.  A step of a thread is one load or one store of *)
(* a shared word, which is what the race comes to on the machines the test *)
(* runs on.  The operations themselves (obj_create, obj_drop, ...) are     *)
(* calls of the library and change nothing here.                           *)
(*                                                                         *)
(* A word has 2 * HalfBits bits.  The code has 16 for HalfBits and the     *)
(* multipliers 36969 and 18000, both below 2^16, so that no update         *)
(* overflows a word.                                                       *)
(***************************************************************************)
EXTENDS Integers, FiniteSets, Functions

CONSTANTS
    NThreads,   \* nthreads
    Nops,       \* nops
    HalfBits,
    MultZ,      \* 36969
    MultW,      \* 18000
    Clocks,     \* what gettimeofday may answer: records of sec and usec
    NULL

Half == 2 ^ HalfBits

Word == Half * Half

Threads == 1..NThreads

\* bulk, create, cursor, drop, ckpt, upgrade, verify
Operations == 0..6

ASSUME /\ NThreads \in Nat \ {0} /\ Nops \in Nat \ {0}
       /\ MultZ \in 1..(Half - 1) /\ MultW \in 1..(Half - 1)
       /\ \A c \in Clocks : c.sec \in 1..(Word - 1) /\ c.usec \in 1..(Word - 1)

VARIABLES
    m_w, m_z,   \* the statics of r()
    th,         \* of each thread: where it is, its i, and the registers
                \* it holds m_z and m_w in
    run_stats,  \* run_stats[id]: the count of each operation
    main,       \* where fop_start is
    next,       \* its i: the thread it creates or joins next
    shown       \* what print_stats printed, or NULL

vars == <<m_w, m_z, th, run_stats, main, next, shown>>

Places ==
    {"idle", "check", "seed_w", "seed_z", "load_z", "store_z", "load_w",
     "store_w", "done"}

Stats == [Operations -> 0..Nops]

TypeOK ==
    /\ m_w \in 0..(Word - 1)
    /\ m_z \in 0..(Word - 1)
    /\ th \in [Threads -> [pc : Places, i : 0..Nops,
                           z : 0..(Word - 1), w : 0..(Word - 1)]]
    /\ run_stats \in [Threads -> Stats]
    /\ main \in {"create", "join", "print", "exit"}
    /\ next \in 1..(NThreads + 1)
    /\ shown # NULL => shown \in [Threads -> Stats]

-----------------------------------------------------------------------------
(* r() *)

\* MUTANT of NextW: the carry is left out.
NextWithoutCarry(mult, x) == (mult * (x % Half)) % Word

\* m_z = 36969 * (m_z & 65535) + (m_z >> 16), and the same for m_w
NextW(mult, x) == (mult * (x % Half) + (x \div Half)) % Word

\* (m_z << 16) + (m_w & 65535)
Drawn(z, w) == (((z * Half) % Word) + (w % Half)) % Word

Running(t) == main \in {"create", "join"} /\ th[t].pc \notin {"idle", "done"}

At(t, place) == Running(t) /\ th[t].pc = place

Goto(t, place) == [th EXCEPT ![t].pc = place]

\* if (m_w == 0)
Check(t) ==
    /\ At(t, "check")
    /\ th' = Goto(t, IF m_w = 0 THEN "seed_w" ELSE "load_z")
    /\ UNCHANGED <<m_w, m_z, run_stats, main, next, shown>>

\* gettimeofday, and m_w = t.tv_sec
SeedW(t, clock) ==
    /\ At(t, "seed_w")
    /\ m_w' = clock.sec
    /\ th' = [Goto(t, "seed_z") EXCEPT ![t].z = clock.usec]
    /\ UNCHANGED <<m_z, run_stats, main, next, shown>>

\* m_z = t.tv_usec
SeedZ(t) ==
    /\ At(t, "seed_z")
    /\ m_z' = th[t].z
    /\ th' = Goto(t, "load_z")
    /\ UNCHANGED <<m_w, run_stats, main, next, shown>>

LoadZ(t) ==
    /\ At(t, "load_z")
    /\ th' = [Goto(t, "store_z") EXCEPT ![t].z = m_z]
    /\ UNCHANGED <<m_w, m_z, run_stats, main, next, shown>>

StoreZ(t) ==
    /\ At(t, "store_z")
    /\ m_z' = NextW(MultZ, th[t].z)
    /\ th' = [Goto(t, "load_w") EXCEPT ![t].z = m_z']
    /\ UNCHANGED <<m_w, run_stats, main, next, shown>>

LoadW(t) ==
    /\ At(t, "load_w")
    /\ th' = [Goto(t, "store_w") EXCEPT ![t].w = m_w]
    /\ UNCHANGED <<m_w, m_z, run_stats, main, next, shown>>

\* The store of m_w and the return of r(); the operation r() % 7 is
\* counted and called, and the loop of fop goes round.
StoreW(t) ==
    LET op == Drawn(th[t].z, m_w') % 7
        i == th[t].i + 1
    IN  /\ At(t, "store_w")
        /\ m_w' = NextW(MultW, th[t].w)
        /\ run_stats' = [run_stats EXCEPT ![t][op] = @ + 1]
        /\ th' = [Goto(t, IF i < Nops THEN "check" ELSE "done")
                     EXCEPT ![t].i = i]
        /\ UNCHANGED <<m_z, main, next, shown>>

-----------------------------------------------------------------------------
(* fop_start *)

\* pthread_create of thread next.
Create ==
    /\ main = "create"
    /\ th' = Goto(next, "check")
    /\ next' = IF next = NThreads THEN 1 ELSE next + 1
    /\ main' = IF next = NThreads THEN "join" ELSE "create"
    /\ UNCHANGED <<m_w, m_z, run_stats, shown>>

\* calloc or pthread_create fails: die, with the threads there are.
Die ==
    /\ main = "create"
    /\ main' = "exit"
    /\ UNCHANGED <<m_w, m_z, th, run_stats, next, shown>>

\* MUTANT of Joined: the last thread is not waited for.
JoinedButLast(t) == t = NThreads \/ th[t].pc = "done"

\* pthread_join returns when the thread has returned.
Joined(t) == th[t].pc = "done"

Join ==
    /\ main = "join"
    /\ next <= NThreads
    /\ Joined(next)
    /\ next' = next + 1
    /\ main' = IF next = NThreads THEN "print" ELSE "join"
    /\ UNCHANGED <<m_w, m_z, th, run_stats, shown>>

\* print_stats, and the return of fop_start.
PrintStats ==
    /\ main = "print"
    /\ shown' = run_stats
    /\ main' = "exit"
    /\ UNCHANGED <<m_w, m_z, th, run_stats, next>>

Init ==
    /\ m_w = 0
    /\ m_z = 0
    /\ th = [t \in Threads |-> [pc |-> "idle", i |-> 0, z |-> 0, w |-> 0]]
    /\ run_stats = [t \in Threads |-> [o \in Operations |-> 0]]
    /\ main = "create"
    /\ next = 1
    /\ shown = NULL

\* The test is run again.
Start ==
    /\ main = "exit"
    /\ m_w' = 0
    /\ m_z' = 0
    /\ th' = [t \in Threads |-> [pc |-> "idle", i |-> 0, z |-> 0, w |-> 0]]
    /\ run_stats' = [t \in Threads |-> [o \in Operations |-> 0]]
    /\ main' = "create"
    /\ next' = 1
    /\ shown' = NULL

Next ==
    \/ \E t \in Threads :
          \/ Check(t)
          \/ \E clock \in Clocks : SeedW(t, clock)
          \/ SeedZ(t)
          \/ LoadZ(t)
          \/ StoreZ(t)
          \/ LoadW(t)
          \/ StoreW(t)
    \/ Create
    \/ Die
    \/ Join
    \/ PrintStats
    \/ Start

Spec == Init /\ [][Next]_vars

-----------------------------------------------------------------------------
(* Properties *)

Seeded == \E t \in Threads : th[t].i > 0

\* print_stats prints, for every thread, the nops operations it did:
\* fop_start reads run_stats, which the threads write without a lock, only
\* after it joined the last of them.
PrintedStatsAreFinal ==
    shown # NULL =>
        \A t \in Threads : FoldFunction(+, 0, shown[t]) = Nops

\* r() reads the clock at the start and never again: once a number is
\* drawn m_w is not 0, whatever the threads do to each other's stores.
SeedOfWSurvives == Seeded => m_w # 0

Seeding == \E t \in Threads : th[t].pc \in {"seed_w", "seed_z"}

\* The generator keeps both of its words: once a number is drawn and no
\* thread is about to store the clock, neither m_z nor m_w is 0, the value
\* the update of r() never leaves.
SeedSurvives == (Seeded /\ ~Seeding) => (m_z # 0 /\ m_w # 0)

=============================================================================
