------------------------------- MODULE ExFile -------------------------------
(***************************************************************************)
(* The example program src/examples/c/ex_file.c: it opens a connection and *)
(* a session, creates the file "file:example", closes the connection and   *)
(* exits.  Each call of the library succeeds or fails; after a failed      *)
(* connect the program prints a message and goes on ("further error        *)
(* checking omitted for clarity"), with a conn or a session that was never *)
(* assigned.  A call through such a pointer is undefined: the process is   *)
(* killed, or the call returns something and nothing is created or closed. *)
(***************************************************************************)
EXTENDS Integers

CONSTANTS
    Errors,     \* what a call of the library returns when it fails
    Signal,     \* the end of a process that is killed
    NULL

EXIT_FAILURE == 1

ASSUME Errors \subseteq Int \ {0}

VARIABLES
    pc,         \* the statement main is at, or "exit"
    conn,       \* "unset", "open", "closed", or "failed" after a close
                \* that returned an error
    session,    \* "unset" or "open"
    ret,
    file,       \* file:example exists under WT_TEST
    exit        \* how the process ended: its status or Signal, or NULL

vars == <<pc, conn, session, ret, file, exit>>

\* The low eight bits of what main returns are the status a parent sees.
Status == 0..255

TypeOK ==
    /\ pc \in {"connect", "create", "close", "exit"}
    /\ conn \in {"unset", "open", "closed", "failed"}
    /\ session \in {"unset", "open"}
    /\ ret \in Errors \cup {0, NULL}
    /\ file \in BOOLEAN
    /\ exit \in Status \cup {Signal, NULL}

\* What a call returns.
Returns == Errors \cup {0}

Killed ==
    /\ pc' = "exit"
    /\ exit' = Signal

-----------------------------------------------------------------------------

\* wiredtiger_open and, when it returned 0, conn->open_session.
Connect ==
    /\ pc = "connect"
    /\ \E open \in Returns, sess \in Returns :
         /\ conn' = IF open = 0 THEN "open" ELSE "unset"
         /\ session' = IF open = 0 /\ sess = 0 THEN "open" ELSE "unset"
         /\ ret' = IF open # 0 THEN open ELSE sess
    /\ pc' = "create"
    /\ UNCHANGED <<file, exit>>

\* session->create
Create ==
    /\ pc = "create"
    /\ \/ /\ session = "open"
          /\ ret' \in Returns
          /\ file' = (file \/ ret' = 0)
          /\ pc' = "close"
          /\ UNCHANGED exit
       \/ /\ session = "unset"
          /\ \/ ret' \in Returns /\ pc' = "close" /\ UNCHANGED <<file, exit>>
             \/ Killed /\ UNCHANGED <<ret, file>>
    /\ UNCHANGED <<conn, session>>

\* What main returns after conn->close returned closed.
MainReturns(closed) == (IF closed = 0 THEN ret ELSE EXIT_FAILURE) % 256

\* conn->close, and the return of main.
Close ==
    /\ pc = "close"
    /\ \/ /\ conn = "open"
          /\ \E closed \in Returns :
               /\ conn' = IF closed = 0 THEN "closed" ELSE "failed"
               /\ exit' = MainReturns(closed)
          /\ pc' = "exit"
       \/ /\ conn = "unset"
          /\ \/ \E closed \in Returns : exit' = MainReturns(closed)
                                        /\ pc' = "exit"
             \/ Killed
          /\ UNCHANGED conn
    /\ UNCHANGED <<session, ret, file>>

\* The program is run again in the same directory.
Start ==
    /\ pc = "exit"
    /\ pc' = "connect"
    /\ conn' = "unset"
    /\ session' = "unset"
    /\ ret' = NULL
    /\ exit' = NULL
    /\ UNCHANGED file

Init ==
    /\ pc = "connect"
    /\ conn = "unset"
    /\ session = "unset"
    /\ ret = NULL
    /\ file = FALSE
    /\ exit = NULL

Next == Connect \/ Create \/ Close \/ Start

Spec == Init /\ [][Next]_vars

=============================================================================
