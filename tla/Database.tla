------------------------------ MODULE Database ------------------------------
(***************************************************************************)
(* SqliteDB (include/seeker/database.h): a connection that init opens once *)
(* and every other call uses, both through the function-local static of    *)
(* getInstence.  The compiler guards the construction of that static; the  *)
(* flag inited is not guarded.                                             *)
(***************************************************************************)
EXTENDS Integers, FiniteSets

CONSTANTS
  Threads,     \* the threads that call
  Files,       \* the names init is called with
  NoFile,      \* ""
  DbCallsMax   \* bound: calls a thread makes

ASSUME DatabaseAssumption == NoFile \notin Files

VARIABLES
  dbInited,   \* static bool inited
  guard,      \* of static SqliteDB instence: "none", "building" or "built"
  dbFile,     \* instence.dbFile
  handles,    \* connections open
  stmts,      \* statements prepared and not finalized
  dPc,        \* where each thread is
  file,       \* the file of its call
  dbCalls     \* history: calls it made

dbVars == <<dbInited, guard, dbFile, handles, stmts, dPc, file, dbCalls>>

DatabaseInit ==
  /\ dbInited = FALSE
  /\ guard = "none"
  /\ dbFile = NoFile
  /\ handles = 0
  /\ stmts = 0
  /\ dPc = [t \in Threads |-> "out"]
  /\ file = [t \in Threads |-> NoFile]
  /\ dbCalls = [t \in Threads |-> 0]

At(t, pc) == dPc[t] = pc
GoTo(t, pc) == dPc' = [dPc EXCEPT ![t] = pc]

\* init(file), or one of the calls that getInstence().
CallDatabase(t) ==
  /\ At(t, "out") /\ dbCalls[t] < DbCallsMax
  /\ dbCalls' = [dbCalls EXCEPT ![t] = @ + 1]
  /\ \E f \in Files \cup {NoFile} : file' = [file EXCEPT ![t] = f]
  /\ dPc' \in {[dPc EXCEPT ![t] = pc] :
                 pc \in {"flag"} \cup IF file'[t] = NoFile THEN {"exec", "prepare"} ELSE {}}
  /\ UNCHANGED <<dbInited, guard, dbFile, handles, stmts>>

\* The flag is read here and set a step later.
ReadFlag(t) ==
  /\ At(t, "flag")
  /\ GoTo(t, IF dbInited THEN "out" ELSE "set")
  /\ UNCHANGED <<dbInited, guard, dbFile, handles, stmts, file, dbCalls>>

SetFlag(t) ==
  /\ At(t, "set")
  /\ dbInited' = TRUE
  /\ GoTo(t, "open")
  /\ UNCHANGED <<guard, dbFile, handles, stmts, file, dbCalls>>

\* Who comes while another builds waits.
EnterGuard(t) ==
  /\ dPc[t] \in {"open", "exec", "prepare"}
  /\ guard = "none"
  /\ guard' = "building"
  /\ GoTo(t, [open |-> "openBuild", exec |-> "execBuild", prepare |-> "prepareBuild"][dPc[t]])
  /\ UNCHANGED <<dbInited, dbFile, handles, stmts, file, dbCalls>>

Building(t) == dPc[t] \in {"openBuild", "execBuild", "prepareBuild"}

\* Mutant: a database that was not opened is kept.
KeepUnopened(t) ==
  /\ Building(t)
  /\ guard' = "built"
  /\ GoTo(t, [openBuild |-> "out", execBuild |-> "useExec", prepareBuild |-> "usePrepare"][dPc[t]])
  /\ UNCHANGED <<dbInited, dbFile, handles, stmts, file, dbCalls>>

\* An empty name, or an open that fails and closes its handle: the
\* constructor throws, and the next caller starts again.
ConstructorThrows(t) ==
  /\ Building(t)
  /\ guard' = "none"
  /\ GoTo(t, "out")
  /\ UNCHANGED <<dbInited, dbFile, handles, stmts, file, dbCalls>>

Open(t) ==
  /\ Building(t)
  /\ file[t] # NoFile
  /\ guard' = "built"
  /\ dbFile' = file[t]
  /\ handles' = handles + 1
  /\ GoTo(t, "out")
  /\ UNCHANGED <<dbInited, stmts, file, dbCalls>>

\* getInstence returns at once when the instance is there.
PassGuard(t) ==
  /\ dPc[t] \in {"open", "exec", "prepare"}
  /\ guard = "built"
  /\ GoTo(t, [open |-> "out", exec |-> "useExec", prepare |-> "usePrepare"][dPc[t]])
  /\ UNCHANGED <<dbInited, guard, dbFile, handles, stmts, file, dbCalls>>

\* exec and lastInsertRowid.
Exec(t) ==
  /\ At(t, "useExec")
  /\ GoTo(t, "out")
  /\ UNCHANGED <<dbInited, guard, dbFile, handles, stmts, file, dbCalls>>

\* perpare: an SQL error throws, without a statement.
Prepare(t) ==
  /\ At(t, "usePrepare")
  /\ \/ stmts' = stmts + 1 /\ GoTo(t, "stmt")
     \/ UNCHANGED stmts /\ GoTo(t, "out")
  /\ UNCHANGED <<dbInited, guard, dbFile, handles, file, dbCalls>>

\* The unique_ptr's deletor.
Finalize(t) ==
  /\ At(t, "stmt")
  /\ stmts' = stmts - 1
  /\ GoTo(t, "out")
  /\ UNCHANGED <<dbInited, guard, dbFile, handles, file, dbCalls>>

DatabaseStep ==
  \E t \in Threads :
    \/ CallDatabase(t) \/ ReadFlag(t) \/ SetFlag(t)
    \/ EnterGuard(t) \/ ConstructorThrows(t) \/ Open(t) \/ PassGuard(t)
    \/ Exec(t) \/ Prepare(t) \/ Finalize(t)

-----------------------------------------------------------------------------
(***************************************************************************)
(* Whatever the order in which threads call init and the rest, an open     *)
(* that fails included, there is at most one connection, to the file of a  *)
(* call of init, and nobody runs a statement without it                    *)
(* (database.h:27-45,60-100).  (That init returned does not mean it is     *)
(* there: the flag is set before the open.)                                *)
(***************************************************************************)
DatabaseIsOpen ==
  /\ handles <= 1
  /\ (stmts > 0 \/ \E t \in Threads : dPc[t] \in {"useExec", "usePrepare"}) =>
       handles = 1 /\ dbFile \in Files
  /\ Cardinality({t \in Threads : Building(t)}) <= 1

=============================================================================
