----------------------------- MODULE Migrations -----------------------------
(***************************************************************************)
(* init_db: every program of the system calls it first.  A new database    *)
(* gets the schema and the marks of all scripts; an old one the scripts    *)
(* that are not marked, one after the other, and then what the schema adds.*)
(* A script that does not open a transaction of its own is committed one   *)
(* statement at a time.                                                    *)
(***************************************************************************)
EXTENDS Integers, Sequences, SequencesExt

CONSTANTS
  Procs,     \* programs that call init_db
  Tables, Columns,
  BaseCols,  \* the columns an old database starts with, per table
  FullCols,  \* the columns of the schema, per table
  Indexed,   \* those the schema has an index on, per table
  Scripts,   \* per script its statements: [op, table, cols, needs]
  MaxRuns    \* bound: calls of init_db

\* The columns that script i brings to a table, and those it has by then.
Brings(i, t) ==
  UNION {Scripts[i][k].cols \ Scripts[i][k].needs :
           k \in {l \in DOMAIN Scripts[i] : Scripts[i][l].table = t}}
UpTo(i, t) == BaseCols[t] \cup UNION {Brings(j, t) : j \in 1 .. i}

Statements ==
  [op : {"add", "copy", "drop", "rename", "atomic"}, table : Tables,
   cols : SUBSET Columns, needs : SUBSET Columns]

Adds(s) == s.op = "add" /\ s.needs = {} /\ \E c \in Columns : s.cols = {c}

\* A script adds columns (v05, v06_observability, v07, v08, v09);
OnlyAdds(i) == \A k \in DOMAIN Scripts[i] : Adds(Scripts[i][k])

\* or rebuilds a table, statement by statement, perhaps after columns that guard
\* it from being repeated (v06_alpha_lab_import; v03_v04 has no such guard);
Rebuilds(i) ==
  LET s == Scripts[i]
      n == Len(s)
      t == s[n].table
  IN  /\ n >= 3 /\ s[n - 2].op = "copy" /\ s[n - 1].op = "drop" /\ s[n].op = "rename"
      /\ \A k \in 1 .. n : s[k].table = t
      /\ \A k \in 1 .. (n - 3) : Adds(s[k])
      /\ \A k \in {n - 1, n} : s[k].cols = {} /\ s[k].needs = {}
      /\ s[n - 2].cols = UpTo(i, t)
      /\ n > 3 => s[n - 2].cols \ s[n - 2].needs \subseteq UNION {s[k].cols : k \in 1 .. (n - 3)}

\* or rebuilds one in a transaction, as it is (sports_context, v10, v11, v12).
IsAtomic(i) ==
  LET s == Scripts[i][1]
  IN  Len(Scripts[i]) = 1 /\ s.op = "atomic" /\ s.cols = FullCols[s.table] /\ s.needs = s.cols

\* No two statements bring the same column, and in the end an old database has
\* the columns of a new one.
MigrationsAssumption ==
  /\ {BaseCols, FullCols, Indexed} \subseteq [Tables -> SUBSET Columns]
  /\ Scripts \in Seq(Seq(Statements))
  /\ \A i \in DOMAIN Scripts :
       /\ Len(Scripts[i]) > 0 /\ (OnlyAdds(i) \/ Rebuilds(i) \/ IsAtomic(i))
       /\ \A k, l \in DOMAIN Scripts[i] : Scripts[i][k] = Scripts[i][l] => k = l
  /\ \A t \in Tables :
       /\ BaseCols[t] # {} /\ FullCols[t] = UpTo(Len(Scripts), t)
       /\ \A i \in DOMAIN Scripts :
            /\ Brings(i, t) \cap BaseCols[t] = {}
            /\ \A j \in DOMAIN Scripts \ {i} : Brings(i, t) \cap Brings(j, t) = {}
  /\ MaxRuns \in Nat

VARIABLES
  tab,      \* per table [cols, rows]: no columns when it is not there
  scratch,  \* the table that is to take its place
  marks,    \* schema_migrations
  proc,     \* per program [at, applied, script, pc]
  runs,
  torn      \* history: a script was cut, met another program half-way, or came late

vars == <<tab, scratch, marks, proc, runs, torn>>

Absent == [cols |-> {}, rows |-> FALSE]
Off == [at |-> "off", applied |-> {}, script |-> 0, pc |-> 0]
There(t) == tab[t].cols # {}

Init ==
  /\ \/ tab = [t \in Tables |-> Absent]
     \/ tab = [t \in Tables |-> [cols |-> BaseCols[t], rows |-> TRUE]]
  /\ scratch = [t \in Tables |-> Absent]
  /\ marks = {} /\ runs = 0 /\ torn = FALSE
  /\ proc = [p \in Procs |-> Off]

Goes(p, at) == proc' = [proc EXCEPT ![p].at = at]

-----------------------------------------------------------------------------
\* _user_table_count, then ensure_schema_migrations and the marks as they are.
Open(p) ==
  /\ proc[p].at = "off" /\ runs < MaxRuns
  /\ runs' = runs + 1
  /\ proc' = [proc EXCEPT ![p] =
       [Off EXCEPT !.at = IF \E t \in Tables : There(t) \/ scratch[t] # Absent
                          THEN "loop" ELSE "fresh",
                   !.applied = marks]]
  /\ UNCHANGED <<tab, scratch, marks, torn>>

Pending(p) == {i \in DOMAIN Scripts : i > proc[p].script /\ i \notin proc[p].applied}

Lowest(S) == CHOOSE n \in S : \A k \in S : n <= k

NextScript(p) ==
  /\ proc[p].at = "loop"
  /\ IF Pending(p) = {} THEN Goes(p, "schema")
     ELSE proc' = [proc EXCEPT ![p].at = "script", ![p].script = Lowest(Pending(p)), ![p].pc = 1]
  /\ UNCHANGED <<tab, scratch, marks, runs, torn>>

Statement(p) == Scripts[proc[p].script][proc[p].pc]

\* What SQLite makes of a statement.  A rebuild in a transaction is one step.
Outcome(s) ==
  LET cols == tab[s.table].cols
  IN  CASE s.op = "rename" ->
             IF scratch[s.table] = Absent THEN "no such table"
             ELSE IF cols # {} THEN "exists" ELSE "done"
        [] s.op # "rename" /\ cols = {} -> "no such table"
        [] s.op = "add" /\ s.cols \subseteq cols -> "duplicate column"
        [] s.op # "rename" /\ ~(s.needs \subseteq cols) -> "no such column"
        [] OTHER -> "done"

SafeToSkip(outcome) == outcome \in {"no such table", "duplicate column"}

Effect(s) ==
  LET t == s.table
      old == tab[t]
      new == [cols |-> s.cols, rows |-> old.rows]
  IN  CASE s.op = "add"    -> /\ tab' = [tab EXCEPT ![t].cols = @ \cup s.cols]
                              /\ UNCHANGED scratch
        [] s.op = "atomic" -> tab' = [tab EXCEPT ![t] = new] /\ UNCHANGED scratch
        [] s.op = "copy"   -> scratch' = [scratch EXCEPT ![t] = new] /\ UNCHANGED tab
        [] s.op = "drop"   -> tab' = [tab EXCEPT ![t] = Absent] /\ UNCHANGED scratch
        [] s.op = "rename" -> /\ tab' = [tab EXCEPT ![t] = scratch[t]]
                              /\ scratch' = [scratch EXCEPT ![t] = Absent]

\* Is a program inside a script that rebuilds a table without a transaction?
Rebuilding(q) ==
  /\ proc[q].at = "script" /\ proc[q].pc > 1
  /\ \E k \in DOMAIN Scripts[proc[q].script] : Scripts[proc[q].script][k].op = "copy"

\* Is a table that has grown meanwhile about to be rebuilt, unguarded, as it was?
Shrinking(p) ==
  LET s == Statement(p)
  IN  proc[p].pc = 1 /\ s.op = "copy" /\ ~(tab[s.table].cols \subseteq s.cols)

\* The last statement, or one that may be skipped, ends the script; any other
\* error ends the program.
Execute(p) ==
  /\ proc[p].at = "script"
  /\ LET outcome == Outcome(Statement(p))
         last == proc[p].pc = Len(Scripts[proc[p].script])
     IN  IF outcome = "done"
         THEN /\ Effect(Statement(p))
              /\ proc' = [proc EXCEPT ![p].pc = @ + 1,
                                      ![p].at = IF last THEN "marking" ELSE "script"]
         ELSE /\ UNCHANGED <<tab, scratch>>
              /\ proc' = [proc EXCEPT ![p] = IF SafeToSkip(outcome)
                                             THEN [@ EXCEPT !.at = "marking"] ELSE Off]
  /\ torn' = (torn \/ Shrinking(p) \/ \E q \in Procs \ {p} : Rebuilding(q))
  /\ UNCHANGED <<marks, runs>>

\* Mutant: with the script that ran, all that are pending are marked.
MarkPending(p) ==
  /\ proc[p].at = "marking"
  /\ marks' = marks \cup {proc[p].script} \cup Pending(p) /\ Goes(p, "loop")
  /\ UNCHANGED <<tab, scratch, runs, torn>>

Mark(p) ==
  /\ proc[p].at = "marking"
  /\ marks' = marks \cup {proc[p].script} /\ Goes(p, "loop")
  /\ UNCHANGED <<tab, scratch, runs, torn>>

-----------------------------------------------------------------------------
\* schema.sql: tables and indexes that are not there yet, one at a time.  An
\* index on a column that is missing ends the program.
Create(p) ==
  /\ proc[p].at \in {"fresh", "schema"}
  /\ \E t \in Tables :
       /\ ~There(t)
       /\ tab' = [tab EXCEPT ![t] = [cols |-> FullCols[t], rows |-> FALSE]]
  /\ torn' = (torn \/ \E q \in Procs \ {p} : Rebuilding(q))
  /\ UNCHANGED <<scratch, marks, proc, runs>>

EndSchema(p) ==
  /\ proc[p].at \in {"fresh", "schema"} /\ \A t \in Tables : There(t)
  /\ marks' = IF proc[p].at = "fresh" /\ \A t \in Tables : Indexed[t] \subseteq tab[t].cols
              THEN DOMAIN Scripts ELSE marks
  /\ proc' = [proc EXCEPT ![p] = Off]
  /\ UNCHANGED <<tab, scratch, runs, torn>>

\* Between the statements of a script its first part is already committed.
Dies(p) ==
  /\ proc[p].at # "off"
  /\ proc' = [proc EXCEPT ![p] = Off]
  /\ torn' = (torn \/ (proc[p].at = "script" /\ proc[p].pc > 1))
  /\ UNCHANGED <<tab, scratch, marks, runs>>

Next ==
  \E p \in Procs :
    Open(p) \/ NextScript(p) \/ Execute(p) \/ Mark(p) \/ Create(p) \/ EndSchema(p) \/ Dies(p)

Spec == Init /\ [][Next]_vars

-----------------------------------------------------------------------------
Quiet == \A p \in Procs : proc[p].at = "off"

Stranded == \E t \in Tables : scratch[t].rows /\ ~tab[t].rows

\* When every script is marked the tables have all their columns and no rows
\* were left behind, whoever ran the scripts at the same time and wherever they
\* died, except inside a script, while a table was being rebuilt, or when an old
\* rebuild without a guard was repeated on a newer table.
MarkedIsComplete ==
  Quiet /\ marks = DOMAIN Scripts /\ ~torn
    => ~Stranded /\ \A t \in Tables : There(t) => FullCols[t] \subseteq tab[t].cols

=============================================================================
