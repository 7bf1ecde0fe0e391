---------------------------- MODULE RenamesProof ----------------------------
(***************************************************************************)
(* That interfaces which were renamed without an error have their names      *)
(* (Renames), for any interfaces, drivers and entries, whatever the kernel   *)
(* refuses.  The plan is made on a table that it keeps up to date, so the    *)
(* invariant says where the commands lead: Ends(links, ops, k) are the       *)
(* tables the first k of them may end in, and Near that a table has the      *)
(* names of the plan, with what was up before up or about to be raised.      *)
(*                                                                         *)
(* Then that the network described is the one written (ApplyNetwork), for    *)
(* any description that keeps to NetworksAssumption: ReadInv says of the     *)
(* table what it owes to the commands read so far, and not to their order;   *)
(* what a renderer writes of a complete table is compared with the           *)
(* description a subnet at a time, the lists that both are as sets.          *)
(***************************************************************************)
EXTENDS ApplyNetwork, SequenceTheorems, FiniteSetTheorems, WellFoundedInduction, TLAPS

----------------------------------------------------------------------------
(* What a command makes of a table in which the names are distinct.         *)

\* A table with an interface down, up, or under another name.
LEMMA TableDown ==
  ASSUME NEW T \in Tables, NEW n \in Nics
  PROVE  LET U == [T EXCEPT ![n].up = FALSE] IN
         /\ U \in Tables /\ \A m \in Nics : U[m].name = T[m].name
         /\ ~U[n].up /\ \A m \in Nics : m # n => (U[m].up <=> T[m].up)
  BY DEF Tables

\* An interface of a table raised.
LEMMA TableUp ==
  ASSUME NEW T \in Tables, NEW n \in Nics
  PROVE  LET U == [T EXCEPT ![n].up = TRUE] IN
         /\ U \in Tables /\ \A m \in Nics : U[m].name = T[m].name
         /\ U[n].up /\ \A m \in Nics : m # n => (U[m].up <=> T[m].up)
  BY DEF Tables

\* An interface of a table under another name.
LEMMA TableName ==
  ASSUME NEW T \in Tables, NEW n \in Nics, NEW new \in AllNames
  PROVE  LET U == [T EXCEPT ![n].name = new] IN
         /\ U \in Tables
         /\ \A m \in Nics : (U[m].up <=> T[m].up)
         /\ U[n].name = new /\ \A m \in Nics : m # n => U[m].name = T[m].name
  BY DEF Tables

\* Whatever the kernel makes of a table is a table.
LEMMA OutcomesType ==
  ASSUME NEW T \in Tables, NEW cmd \in Commands
  PROVE  Outcomes(T, cmd) \subseteq Tables
  <1>1. ASSUME NEW n \in Nics, NEW up \in BOOLEAN
        PROVE  [T EXCEPT ![n].up = up] \in Tables
    BY DEF Tables
  <1>2. ASSUME NEW n \in Nics
        PROVE  [T EXCEPT ![n].name = cmd[3]] \in Tables
    BY DEF Tables, Commands
  <1>3. (cmd[1] = "up") \in BOOLEAN
    OBVIOUS
  <1>4. CASE cmd[1] \in {"up", "down"}
    BY <1>1, <1>3, <1>4, Zenon DEF Outcomes, Called
  <1>5. CASE cmd[1] \notin {"up", "down"}
    BY <1>2, <1>5, Zenon DEF Outcomes, Called
  <1>6. QED
    BY <1>4, <1>5

\* The kernel keeps the names distinct.
LEMMA OutcomesDistinct ==
  ASSUME NEW T \in Tables, Distinct(T), NEW cmd \in Commands, NEW U \in Outcomes(T, cmd)
  PROVE  Distinct(U)
  <1>1. CASE cmd[1] \in {"up", "down"}
    <2>1. PICK n \in Nics : U = [T EXCEPT ![n].up = (cmd[1] = "up")]
      BY <1>1 DEF Outcomes, Called
    <2>2. \A m \in Nics : U[m].name = T[m].name
      BY <2>1 DEF Tables
    <2>3. QED
      BY <2>2 DEF Distinct
  <1>2. CASE cmd[1] \notin {"up", "down"}
    <2>1. PICK n \in Nics : U = [T EXCEPT ![n].name = cmd[3]] /\ Called(T, cmd[3]) = {}
      BY <1>2 DEF Outcomes, Called
    <2>2. \A m \in Nics : U[m].name = (IF m = n THEN cmd[3] ELSE T[m].name) /\ T[m].name # cmd[3]
      BY <2>1 DEF Tables, Called
    <2>3. QED
      BY <2>2 DEF Distinct
  <1>3. QED
    BY <1>1, <1>2

\* An interface that is taken down is down, and nothing else changed.
LEMMA TakenDown ==
  ASSUME NEW T \in Tables, Distinct(T), NEW n \in Nics, NEW U \in Outcomes(T, Down(T[n].name))
  PROVE  U = [T EXCEPT ![n].up = FALSE]
  BY DEF Outcomes, Tables, Called, Distinct, Down

\* An interface that is raised is up, and nothing else changed.
LEMMA Raised ==
  ASSUME NEW T \in Tables, Distinct(T), NEW n \in Nics, NEW U \in Outcomes(T, Up(T[n].name))
  PROVE  U = [T EXCEPT ![n].up = TRUE]
  BY DEF Outcomes, Tables, Called, Distinct, Up

\* A renamed interface has the name, and nothing else changed.
LEMMA Renamed ==
  ASSUME NEW T \in Tables, Distinct(T), NEW n \in Nics, NEW new,
         NEW U \in Outcomes(T, Rename(T[n].name, new))
  PROVE  U = [T EXCEPT ![n].name = new]
  BY DEF Outcomes, Tables, Called, Distinct, Rename

----------------------------------------------------------------------------
(* The tables a sequence of commands may end in.                            *)

\* Commands end in tables.
LEMMA EndsType ==
  ASSUME NEW T, NEW ops, NEW k \in Nat
  PROVE  Ends(T, ops, k) \subseteq Tables
  BY DEF Ends, Ways

\* The last command starts from where those before it end.
LEMMA EndsOfAppend ==
  ASSUME NEW T \in Tables, NEW ops \in Seq(Commands), NEW cmd \in Commands,
         NEW U \in Ends(T, Append(ops, cmd), Len(ops) + 1)
  PROVE  \E S \in Ends(T, ops, Len(ops)) : U \in Outcomes(S, cmd)
  <1>1. PICK w \in Ways(T, Append(ops, cmd), Len(ops) + 1) : U = w[Len(ops) + 1]
    BY DEF Ends
  <1> DEFINE v == [i \in 0..Len(ops) |-> w[i]]
  <1>2. v \in Ways(T, ops, Len(ops))
    <2>1. v \in [0..Len(ops) -> Tables] /\ v[0] = T
      BY DEF Ways
    <2>2. ASSUME NEW i \in 1..Len(ops)
          PROVE  v[i] \in Outcomes(v[i - 1], ops[i])
      <3>1. w[i] \in Outcomes(w[i - 1], Append(ops, cmd)[i])
        BY DEF Ways
      <3>2. QED
        BY <3>1
    <2>3. QED
      BY <2>1, <2>2 DEF Ways
  <1>3. U \in Outcomes(v[Len(ops)], cmd)
    BY <1>1 DEF Ways
  <1>4. QED
    BY <1>2, <1>3 DEF Ends

\* What comes after them does not change where the first commands end.
LEMMA EndsOfConcat ==
  ASSUME NEW T, NEW ops \in Seq(Commands), NEW more \in Seq(Commands)
  PROVE  Ends(T, ops \o more, Len(ops)) = Ends(T, ops, Len(ops))
  <1>1. \A i \in 1..Len(ops) : (ops \o more)[i] = ops[i]
    OBVIOUS
  <1>2. Ways(T, ops \o more, Len(ops)) = Ways(T, ops, Len(ops))
    BY <1>1 DEF Ways
  <1>3. QED
    BY <1>2 DEF Ends

\* After the first command the others may end only where all might.
LEMMA EndsOfTail ==
  ASSUME NEW T \in Tables, NEW ops \in Seq(Commands), NEW j \in 1..Len(ops),
         NEW U \in Outcomes(T, Head(ops))
  PROVE  Ends(U, Tail(ops), j - 1) \subseteq Ends(T, ops, j)
  <1> SUFFICES ASSUME NEW v \in Ways(U, Tail(ops), j - 1)
               PROVE  v[j - 1] \in Ends(T, ops, j)
    BY DEF Ends
  <1> DEFINE w == [i \in 0..j |-> IF i = 0 THEN T ELSE v[i - 1]]
  <1>1. w \in [0..j -> Tables] /\ w[0] = T
    BY DEF Ways
  <1>2. ASSUME NEW i \in 1..j
        PROVE  w[i] \in Outcomes(w[i - 1], ops[i])
    <2>1. CASE i = 1
      BY <2>1 DEF Ways
    <2>2. CASE i # 1
      <3>1. i - 1 \in 1..(j - 1) /\ Tail(ops)[i - 1] = ops[i]
        BY <2>2
      <3>2. v[i - 1] \in Outcomes(v[i - 2], ops[i])
        BY <3>1 DEF Ways
      <3>3. QED
        BY <2>2, <3>2
    <2>3. QED
      BY <2>1, <2>2
  <1>3. w \in Ways(T, ops, j)
    BY <1>1, <1>2 DEF Ways
  <1>4. w[j] = v[j - 1]
    OBVIOUS
  <1>5. QED
    BY <1>3, <1>4, Zenon DEF Ends

----------------------------------------------------------------------------
(* The plan is made step by step.  On the way the interface n of the entry  *)
(* is to be raised under the name it has not got yet.                       *)

Ups(p) == Sayings(p.ups, 1, Len(p.ups))
OnlyUps(p) == \A i \in DOMAIN p.ups : p.ups[i][1] = "up"

Leads(p) == \A end \in Ends(links, p.ops, Len(p.ops)) : Near(end, p, Ups(p))

LeadsBut(p, n, new) ==
    \A end \in Ends(links, p.ops, Len(p.ops)), m \in Nics :
        /\ end[m].name = p.info[m].name
        /\ before[m].up => end[m].up \/ Up(IF m = n THEN new ELSE p.info[m].name) \in Ups(p)

\* Appending to the ups keeps those there are.
LEMMA UpsOfAppend ==
  ASSUME NEW ups \in Seq(Commands), NEW cmd \in Commands
  PROVE  Sayings(Append(ups, cmd), 1, Len(ups) + 1) = Sayings(ups, 1, Len(ups)) \cup {cmd}
  <1>1. \A i \in 1..Len(ups) : Append(ups, cmd)[i] = ups[i]
    OBVIOUS
  <1>2. Append(ups, cmd)[Len(ups) + 1] = cmd
    OBVIOUS
  <1>3. 1..(Len(ups) + 1) = (1..Len(ups)) \cup {Len(ups) + 1}
    OBVIOUS
  <1> HIDE DEF Commands
  <1>4. QED
    BY <1>1, <1>2, <1>3 DEF Sayings

\* The three commands _rename_interfaces plans.
LEMMA CommandsType ==
  ASSUME NEW a \in AllNames, NEW b \in AllNames
  PROVE  Down(a) \in Commands /\ Up(a) \in Commands /\ Rename(a, b) \in Commands
  BY DEF Commands, Down, Up, Rename

\* A plan is what it is made of.
LEMMA PlansType ==
  ASSUME NEW p \in Plans, NEW info \in Tables, NEW ops \in Seq(Commands), NEW ups \in Seq(Commands),
         NEW tmpi \in 0..MaxTmp
  PROVE  [info |-> info, ops |-> ops, ups |-> ups, tmpi |-> tmpi, errors |-> p.errors] \in Plans
  BY DEF Plans

\* An entry's interface is taken down, and to be raised under its new name, if the plan has
\* it up.
LEMMA ReadyShape ==
  ASSUME NEW p \in Plans, NEW n \in Nics, NEW new \in AllNames
  PROVE  LET q == Lowered(Raising(p, n, new), n) IN
         /\ q \in Plans /\ q.info = [p.info EXCEPT ![n].up = FALSE]
         /\ q.errors = p.errors /\ q.tmpi = p.tmpi
         /\ ~p.info[n].up => q = p
         /\ p.info[n].up => /\ q.ops = Append(p.ops, Down(p.info[n].name))
                            /\ q.ups = Append(p.ups, Up(new))
  <1> SUFFICES ASSUME NEW q, q = Lowered(Raising(p, n, new), n)
               PROVE  /\ q \in Plans /\ q.info = [p.info EXCEPT ![n].up = FALSE]
                      /\ q.errors = p.errors /\ q.tmpi = p.tmpi
                      /\ ~p.info[n].up => q = p
                      /\ p.info[n].up => /\ q.ops = Append(p.ops, Down(p.info[n].name))
                                         /\ q.ups = Append(p.ups, Up(new))
    OBVIOUS
  <1>1. CASE ~p.info[n].up
    <2>1. q = p
      BY <1>1 DEF Lowered, Raising
    <2>2. q.info = [p.info EXCEPT ![n].up = FALSE]
      BY <1>1, <2>1 DEF Plans, Tables
    <2>3. QED
      BY <1>1, <2>1, <2>2
  <1>2. CASE p.info[n].up
    <2>1. p.info \in Tables /\ p.info[n].name \in AllNames /\ p.ops \in Seq(Commands) /\ p.ups \in Seq(Commands)
      BY DEF Plans, Tables
    <2>2. Down(p.info[n].name) \in Commands /\ Up(new) \in Commands
      BY <2>1, CommandsType
    <2>3. /\ q.ops = Append(p.ops, Down(p.info[n].name)) /\ q.ups = Append(p.ups, Up(new))
          /\ q.errors = p.errors /\ q.tmpi = p.tmpi
      BY <1>2 DEF Lowered, Raising, Plans
    <2>4. p.info \in Tables /\ q.info = [p.info EXCEPT ![n].up = FALSE]
      BY <1>2 DEF Lowered, Raising, Plans
    <2>5. q = [info |-> q.info, ops |-> q.ops, ups |-> q.ups, tmpi |-> p.tmpi, errors |-> p.errors]
      BY <1>2 DEF Lowered, Raising, Plans
    <2>6. q.info \in Tables
      BY <2>4, TableDown
    <2>7. q.ops \in Seq(Commands) /\ q.ups \in Seq(Commands)
      BY <2>1, <2>2, <2>3, AppendProperties
    <2>8. q \in Plans
      BY <2>3, <2>5, <2>6, <2>7 DEF Plans
    <2>9. QED
      BY <1>2, <2>3, <2>4, <2>8
  <1>3. QED
    BY <1>1, <1>2

\* If the plan has it up whenever it was up at the start, it will be up again.
LEMMA ReadyLeads ==
  ASSUME links \in Tables, NEW p \in Plans, Distinct(p.info), Leads(p), OnlyUps(p),
         NEW n \in Nics, NEW new \in AllNames, before[n].up => p.info[n].up,
         NEW q, q = Lowered(Raising(p, n, new), n)
  PROVE  LeadsBut(q, n, new) /\ OnlyUps(q)
  <1>1. CASE ~p.info[n].up
    <2>1. q = p
      BY <1>1 DEF Lowered, Raising
    <2>2. LeadsBut(q, n, new)
      BY <1>1, <2>1 DEF LeadsBut, Leads, Near
    <2>3. QED
      BY <2>1, <2>2
  <1>2. CASE p.info[n].up
    <2> DEFINE down == Down(p.info[n].name)
    <2>1. p.info \in Tables /\ p.info[n].name \in AllNames /\ p.ops \in Seq(Commands) /\ p.ups \in Seq(Commands)
      BY DEF Plans, Tables
    <2>2. down \in Commands /\ Up(new) \in Commands
      BY <2>1, CommandsType
    <2>3. q.ops = Append(p.ops, down) /\ q.ups = Append(p.ups, Up(new))
      BY <1>2, ReadyShape
    <2>4. p.info \in Tables /\ q.info = [p.info EXCEPT ![n].up = FALSE]
      BY <2>1, ReadyShape
    <2> HIDE DEF down
    <2>5. Len(q.ops) = Len(p.ops) + 1 /\ Len(q.ups) = Len(p.ups) + 1
      BY <2>1, <2>2, <2>3, AppendProperties
    <2>6. Ups(q) = Ups(p) \cup {Up(new)}
      BY <2>1, <2>2, <2>3, <2>5, UpsOfAppend, Zenon DEF Ups
    <2>7. OnlyUps(q)
      BY <2>1, <2>2, <2>3 DEF OnlyUps, Up
    <2>8. ASSUME NEW end \in Ends(links, q.ops, Len(q.ops)), NEW m \in Nics
          PROVE  /\ end[m].name = q.info[m].name
                 /\ before[m].up => end[m].up \/ Up(IF m = n THEN new ELSE q.info[m].name) \in Ups(q)
      <3>1. PICK S \in Ends(links, p.ops, Len(p.ops)) : end \in Outcomes(S, down)
        BY <2>1, <2>2, <2>3, <2>5, EndsOfAppend, Zenon
      <3>2. S \in Tables /\ Near(S, p, Ups(p))
        BY <2>1, <3>1, EndsType DEF Leads
      <3>3. Distinct(S) /\ S[n].name = p.info[n].name
        BY <3>2 DEF Distinct, Near
      <3>4. end = [S EXCEPT ![n].up = FALSE]
        BY <3>1, <3>2, <3>3, TakenDown DEF down
      <3>5. /\ S[m].name = p.info[m].name
            /\ before[m].up => S[m].up \/ Up(p.info[m].name) \in Ups(p)
        BY <3>2 DEF Near
      <3>6. q.info[m].name = p.info[m].name
        BY <2>4, TableDown
      <3>7. end[m].name = S[m].name /\ (m # n => (end[m].up <=> S[m].up))
        BY <3>2, <3>4, TableDown
      <3>8. QED
        BY <2>6, <3>5, <3>6, <3>7, Zenon
    <2>9. QED
      BY <2>7, <2>8 DEF LeadsBut
  <1>3. QED
    BY <1>1, <1>2

\* A free name keeps the names of a table distinct.
LEMMA FreeName ==
  ASSUME NEW T \in Tables, Distinct(T), NEW n \in Nics, NEW new \in AllNames, Called(T, new) = {}
  PROVE  Distinct([T EXCEPT ![n].name = new])
  <1>1. \A m \in Nics : T[m].name # new
    BY DEF Called
  <1>2. QED
    BY <1>1, TableName DEF Distinct

\* The commands before an interface in the way is moved.
OpsBelow(p, t) == IF p.info[t].up THEN Append(p.ops, Down(p.info[t].name)) ELSE p.ops

\* An interface in the way is taken down and moved to the temporary name, and is to be
\* raised under it.
LEMMA VacatedShape ==
  ASSUME NEW p \in Plans, NEW t \in Nics, NEW i \in 0..(MaxTmp - 1)
  PROVE  LET q == Vacated(p, t, i) IN
         /\ q \in Plans /\ q.info = [p.info EXCEPT ![t].name = Tmp(i)] /\ q.errors = p.errors
         /\ OpsBelow(p, t) \in Seq(Commands)
         /\ Rename(p.info[t].name, Tmp(i)) \in Commands /\ Up(Tmp(i)) \in Commands
         /\ q.ops = Append(OpsBelow(p, t), Rename(p.info[t].name, Tmp(i)))
         /\ q.ups = IF p.info[t].up THEN Append(p.ups, Up(Tmp(i))) ELSE p.ups
  <1> SUFFICES ASSUME NEW q, q = Vacated(p, t, i)
               PROVE  /\ q \in Plans /\ q.info = [p.info EXCEPT ![t].name = Tmp(i)] /\ q.errors = p.errors
                      /\ OpsBelow(p, t) \in Seq(Commands)
                      /\ Rename(p.info[t].name, Tmp(i)) \in Commands /\ Up(Tmp(i)) \in Commands
                      /\ q.ops = Append(OpsBelow(p, t), Rename(p.info[t].name, Tmp(i)))
                      /\ q.ups = IF p.info[t].up THEN Append(p.ups, Up(Tmp(i))) ELSE p.ups
    BY Zenon
  <1> DEFINE name == p.info[t].name
             move == Rename(name, Tmp(i))
             ops1 == OpsBelow(p, t)
  <1>1. /\ p.info \in Tables /\ name \in AllNames /\ Tmp(i) \in AllNames
        /\ p.ops \in Seq(Commands) /\ p.ups \in Seq(Commands)
    <2>1. i \in 0..MaxTmp
      BY RenamesAssumption
    <2>2. Tmp(i) \in AllNames
      BY <2>1, Zenon DEF AllNames
    <2>3. QED
      BY <2>2 DEF Plans, Tables
  <1>2. Down(name) \in Commands /\ move \in Commands /\ Up(Tmp(i)) \in Commands
    BY <1>1, CommandsType
  <1> HIDE DEF name, move
  <1>3. ops1 \in Seq(Commands)
    BY <1>1, <1>2, AppendProperties DEF OpsBelow, name
  <1>4. q.ops = Append(ops1, move)
    <2>1. q.ops = p.ops \o (IF p.info[t].up THEN <<Down(name)>> ELSE <<>>) \o <<move>>
      BY DEF Vacated, Plans, name, move
    <2>2. ops1 = p.ops \o (IF p.info[t].up THEN <<Down(name)>> ELSE <<>>)
      BY <1>1, <1>2, AppendIsConcat, ConcatEmptySeq DEF OpsBelow, name
    <2> HIDE DEF ops1
    <2>3. q.ops = ops1 \o <<move>>
      BY <2>1, <2>2, Zenon
    <2>4. QED
      BY <1>2, <1>3, <2>3, AppendIsConcat, Zenon
  <1>5. q.ups = IF p.info[t].up THEN Append(p.ups, Up(Tmp(i))) ELSE p.ups
    <2>1. q.ups = p.ups \o (IF p.info[t].up THEN <<Up(Tmp(i))>> ELSE <<>>)
      BY DEF Vacated, Plans
    <2>2. QED
      BY <1>1, <1>2, <2>1, AppendIsConcat, ConcatEmptySeq
  <1>6. p.info \in Tables /\ Tmp(i) \in AllNames /\ q.info = [p.info EXCEPT ![t].name = Tmp(i)]
    BY <1>1 DEF Vacated, Plans
  <1>7. q.info \in Tables
    BY <1>6, TableName
  <1>8. q \in Plans /\ q.errors = p.errors
    <2> HIDE DEF ops1
    <2>1. q = [info |-> q.info, ops |-> q.ops, ups |-> q.ups, tmpi |-> i + 1, errors |-> p.errors]
      BY DEF Vacated, Plans
    <2>2. q.ops \in Seq(Commands) /\ q.ups \in Seq(Commands)
      BY <1>1, <1>2, <1>3, <1>4, <1>5, AppendProperties
    <2>3. i + 1 \in 0..MaxTmp
      BY RenamesAssumption
    <2>4. q.errors = p.errors
      BY <2>1
    <2>5. [info |-> q.info, ops |-> q.ops, ups |-> q.ups, tmpi |-> i + 1, errors |-> p.errors] \in Plans
      BY <1>7, <2>2, <2>3, PlansType
    <2>6. QED
      BY <2>1, <2>4, <2>5, Zenon
  <1>9. QED
    BY <1>2, <1>3, <1>4, <1>5, <1>6, <1>8, Zenon DEF name, move

\* If the plan has it up whenever it was up at the start, it will be up again, under the
\* temporary name.
LEMMA VacatedLeads ==
  ASSUME links \in Tables, NEW p \in Plans, Distinct(p.info), OnlyUps(p),
         NEW n \in Nics, NEW new \in AllNames, LeadsBut(p, n, new),
         NEW t \in Nics, t # n, before[t].up => p.info[t].up,
         NEW i \in 0..(MaxTmp - 1), NEW q, q = Vacated(p, t, i)
  PROVE  LeadsBut(q, n, new) /\ OnlyUps(q)
  <1> DEFINE name == p.info[t].name
             move == Rename(name, Tmp(i))
             ops1 == OpsBelow(p, t)
  <1>1. /\ p.info \in Tables /\ name \in AllNames /\ Down(name) \in Commands
        /\ p.ops \in Seq(Commands) /\ p.ups \in Seq(Commands)
    BY CommandsType DEF Plans, Tables
  <1>2. move \in Commands /\ Up(Tmp(i)) \in Commands /\ ops1 \in Seq(Commands)
    BY VacatedShape
  <1>3. q.ops = Append(ops1, move) /\ q.ups = IF p.info[t].up THEN Append(p.ups, Up(Tmp(i))) ELSE p.ups
    BY VacatedShape
  <1> HIDE DEF name, move, ops1
  <1>4. Len(q.ops) = Len(ops1) + 1
    BY <1>2, <1>3, AppendProperties
  <1>5. p.info \in Tables /\ Tmp(i) \in AllNames /\ q.info = [p.info EXCEPT ![t].name = Tmp(i)]
    <2>1. i \in 0..MaxTmp
      BY RenamesAssumption
    <2>2. Tmp(i) \in AllNames
      BY <2>1, Zenon DEF AllNames
    <2>3. QED
      BY <1>1, <2>2, VacatedShape
  <1>6. OnlyUps(q)
    BY <1>1, <1>2, <1>3 DEF OnlyUps, Up
  <1>7. /\ Ups(p) \subseteq Ups(q)
        /\ p.info[t].up => Up(Tmp(i)) \in Ups(q)
    <2>1. CASE p.info[t].up
      <3>1. q.ups = Append(p.ups, Up(Tmp(i))) /\ Len(q.ups) = Len(p.ups) + 1
        BY <1>1, <1>2, <1>3, <2>1, AppendProperties
      <3>2. Sayings(Append(p.ups, Up(Tmp(i))), 1, Len(p.ups) + 1) =
              Sayings(p.ups, 1, Len(p.ups)) \cup {Up(Tmp(i))}
        BY <1>1, <1>2, UpsOfAppend, Zenon
      <3>3. QED
        BY <3>1, <3>2 DEF Ups
    <2>2. CASE ~p.info[t].up
      BY <1>3, <2>2 DEF Ups
    <2>3. QED
      BY <2>1, <2>2
  \* Down or not, the table the move starts from has the names of the plan.
  <1>8. ASSUME NEW S1 \in Ends(links, ops1, Len(ops1))
        PROVE  \E S \in Ends(links, p.ops, Len(p.ops)) :
                 \A m \in Nics : S1[m].name = S[m].name /\ (m # t => (S1[m].up <=> S[m].up))
    <2>1. CASE p.info[t].up
      <3>1. ops1 = Append(p.ops, Down(name)) /\ Len(ops1) = Len(p.ops) + 1
        BY <1>1, <2>1, AppendProperties DEF ops1, OpsBelow, name
      <3>2. PICK S \in Ends(links, p.ops, Len(p.ops)) : S1 \in Outcomes(S, Down(name))
        BY <1>1, <3>1, EndsOfAppend, Zenon
      <3>3. S \in Tables /\ \A m \in Nics : S[m].name = p.info[m].name
        BY <1>1, <3>2, EndsType DEF LeadsBut
      <3>4. Distinct(S) /\ name = S[t].name
        BY <3>3 DEF Distinct, name
      <3>5. S1 = [S EXCEPT ![t].up = FALSE]
        BY <3>2, <3>3, <3>4, TakenDown
      <3>6. QED
        BY <3>2, <3>3, <3>5, TableDown
    <2>2. CASE ~p.info[t].up
      BY <2>2 DEF ops1, OpsBelow
    <2>3. QED
      BY <2>1, <2>2
  <1>9. ASSUME NEW end \in Ends(links, q.ops, Len(q.ops)), NEW m \in Nics
        PROVE  /\ end[m].name = q.info[m].name
               /\ before[m].up => end[m].up \/ Up(IF m = n THEN new ELSE q.info[m].name) \in Ups(q)
    <2>1. PICK S1 \in Ends(links, ops1, Len(ops1)) : end \in Outcomes(S1, move)
      BY <1>2, <1>3, <1>4, EndsOfAppend, Zenon
    <2>2. PICK S \in Ends(links, p.ops, Len(p.ops)) :
             \A k \in Nics : S1[k].name = S[k].name /\ (k # t => (S1[k].up <=> S[k].up))
      BY <1>8, <2>1
    <2>3. \A k \in Nics :
             /\ S[k].name = p.info[k].name
             /\ before[k].up => S[k].up \/ Up(IF k = n THEN new ELSE p.info[k].name) \in Ups(p)
      BY <2>2 DEF LeadsBut
    <2>4. S1 \in Tables /\ Distinct(S1) /\ name = S1[t].name
      BY <1>2, <2>1, <2>2, <2>3, EndsType DEF Distinct, name
    <2>5. S1 \in Tables /\ Tmp(i) \in AllNames /\ end = [S1 EXCEPT ![t].name = Tmp(i)]
      BY <1>5, <2>1, <2>4, Renamed DEF move
    <2>6. /\ \A k \in Nics : end[k].up <=> S1[k].up
          /\ end[t].name = Tmp(i) /\ \A k \in Nics : k # t => end[k].name = S1[k].name
      BY <2>5, TableName
    <2>7. q.info[t].name = Tmp(i) /\ \A k \in Nics : k # t => q.info[k].name = p.info[k].name
      BY <1>5, TableName
    <2>8. CASE m = t
      BY <1>7, <2>6, <2>7, <2>8, Zenon
    <2>9. CASE m # t
      <3>1. end[m].name = q.info[m].name /\ (end[m].up <=> S[m].up) /\ q.info[m].name = p.info[m].name
        BY <2>2, <2>3, <2>6, <2>7, <2>9, Zenon
      <3>2. QED
        BY <1>7, <2>3, <3>1, Zenon
    <2>10. QED
      BY <2>8, <2>9
  <1>10. QED
    BY <1>6, <1>9, Zenon DEF LeadsBut

\* The interface of the entry gets its name.
LEMMA NamedShape ==
  ASSUME NEW p \in Plans, NEW n \in Nics, NEW new \in AllNames
  PROVE  LET q == Named(p, n, new) IN
         /\ q \in Plans /\ q.info = [p.info EXCEPT ![n].name = new] /\ q.errors = p.errors
         /\ Rename(p.info[n].name, new) \in Commands
         /\ q.ops = Append(p.ops, Rename(p.info[n].name, new)) /\ q.ups = p.ups
  <1> SUFFICES ASSUME NEW q, q = Named(p, n, new)
               PROVE  /\ q \in Plans /\ q.info = [p.info EXCEPT ![n].name = new] /\ q.errors = p.errors
                      /\ Rename(p.info[n].name, new) \in Commands
                      /\ q.ops = Append(p.ops, Rename(p.info[n].name, new)) /\ q.ups = p.ups
    BY Zenon
  <1> DEFINE move == Rename(p.info[n].name, new)
  <1>1. p.info \in Tables /\ p.info[n].name \in AllNames /\ p.ops \in Seq(Commands) /\ p.ups \in Seq(Commands)
    BY DEF Plans, Tables
  <1>2. move \in Commands
    BY <1>1, CommandsType
  <1>3. q.ops = Append(p.ops, move) /\ q.ups = p.ups
    BY DEF Named, Plans
  <1>4. p.info \in Tables /\ q.info = [p.info EXCEPT ![n].name = new]
    BY DEF Named, Plans
  <1> HIDE DEF move
  <1>5. q.info \in Tables
    BY <1>4, TableName
  <1>6. q = [info |-> q.info, ops |-> q.ops, ups |-> q.ups, tmpi |-> p.tmpi, errors |-> p.errors]
    BY DEF Named, Plans
  <1>7. q.ops \in Seq(Commands)
    BY <1>1, <1>2, <1>3, AppendProperties
  <1>8. p.tmpi \in 0..MaxTmp /\ q.ups \in Seq(Commands)
    BY <1>1, <1>3 DEF Plans
  <1>9. q.errors = p.errors
    BY <1>6
  <1>10. [info |-> q.info, ops |-> q.ops, ups |-> q.ups, tmpi |-> p.tmpi, errors |-> p.errors] \in Plans
    BY <1>5, <1>7, <1>8, PlansType
  <1>11. q \in Plans
    BY <1>6, <1>9, <1>10, Zenon
  <1>12. QED
    BY <1>2, <1>3, <1>4, <1>9, <1>11, Zenon DEF move

\* With it the commands lead where the plan says.
LEMMA NamedLeads ==
  ASSUME links \in Tables, NEW p \in Plans, Distinct(p.info), OnlyUps(p),
         NEW n \in Nics, NEW new \in AllNames, LeadsBut(p, n, new),
         NEW q, q = Named(p, n, new)
  PROVE  Leads(q) /\ OnlyUps(q)
  <1> DEFINE name == p.info[n].name
             move == Rename(name, new)
  <1>1. p.info \in Tables /\ name \in AllNames /\ p.ops \in Seq(Commands)
    BY DEF Plans, Tables
  <1>2. move \in Commands /\ q.ops = Append(p.ops, move) /\ q.ups = p.ups
    BY NamedShape
  <1>3. p.info \in Tables /\ q.info = [p.info EXCEPT ![n].name = new]
    BY <1>1, NamedShape
  <1> HIDE DEF name, move
  <1>4. Len(q.ops) = Len(p.ops) + 1
    BY <1>1, <1>2, AppendProperties
  <1>5. ASSUME NEW end \in Ends(links, q.ops, Len(q.ops)), NEW m \in Nics
        PROVE  /\ end[m].name = q.info[m].name
               /\ before[m].up => end[m].up \/ Up(q.info[m].name) \in Ups(q)
    <2>1. PICK S \in Ends(links, p.ops, Len(p.ops)) : end \in Outcomes(S, move)
      BY <1>1, <1>2, <1>4, EndsOfAppend, Zenon
    <2>2. \A k \in Nics :
             /\ S[k].name = p.info[k].name
             /\ before[k].up => S[k].up \/ Up(IF k = n THEN new ELSE p.info[k].name) \in Ups(p)
      BY <2>1 DEF LeadsBut
    <2>3. S \in Tables /\ Distinct(S) /\ name = S[n].name
      BY <1>1, <2>1, <2>2, EndsType DEF Distinct, name
    <2>4. end = [S EXCEPT ![n].name = new]
      BY <2>1, <2>3, Renamed DEF move
    <2>5. /\ \A k \in Nics : end[k].up <=> S[k].up
          /\ end[n].name = new /\ \A k \in Nics : k # n => end[k].name = S[k].name
      BY <2>3, <2>4, TableName
    <2>6. q.info[n].name = new /\ \A k \in Nics : k # n => q.info[k].name = p.info[k].name
      BY <1>3, TableName
    <2>7. Ups(q) = Ups(p)
      BY <1>2 DEF Ups
    <2>8. QED
      BY <2>2, <2>5, <2>6, <2>7, Zenon
  <1>6. QED
    BY <1>2, <1>5, Zenon DEF Leads, Near, OnlyUps

----------------------------------------------------------------------------
(* One entry of the plan.                                                   *)

\* What becomes of the plan at an entry that names one interface.
PlannedFor(p, e, i, n, q) ==
    \/ p.info[n].name = e.name /\ q = p
    \/ /\ p.info[n].name # e.name /\ Called(p.info, e.name) = {}
       /\ q = Named(Lowered(Raising(p, n, e.name), n), n, e.name)
    \/ /\ p.info[n].name # e.name
       /\ \E t \in Called(p.info, e.name) :
             \/ q = [Failed(Lowered(Raising(p, n, e.name), n), "busy-target") EXCEPT !.ops = p.ops]
             \/ q = Named(Vacated(Lowered(Raising(p, n, e.name), n), t, i), n, e.name)

\* An entry is refused, or planned for an interface that matches it.
LEMMA PlannedCases ==
  ASSUME NEW p, NEW e, NEW i
  PROVE  LET q == Planned(p, e, i) IN
         \/ \E err \in {"not present", "busy"} : q = Failed(p, err)
         \/ \E n \in Matches(e) : PlannedFor(p, e, i, n, q)
  <1> SUFFICES ASSUME NEW q, q = Planned(p, e, i)
               PROVE  \/ \E err \in {"not present", "busy"} : q = Failed(p, err)
                      \/ \E n \in Matches(e) : PlannedFor(p, e, i, n, q)
    OBVIOUS
  <1> DEFINE n == CHOOSE m \in Matches(e) : TRUE
             t == CHOOSE m \in Called(p.info, e.name) : TRUE
             ready == Lowered(Raising(p, n, e.name), n)
  <1>1. CASE Matches(e) = {}
    BY <1>1 DEF Planned
  <1>2. CASE Matches(e) # {}
    <2>1. n \in Matches(e)
      BY <1>2
    <2>2. CASE p.info[n].name = e.name
      <3>1. q = p
        BY <1>2, <2>2 DEF Planned
      <3>2. QED
        BY <2>1, <2>2, <3>1 DEF PlannedFor
    <2>3. CASE p.info[n].name # e.name /\ p.info[n].up /\ ~Downable(n)
      BY <1>2, <2>3 DEF Planned
    <2>4. CASE p.info[n].name # e.name /\ ~(p.info[n].up /\ ~Downable(n))
      <3>1. q = IF Called(p.info, e.name) = {} THEN Named(ready, n, e.name)
                ELSE IF p.info[t].up /\ ~Downable(t)
                THEN [Failed(ready, "busy-target") EXCEPT !.ops = p.ops]
                ELSE Named(Vacated(ready, t, i), n, e.name)
        BY <1>2, <2>4 DEF Planned
      <3>2. Called(p.info, e.name) # {} => t \in Called(p.info, e.name)
        OBVIOUS
      <3> HIDE DEF t
      <3>3. PlannedFor(p, e, i, n, q)
        BY <2>4, <3>1, <3>2 DEF PlannedFor
      <3>4. QED
        BY <2>1, <3>3
    <2>5. QED
      BY <2>2, <2>3, <2>4
  <1>3. QED
    BY <1>1, <1>2

\* A plan with an error put down is one.
LEMMA FailedType ==
  ASSUME NEW p \in Plans, NEW err \in {"not present", "ambiguous", "busy", "busy-target", "unknown"}
  PROVE  Failed(p, err) \in Plans /\ Failed(p, err).info = p.info /\ Failed(p, err).errors # {}
  BY DEF Plans, Failed

\* An interface that is taken down keeps its name, and so do the others.
LEMMA DownDistinct ==
  ASSUME NEW T \in Tables, Distinct(T), NEW n \in Nics
  PROVE  Distinct([T EXCEPT ![n].up = FALSE])
  BY TableDown DEF Distinct

\* Whatever becomes of it, the plan is a plan, and its names are distinct.
LEMMA PlannedType ==
  ASSUME NEW p \in Plans, Distinct(p.info), NEW e, e.name \in AllNames,
         NEW i \in 0..(MaxTmp - 1), FirstFree(p, i)
  PROVE  LET q == Planned(p, e, i) IN q \in Plans /\ Distinct(q.info) /\ (q.errors = {} => p.errors = {})
  <1> SUFFICES ASSUME NEW q, q = Planned(p, e, i)
               PROVE  q \in Plans /\ Distinct(q.info) /\ (q.errors = {} => p.errors = {})
    OBVIOUS
  <1>1. CASE \E err \in {"not present", "busy"} : q = Failed(p, err)
    <2>1. PICK err \in {"not present", "busy"} : q = Failed(p, err)
      BY <1>1
    <2>2. err \in {"not present", "ambiguous", "busy", "busy-target", "unknown"}
      OBVIOUS
    <2>3. Failed(p, err) \in Plans /\ Failed(p, err).info = p.info /\ Failed(p, err).errors # {}
      BY <2>2, FailedType, Zenon
    <2>4. QED
      BY <2>1, <2>3, Zenon
  <1>2. CASE \E n \in Matches(e) : PlannedFor(p, e, i, n, q)
    <2>1. PICK n \in Nics : PlannedFor(p, e, i, n, q)
      BY <1>2 DEF Matches
    <2> DEFINE ready == Lowered(Raising(p, n, e.name), n)
    <2>2. ready \in Plans /\ ready.errors = p.errors /\ ready.info = [p.info EXCEPT ![n].up = FALSE]
      BY ReadyShape
    <2> HIDE DEF ready
    <2>3. /\ ready.info \in Tables /\ Distinct(ready.info)
          /\ \A m \in Nics : ready.info[m].name = p.info[m].name
      <3>1. p.info \in Tables /\ ready.info = [p.info EXCEPT ![n].up = FALSE]
        BY <2>2 DEF Plans
      <3>2. Distinct(ready.info)
        BY <3>1, DownDistinct
      <3>3. ready.info \in Tables
        BY <2>2 DEF Plans
      <3>4. ASSUME NEW m \in Nics PROVE ready.info[m].name = p.info[m].name
        BY <3>1, TableDown
      <3>5. QED
        BY <3>2, <3>3, <3>4
    <2>9. ready \in Plans /\ e.name \in AllNames
      BY <2>2
    <2>4. CASE q = p
      BY <2>4
    <2>5. CASE Called(p.info, e.name) = {} /\ q = Named(ready, n, e.name)
      <3>1. Called(ready.info, e.name) = {}
        BY <2>3, <2>5 DEF Called
      <3>2. q \in Plans /\ q.info = [ready.info EXCEPT ![n].name = e.name] /\ q.errors = p.errors
        <4>1. q \in Plans /\ q.info = [ready.info EXCEPT ![n].name = e.name] /\ q.errors = ready.errors
          BY <2>5, <2>9, NamedShape
        <4>2. QED
          BY <2>2, <4>1
      <3>3. Distinct(q.info)
        BY <2>3, <3>1, <3>2, FreeName
      <3>4. QED
        BY <3>2, <3>3
    <2>6. ASSUME NEW t \in Called(p.info, e.name),
                 q = [Failed(ready, "busy-target") EXCEPT !.ops = p.ops]
          PROVE  q \in Plans /\ Distinct(q.info) /\ q.errors # {}
      <3>1. /\ Failed(ready, "busy-target") \in Plans /\ Failed(ready, "busy-target").info = ready.info
            /\ Failed(ready, "busy-target").errors # {}
        BY <2>2, FailedType
      <3>2. p.ops \in Seq(Commands)
        BY DEF Plans
      <3> DEFINE f == Failed(ready, "busy-target")
      <3> HIDE DEF f
      <3>3. q = [info |-> f.info, ops |-> p.ops, ups |-> f.ups, tmpi |-> f.tmpi, errors |-> f.errors]
        BY <2>6, <3>1 DEF Plans, f
      <3>4. f.info \in Tables /\ f.ups \in Seq(Commands) /\ f.tmpi \in 0..MaxTmp
        BY <3>1 DEF Plans, f
      <3>5. q \in Plans
        BY <3>1, <3>2, <3>3, <3>4, PlansType DEF f
      <3>6. QED
        BY <2>3, <3>1, <3>3, <3>5 DEF f
    <2>7. ASSUME NEW t \in Called(p.info, e.name), p.info[n].name # e.name,
                 q = Named(Vacated(ready, t, i), n, e.name)
          PROVE  q \in Plans /\ Distinct(q.info) /\ q.errors = p.errors
      <3> DEFINE moved == Vacated(ready, t, i)
      <3>1. t \in Nics /\ t # n /\ p.info[t].name = e.name
        BY <2>7 DEF Called
      <3>2. Tmp(i) \in AllNames
        <4>1. i \in 0..MaxTmp
          BY RenamesAssumption
        <4>2. QED
          BY <4>1, Zenon DEF AllNames
      <3>3. moved \in Plans /\ moved.info = [ready.info EXCEPT ![t].name = Tmp(i)] /\ moved.errors = p.errors
        <4>1. /\ moved \in Plans /\ moved.info = [ready.info EXCEPT ![t].name = Tmp(i)]
              /\ moved.errors = ready.errors
          BY <2>9, <3>1, VacatedShape
        <4>2. QED
          BY <2>2, <4>1
      <3>4. Called(ready.info, Tmp(i)) = {}
        BY <2>3 DEF FirstFree, Called
      <3>5. Distinct(moved.info)
        BY <2>3, <3>1, <3>2, <3>3, <3>4, FreeName
      <3> HIDE DEF moved
      <3>6. moved.info \in Tables
        BY <3>3 DEF Plans
      <3>7. \A m \in Nics : moved.info[m].name = IF m = t THEN Tmp(i) ELSE p.info[m].name
        BY <2>3, <3>1, <3>2, <3>3, TableName
      <3>8. \A m \in Nics : p.info[m].name = e.name => m = t
        BY <3>1 DEF Distinct
      <3>9. e.name # Tmp(i)
        BY <3>1 DEF FirstFree, Called
      <3>10. Called(moved.info, e.name) = {}
        BY <3>7, <3>8, <3>9 DEF Called
      <3>11. q \in Plans /\ q.info = [moved.info EXCEPT ![n].name = e.name] /\ q.errors = p.errors
        <4>1. moved \in Plans /\ e.name \in AllNames /\ q = Named(moved, n, e.name)
          BY <2>7, <3>3 DEF moved
        <4>2. q \in Plans /\ q.info = [moved.info EXCEPT ![n].name = e.name] /\ q.errors = moved.errors
          BY <4>1, NamedShape
        <4>3. QED
          BY <3>3, <4>2
      <3>12. Distinct(q.info)
        BY <3>5, <3>6, <3>10, <3>11, FreeName
      <3>13. QED
        BY <3>11, <3>12
    <2>8. QED
      BY <2>1, <2>4, <2>5, <2>6, <2>7, Zenon DEF PlannedFor, ready
  <1>3. QED
    BY <1>1, <1>2, PlannedCases

\* Unless it puts an error down, the plan still leads where it says, and only the interface
\* of the entry and the one in its way are changed.
LEMMA PlannedLeads ==
  ASSUME links \in Tables, NEW p \in Plans, Distinct(p.info), Leads(p), OnlyUps(p),
         NEW e, e.name \in AllNames, NEW i \in 0..(MaxTmp - 1), FirstFree(p, i), NEW n \in Nics,
         \A m \in Nics : (m = n \/ p.info[m].name = e.name) /\ before[m].up => p.info[m].up,
         NEW q, PlannedFor(p, e, i, n, q), q.errors = {}
  PROVE  /\ Leads(q) /\ OnlyUps(q) /\ q.info[n].name = e.name
         /\ \A m \in Nics : m # n => (q.info[m].up <=> p.info[m].up)
         /\ \A m \in Nics : m # n /\ p.info[m].name # e.name => q.info[m].name = p.info[m].name
  <1> DEFINE ready == Lowered(Raising(p, n, e.name), n)
  <1>1. ready \in Plans /\ ready.info = [p.info EXCEPT ![n].up = FALSE]
    BY ReadyShape
  <1>2. LeadsBut(ready, n, e.name) /\ OnlyUps(ready)
    <2>1. before[n].up => p.info[n].up
      OBVIOUS
    <2>2. QED
      BY <2>1, ReadyLeads
  <1> HIDE DEF ready
  <1>3. p.info \in Tables /\ ready.info \in Tables
    BY <1>1 DEF Plans
  <1>4. /\ \A m \in Nics : ready.info[m].name = p.info[m].name
        /\ \A m \in Nics : m # n => (ready.info[m].up <=> p.info[m].up)
    <2>1. p.info \in Tables /\ ready.info = [p.info EXCEPT ![n].up = FALSE]
      BY <1>1, <1>3
    <2>2. ASSUME NEW m \in Nics
          PROVE  ready.info[m].name = p.info[m].name /\ (m # n => (ready.info[m].up <=> p.info[m].up))
      BY <2>1, TableDown
    <2>3. QED
      BY <2>2
  <1>5. Distinct(ready.info) /\ ready \in Plans /\ e.name \in AllNames
    BY <1>1, <1>4 DEF Distinct
  <1>6. CASE p.info[n].name = e.name /\ q = p
    BY <1>6
  <1>7. ASSUME q = Named(ready, n, e.name)
        PROVE  /\ Leads(q) /\ OnlyUps(q) /\ q.info[n].name = e.name
               /\ \A m \in Nics : m # n => (q.info[m].up <=> p.info[m].up)
               /\ \A m \in Nics : m # n /\ p.info[m].name # e.name => q.info[m].name = p.info[m].name
    <2>1. q.info = [ready.info EXCEPT ![n].name = e.name]
      BY <1>5, <1>7, NamedShape
    <2>2. Leads(q) /\ OnlyUps(q)
      BY <1>2, <1>5, <1>7, NamedLeads
    <2>3. /\ \A m \in Nics : q.info[m].up <=> ready.info[m].up
          /\ q.info[n].name = e.name /\ \A m \in Nics : m # n => q.info[m].name = ready.info[m].name
      BY <1>3, <2>1, TableName
    <2>4. QED
      BY <1>4, <2>2, <2>3
  <1>8. ASSUME NEW t \in Called(p.info, e.name), p.info[n].name # e.name,
               q = Named(Vacated(ready, t, i), n, e.name)
        PROVE  /\ Leads(q) /\ OnlyUps(q) /\ q.info[n].name = e.name
               /\ \A m \in Nics : m # n => (q.info[m].up <=> p.info[m].up)
               /\ \A m \in Nics : m # n /\ p.info[m].name # e.name => q.info[m].name = p.info[m].name
    <2> DEFINE moved == Vacated(ready, t, i)
    <2>1. t \in Nics /\ t # n /\ p.info[t].name = e.name
      BY <1>8 DEF Called
    <2>2. before[t].up => ready.info[t].up
      BY <1>4, <2>1
    <2>3. moved \in Plans /\ moved.info = [ready.info EXCEPT ![t].name = Tmp(i)]
      BY <1>5, <2>1, VacatedShape
    <2>4. LeadsBut(moved, n, e.name) /\ OnlyUps(moved)
      BY <1>2, <1>5, <2>1, <2>2, VacatedLeads
    <2> HIDE DEF moved
    <2>5. Tmp(i) \in AllNames
      <3>1. i \in 0..MaxTmp
        BY RenamesAssumption
      <3>2. QED
        BY <3>1, Zenon DEF AllNames
    <2>6. /\ \A m \in Nics : moved.info[m].up <=> ready.info[m].up
          /\ moved.info[t].name = Tmp(i) /\ \A m \in Nics : m # t => moved.info[m].name = ready.info[m].name
      <3>1. t \in Nics /\ moved.info = [ready.info EXCEPT ![t].name = Tmp(i)]
        BY <2>1, <2>3
      <3>2. QED
        BY <1>3, <2>5, <3>1, TableName
    <2>7. moved.info \in Tables /\ moved \in Plans /\ e.name \in AllNames /\ q = Named(moved, n, e.name)
      BY <1>8, <2>3 DEF Plans, moved
    <2>8. Distinct(moved.info)
      <3>1. \A m \in Nics : p.info[m].name # Tmp(i)
        BY DEF FirstFree, Called
      <3>2. ASSUME NEW m \in Nics
            PROVE  moved.info[m].name = IF m = t THEN Tmp(i) ELSE p.info[m].name
        BY <1>4, <2>6, Zenon
      <3>3. QED
        BY <3>1, <3>2 DEF Distinct
    <2>9. q.info = [moved.info EXCEPT ![n].name = e.name]
      BY <2>7, NamedShape
    <2>10. Leads(q) /\ OnlyUps(q)
      BY <2>4, <2>7, <2>8, NamedLeads
    <2>11. /\ \A m \in Nics : q.info[m].up <=> moved.info[m].up
           /\ q.info[n].name = e.name /\ \A m \in Nics : m # n => q.info[m].name = moved.info[m].name
      BY <2>7, <2>9, TableName
    <2>12. \A m \in Nics : m # t => moved.info[m].name = p.info[m].name
      BY <1>4, <2>6
    <2>13. QED
      BY <1>4, <2>1, <2>6, <2>10, <2>11, <2>12, Zenon
  <1>9. ASSUME q = [Failed(ready, "busy-target") EXCEPT !.ops = p.ops]
        PROVE  q.errors # {}
    <2>1. Failed(ready, "busy-target") \in Plans /\ Failed(ready, "busy-target").errors # {}
      BY <1>5, FailedType
    <2>2. q.errors = Failed(ready, "busy-target").errors
      BY <1>9, <2>1 DEF Plans
    <2>3. QED
      BY <2>1, <2>2
  <1>10. QED
    BY <1>6, <1>7, <1>8, <1>9, Zenon DEF PlannedFor, ready

----------------------------------------------------------------------------
(* The steps of the call keep the types.                                    *)

\* The driver an entry is given is one.
LEMMA WithDriverType ==
  ASSUME links \in Tables, NEW e \in Entries
  PROVE  WithDriver(e) \in Entries
  <1> DEFINE n == CHOOSE m \in Called(links, e.name) : TRUE
  <1>1. Called(links, e.name) # {} => n \in Nics
    BY DEF Called
  <1>2. Called(links, e.name) # {} => Driver[n] \in STRING
    BY <1>1, RenamesAssumption
  <1>3. WithDriver(e) = [e EXCEPT !.driver = IF e.driver = NoDriver /\ Called(links, e.name) # {}
                                             THEN Driver[n] ELSE e.driver]
    BY DEF WithDriver, Entries
  <1> HIDE DEF n
  <1>4. QED
    BY <1>2, <1>3 DEF Entries

\* The plan begins empty.
LEMMA NoPlanType ==
  ASSUME NEW T \in Tables
  PROVE  NoPlan(T) \in Plans /\ NoPlan(T).info = T
  <1>1. <<>> \in Seq(Commands) /\ 0 \in 0..MaxTmp
    BY RenamesAssumption
  <1>2. QED
    BY <1>1 DEF NoPlan, Plans

\* The invariant holds at first.
LEMMA InitTyped ==
  ASSUME Init
  PROVE  RenamesInv
  <1>1. links \in Tables /\ Distinct(links)
    BY DEF Init, Tables, AllNames, Distinct
  <1>2. plan \in Plans /\ plan.info = links
    BY <1>1, NoPlanType DEF Init
  <1>3. TypeOK
    <2>1. asked \in Seq(Entries) /\ at \in 1..(Len(asked) + 1)
      BY DEF Init
    <2>2. QED
      BY <1>1, <1>2, <2>1 DEF Init, TypeOK
  <1>4. QED
    BY <1>1, <1>2, <1>3 DEF Init, RenamesInv, PlanNamesDistinct, Looked, OnTheWay

\* The types and the names of a plan, while it is begun,
LEMMA BeginTyped ==
  ASSUME RenamesInv, NEW c \in Configs, Begin(c)
  PROVE  TypeOK' /\ PlanNamesDistinct' /\ Looked'
  <1>1. links \in Tables /\ Distinct(links)
    BY DEF RenamesInv, TypeOK
  <1>2. plan' \in Plans /\ plan'.info = links
    BY <1>1, NoPlanType DEF Begin
  <1>3. asked' \in Seq(Entries)
    <2>1. c \in Seq(Entries)
      BY RenamesAssumption
    <2>2. \A i \in DOMAIN c : WithDriver(c[i]) \in Entries
      BY <1>1, <2>1, WithDriverType
    <2>3. QED
      BY <2>1, <2>2 DEF Begin
  <1>4. TypeOK'
    <2>1. at' \in 1..(Len(asked') + 1)
      BY <1>3 DEF Begin
    <2>2. QED
      BY <1>2, <1>3, <2>1 DEF Begin, RenamesInv, TypeOK
  <1>5. PlanNamesDistinct' /\ Looked'
    BY <1>1, <1>2 DEF Begin, PlanNamesDistinct, Distinct, Looked
  <1>6. QED
    BY <1>4, <1>5

\* extended by an entry,
LEMMA PlanEntryTyped ==
  ASSUME RenamesInv, PlanEntry
  PROVE  TypeOK' /\ PlanNamesDistinct' /\ Looked'
  <1>1. PICK i \in plan.tmpi..(MaxTmp - 1) :
           FirstFree(plan, i) /\ plan' = Planned(plan, asked[at], i)
    BY Zenon DEF PlanEntry
  <1>2. plan \in Plans /\ Distinct(plan.info) /\ asked \in Seq(Entries) /\ at \in 1..Len(asked)
    BY DEF RenamesInv, TypeOK, PlanNamesDistinct, PlanEntry
  <1>3. i \in 0..(MaxTmp - 1)
    <2>1. plan.tmpi \in 0..MaxTmp /\ MaxTmp \in Nat
      BY <1>2, RenamesAssumption DEF Plans
    <2>2. QED
      BY <1>1, <2>1
  <1>4. asked[at].name \in AllNames
    <2>1. asked[at] \in Entries
      BY <1>2
    <2>2. QED
      BY <2>1 DEF Entries, AllNames
  <1>5. plan' \in Plans /\ Distinct(plan'.info)
    BY <1>1, <1>2, <1>3, <1>4, PlannedType
  <1>6. TypeOK'
    BY <1>2, <1>5 DEF PlanEntry, RenamesInv, TypeOK
  <1>7. QED
    BY <1>5, <1>6 DEF PlanEntry, PlanNamesDistinct, Distinct, Looked

\* completed,
LEMMA PlanMadeTyped ==
  ASSUME RenamesInv, PlanMade
  PROVE  TypeOK' /\ PlanNamesDistinct' /\ Looked'
  <1>1. plan \in Plans /\ Distinct(plan.info) /\ at \in 1..(Len(asked) + 1) /\ at > Len(asked)
    BY DEF RenamesInv, TypeOK, PlanNamesDistinct, PlanMade
  <1>2. plan' = [info |-> plan.info, ops |-> plan.ops \o plan.ups, ups |-> <<>>,
                 tmpi |-> plan.tmpi, errors |-> plan.errors]
    BY <1>1 DEF PlanMade, Plans
  <1>3. /\ plan.info \in Tables /\ plan.ops \o plan.ups \in Seq(Commands) /\ <<>> \in Seq(Commands)
        /\ plan.tmpi \in 0..MaxTmp
    <2>1. plan.info \in Tables /\ plan.tmpi \in 0..MaxTmp
      BY <1>1 DEF Plans
    <2>2. plan.ops \in Seq(Commands) /\ plan.ups \in Seq(Commands)
      BY <1>1 DEF Plans
    <2>3. QED
      BY <2>1, <2>2
  <1>4. plan' \in Plans
    BY <1>1, <1>2, <1>3, PlansType
  <1>5. Distinct(plan'.info)
    BY <1>1, <1>2
  <1>6. asked \in Seq(Entries)
    BY DEF RenamesInv, TypeOK
  <1>7. TypeOK'
    BY <1>4 DEF PlanMade, RenamesInv, TypeOK
  <1>8. QED
    BY <1>1, <1>5, <1>6, <1>7 DEF PlanMade, PlanNamesDistinct, Distinct, Looked

\* What the commands that are left make of the plan.
LEMMA CommandShape ==
  ASSUME RenamesInv, Command
  PROVE  /\ plan.ops \in Seq(Commands) /\ plan.ops # <<>> /\ Head(plan.ops) \in Commands
         /\ plan' \in Plans /\ plan'.info = plan.info /\ plan'.ops = Tail(plan.ops)
         /\ plan'.errors = {} => plan.errors = {} /\ links' \in Outcomes(links, Head(plan.ops))
  <1>1. plan \in Plans
    BY DEF RenamesInv, TypeOK
  <1>2. plan.ops \in Seq(Commands) /\ plan.ops # <<>>
    BY <1>1 DEF Plans, Command
  <1>3. Head(plan.ops) \in Commands /\ Tail(plan.ops) \in Seq(Commands)
    BY <1>2, HeadTailProperties
  <1>4. ASSUME NEW p \in Plans
        PROVE  LET q == [p EXCEPT !.ops = Tail(plan.ops)] IN
               q \in Plans /\ q.info = p.info /\ q.ops = Tail(plan.ops) /\ q.errors = p.errors
    BY <1>3 DEF Plans
  <1>5. CASE links' \in Outcomes(links, Head(plan.ops)) /\ plan' = [plan EXCEPT !.ops = Tail(@)]
    <2>1. plan' = [plan EXCEPT !.ops = Tail(plan.ops)]
      BY <1>1, <1>5 DEF Plans
    <2>2. QED
      BY <1>1, <1>2, <1>3, <1>4, <1>5, <2>1
  <1>6. CASE plan' = [Failed(plan, "unknown") EXCEPT !.ops = Tail(@)]
    <2>1. /\ Failed(plan, "unknown") \in Plans /\ Failed(plan, "unknown").info = plan.info
          /\ Failed(plan, "unknown").errors # {}
      BY <1>1, FailedType
    <2>2. plan' = [Failed(plan, "unknown") EXCEPT !.ops = Tail(plan.ops)]
      BY <1>1, <1>6 DEF Plans, Failed
    <2> DEFINE f == Failed(plan, "unknown")
    <2> HIDE DEF f
    <2>3. f \in Plans /\ plan' = [f EXCEPT !.ops = Tail(plan.ops)]
      BY <2>1, <2>2 DEF f
    <2>4. plan' \in Plans /\ plan'.info = f.info /\ plan'.ops = Tail(plan.ops) /\ plan'.errors = f.errors
      BY <1>4, <2>3
    <2>5. QED
      BY <1>2, <1>3, <2>1, <2>4, Zenon DEF f
  <1>7. QED
    BY <1>5, <1>6 DEF Command

\* and carried out.
LEMMA CommandTyped ==
  ASSUME RenamesInv, Command
  PROVE  TypeOK' /\ PlanNamesDistinct' /\ Looked'
  <1>1. plan' \in Plans /\ plan'.info = plan.info /\ Head(plan.ops) \in Commands
    BY CommandShape
  <1>2. links \in Tables
    BY DEF RenamesInv, TypeOK
  <1>3. links' \in Tables
    BY <1>1, <1>2, OutcomesType DEF Command
  <1>4. faulty' \in BOOLEAN
    BY DEF Command, RenamesInv, TypeOK
  <1>5. TypeOK'
    BY <1>1, <1>3, <1>4 DEF Command, RenamesInv, TypeOK
  <1>6. QED
    BY <1>1, <1>5 DEF Command, RenamesInv, PlanNamesDistinct, Distinct, Looked

----------------------------------------------------------------------------
(* The steps of the call keep to the way.                                   *)

\* No command leaves the table as it is, and that is the only way.
LEMMA EndsOfNone ==
  ASSUME NEW T \in Tables, NEW ops
  PROVE  Ends(T, ops, 0) = {T}
  <1>1. \A w \in Ways(T, ops, 0) : w[0] = T
    BY DEF Ways
  <1> DEFINE v == [i \in 0..0 |-> T]
  <1>2. v \in Ways(T, ops, 0) /\ v[0] = T
    BY DEF Ways
  <1>3. QED
    BY <1>1, <1>2 DEF Ends

\* That the commands lead where the plan says: of an empty plan,
LEMMA BeginOnTheWay ==
  ASSUME RenamesInv, NEW c \in Configs, Begin(c)
  PROVE  OnTheWay'
  <1>1. links \in Tables /\ links' = links /\ before' = links /\ plan' = NoPlan(links) /\ at' = 1
    BY DEF RenamesInv, TypeOK, Begin
  <1>2. plan'.info = links /\ plan'.ops = <<>> /\ plan'.ups = <<>>
    BY <1>1 DEF NoPlan
  <1>3. EntriesPlanned'
    BY <1>1, <1>2 DEF EntriesPlanned
  <1>4. Ends(links', plan'.ops, Len(plan'.ops)) = {links}
    <2>1. Len(plan'.ops) = 0
      BY <1>2
    <2>2. QED
      BY <1>1, <2>1, EndsOfNone
  <1>5. PlanLeadsThere'
    BY <1>1, <1>2, <1>4 DEF PlanLeadsThere, Near
  <1>6. pc' = "plan"
    BY DEF Begin
  <1>7. QED
    BY <1>3, <1>5, <1>6 DEF OnTheWay, RestLeadsThere

\* of one with another entry,
LEMMA PlanEntryOnTheWay ==
  ASSUME RenamesInv, PlanEntry
  PROVE  OnTheWay'
  <1> SUFFICES ASSUME plan'.errors = {}, WellFormed
               PROVE  EntriesPlanned' /\ PlanLeadsThere'
    <2>1. pc' = "plan" /\ asked' = asked
      BY DEF PlanEntry
    <2>2. WellFormed' => WellFormed
      BY <2>1 DEF WellFormed, Matches
    <2>3. QED
      BY <2>1, <2>2 DEF OnTheWay, RestLeadsThere
  <1> DEFINE e == asked[at]
  <1>1. PICK i \in plan.tmpi..(MaxTmp - 1) : FirstFree(plan, i) /\ plan' = Planned(plan, e, i)
    BY Zenon DEF PlanEntry
  <1>2. /\ plan \in Plans /\ Distinct(plan.info) /\ asked \in Seq(Entries) /\ at \in 1..Len(asked)
        /\ links \in Tables
    BY DEF RenamesInv, TypeOK, PlanNamesDistinct, PlanEntry
  <1>3. i \in 0..(MaxTmp - 1)
    <2>1. plan.tmpi \in 0..MaxTmp /\ MaxTmp \in Nat
      BY <1>2, RenamesAssumption DEF Plans
    <2>2. QED
      BY <1>1, <2>1
  <1>4. e.name \in AllNames
    <2>1. e \in Entries
      BY <1>2
    <2>2. QED
      BY <2>1 DEF Entries, AllNames
  <1> HIDE DEF e
  <1>5. plan.errors = {}
    BY <1>1, <1>2, <1>3, <1>4, PlannedType
  <1>6. EntriesPlanned /\ PlanLeadsThere /\ pc = "plan"
    BY <1>5 DEF RenamesInv, OnTheWay, PlanEntry
  <1>7. PICK n \in Matches(e) : PlannedFor(plan, e, i, n, plan')
    <2>1. ASSUME NEW err \in {"not present", "busy"}, plan' = Failed(plan, err)
          PROVE  FALSE
      <3>1. err \in {"not present", "ambiguous", "busy", "busy-target", "unknown"}
        OBVIOUS
      <3>2. Failed(plan, err).errors # {}
        BY <1>2, <3>1, FailedType, Zenon
      <3>3. QED
        BY <2>1, <3>2
    <2>2. QED
      BY <1>1, <2>1, PlannedCases
  <1>8. n \in Nics /\ \A m \in Matches(e) : m = n
    <2>1. Cardinality(Matches(e)) <= 1
      BY DEF PlanEntry, e
    <2>2. IsFiniteSet(Matches(e))
      BY RenamesAssumption, FS_Subset DEF Matches
    <2>3. ASSUME NEW m \in Matches(e), m # n
          PROVE  FALSE
      <3>1. {m, n} \subseteq Matches(e)
        BY <1>7, <2>3
      <3>2. Cardinality({m, n}) <= Cardinality(Matches(e))
        BY <2>2, <3>1, FS_Subset
      <3>3. Cardinality({m, n}) = 2
        <4>1. IsFiniteSet({m}) /\ Cardinality({m}) = 1
          BY FS_Singleton
        <4>2. n \notin {m} /\ {m, n} = {m} \cup {n}
          BY <2>3
        <4>3. Cardinality({m} \cup {n}) = Cardinality({m}) + 1
          BY <4>1, <4>2, FS_AddElement
        <4>4. QED
          BY <4>1, <4>2, <4>3
      <3>4. QED
        BY <2>1, <2>2, <3>2, <3>3, FS_CardinalityType
    <2>4. QED
      BY <2>3 DEF Matches
  \* The entries before this one are about other interfaces and other names.
  <1>9. \A j \in 1..(at - 1) : asked[j].name # e.name /\ n \notin Matches(asked[j])
    <2>1. ASSUME NEW j \in 1..(at - 1)
          PROVE  asked[j].name # e.name /\ Matches(asked[j]) \cap Matches(e) = {}
      <3>1. j \in DOMAIN asked /\ at \in DOMAIN asked /\ j # at
        BY <1>2
      <3>2. QED
        BY <3>1 DEF WellFormed, e
    <2>2. QED
      BY <1>7, <2>1
  <1>10. \A m \in Nics : (m = n \/ plan.info[m].name = e.name) /\ before[m].up => plan.info[m].up
    BY <1>6, <1>9 DEF EntriesPlanned
  <1>11. Leads(plan) /\ OnlyUps(plan)
    BY <1>6 DEF PlanLeadsThere, Leads, OnlyUps, Ups
  <1>12. /\ Leads(plan') /\ OnlyUps(plan') /\ plan'.info[n].name = e.name
         /\ \A m \in Nics : m # n => (plan'.info[m].up <=> plan.info[m].up)
         /\ \A m \in Nics : m # n /\ plan.info[m].name # e.name => plan'.info[m].name = plan.info[m].name
    BY <1>1, <1>2, <1>3, <1>4, <1>7, <1>8, <1>10, <1>11, PlannedLeads
  <1>13. links' = links /\ before' = before /\ asked' = asked /\ at' = at + 1 /\ pc' = "plan"
    BY <1>6 DEF PlanEntry
  <1>14. EntriesPlanned'
    <2>1. ASSUME NEW j \in 1..at, NEW m \in Matches(asked[j])
          PROVE  plan'.info[m].name = asked[j].name
      <3>1. CASE j = at
        BY <1>8, <1>12, <2>1, <3>1 DEF e
      <3>2. CASE j # at
        <4>1. j \in 1..(at - 1)
          BY <1>2, <3>2
        <4>2. m \in Nics /\ m # n /\ plan.info[m].name = asked[j].name /\ asked[j].name # e.name
          BY <1>6, <1>9, <2>1, <4>1 DEF EntriesPlanned, Matches
        <4>3. QED
          BY <1>12, <4>2
      <3>3. QED
        BY <3>1, <3>2
    <2>2. ASSUME NEW m \in Nics, before[m].up, ~plan'.info[m].up
          PROVE  \E j \in 1..at : m \in Matches(asked[j])
      <3>1. CASE m = n
        BY <1>2, <1>7, <3>1 DEF e
      <3>2. CASE m # n
        <4>1. PICK j \in 1..(at - 1) : m \in Matches(asked[j])
          BY <1>6, <1>12, <2>2, <3>2 DEF EntriesPlanned
        <4>2. QED
          BY <1>2, <4>1
      <3>3. QED
        BY <3>1, <3>2
    <2>3. at' - 1 = at
      BY <1>2, <1>13
    <2>4. \A j \in 1..at : Matches(asked[j])' = Matches(asked[j])
      BY <1>13 DEF Matches
    <2>5. QED
      BY <1>13, <2>1, <2>2, <2>3 DEF EntriesPlanned, Matches
  <1>15. PlanLeadsThere'
    BY <1>6, <1>12, <1>13 DEF PlanLeadsThere, Leads, OnlyUps, Ups, Near
  <1>16. QED
    BY <1>14, <1>15

\* of all commands with the ups at their end,
LEMMA PlanMadeOnTheWay ==
  ASSUME RenamesInv, PlanMade
  PROVE  OnTheWay'
  <1> SUFFICES ASSUME plan.errors = {}, WellFormed
               PROVE  EntriesPlanned' /\ RestLeadsThere'
    <2>1. pc' = "run" /\ asked' = asked /\ plan'.errors = plan.errors
      BY DEF PlanMade, RenamesInv, TypeOK, Plans
    <2>2. WellFormed' => WellFormed
      BY <2>1 DEF WellFormed, Matches
    <2>3. QED
      BY <2>1, <2>2 DEF OnTheWay, PlanLeadsThere
  <1>1. plan \in Plans
    BY DEF RenamesInv, TypeOK
  <1>2. EntriesPlanned /\ PlanLeadsThere /\ pc = "plan"
    BY DEF RenamesInv, OnTheWay, PlanMade
  <1>3. /\ links' = links /\ before' = before /\ asked' = asked /\ at' = at /\ plan'.info = plan.info
        /\ plan'.ops = plan.ops \o plan.ups
    BY <1>1 DEF PlanMade, Plans
  <1>4. EntriesPlanned'
    BY <1>2, <1>3 DEF EntriesPlanned, Matches
  <1> DEFINE ops == plan.ops
             ups == plan.ups
  <1>20. PICK k : k = Len(ops)
    OBVIOUS
  <1>5. ops \in Seq(Commands) /\ ups \in Seq(Commands) /\ k \in Nat /\ k = Len(ops)
    <2>1. ops \in Seq(Commands) /\ ups \in Seq(Commands)
      BY <1>1 DEF Plans
    <2>2. QED
      BY <1>20, <2>1
  <1>6. /\ \A end \in Ends(links, ops, k) : Near(end, plan, Sayings(ups, 1, Len(ups)))
        /\ \A i \in DOMAIN ups : ups[i][1] = "up"
    BY <1>2, <1>20 DEF PlanLeadsThere
  <1> HIDE DEF ops, ups
  <1>7. /\ plan'.ops = ops \o ups /\ Len(ops \o ups) = k + Len(ups)
        /\ \A i \in 1..Len(ups) : (ops \o ups)[k + i] = ups[i]
    <2>1. plan'.ops = ops \o ups
      BY <1>3 DEF ops, ups
    <2>2. QED
      BY <1>5, <2>1
  <1>8. \A i \in (k + 1)..Len(ops \o ups) : (ops \o ups)[i][1] = "up"
    <2>1. ASSUME NEW i \in (k + 1)..Len(ops \o ups)
          PROVE  (ops \o ups)[i][1] = "up"
      <3>1. i - k \in 1..Len(ups) /\ k + (i - k) = i
        BY <1>5, <1>7
      <3>2. QED
        BY <1>5, <1>6, <1>7, <3>1
    <2>2. QED
      BY <2>1
  <1>9. Sayings(ups, 1, Len(ups)) \subseteq Sayings(ops \o ups, k + 1, Len(ops \o ups))
    <2>1. ASSUME NEW i \in 1..Len(ups)
          PROVE  ups[i] \in Sayings(ops \o ups, k + 1, Len(ops \o ups))
      <3>1. k + i \in (k + 1)..Len(ops \o ups) /\ (ops \o ups)[k + i] = ups[i]
        BY <1>5, <1>7
      <3>2. QED
        BY <3>1, Zenon DEF Sayings
    <2>2. QED
      BY <2>1 DEF Sayings
  <1>10. Ends(links', plan'.ops, k) = Ends(links, ops, k)
    BY <1>3, <1>5, <1>7, EndsOfConcat
  <1>11. ASSUME NEW end \in Ends(links, ops, k)
         PROVE  Near(end, plan, Sayings(plan.ops, k + 1, Len(plan.ops)))'
    <2>1. Near(end, plan, Sayings(ups, 1, Len(ups)))
      BY <1>6
    <2>2. ASSUME NEW n \in Nics
          PROVE  /\ end[n].name = plan'.info[n].name
                 /\ before'[n].up => end[n].up \/ Up(plan'.info[n].name) \in
                                                     Sayings(plan'.ops, k + 1, Len(plan'.ops))
      <3>1. end[n].name = plan.info[n].name /\ (before[n].up => end[n].up \/ Up(plan.info[n].name) \in Sayings(ups, 1, Len(ups)))
        BY <2>1 DEF Near
      <3>2. QED
        BY <1>3, <1>7, <1>9, <3>1, Zenon
    <2>3. QED
      BY <2>2 DEF Near
  <1>12. k \in 0..Len(plan'.ops)
    BY <1>5, <1>7
  <1>13. RestLeadsThere'
    <2>1. /\ \A i \in (k + 1)..Len(plan'.ops) : plan'.ops[i][1] = "up"
          /\ \A end \in Ends(links', plan'.ops, k) :
                Near(end, plan, Sayings(plan.ops, k + 1, Len(plan.ops)))'
      BY <1>7, <1>8, <1>10, <1>11, Zenon
    <2>2. QED
      BY <1>12, <2>1, Zenon DEF RestLeadsThere
  <1>14. QED
    BY <1>4, <1>13

\* A table near the plan is that also when the first of the ups it still needs is run.
LEMMA CommandOnTheWay ==
  ASSUME RenamesInv, Command
  PROVE  OnTheWay'
  <1>1. /\ plan.ops \in Seq(Commands) /\ plan.ops # <<>> /\ Head(plan.ops) \in Commands
        /\ plan' \in Plans /\ plan'.info = plan.info /\ plan'.ops = Tail(plan.ops)
        /\ plan'.errors = {} => plan.errors = {} /\ links' \in Outcomes(links, Head(plan.ops))
    BY CommandShape
  <1> SUFFICES ASSUME plan.errors = {}, WellFormed, links' \in Outcomes(links, Head(plan.ops))
               PROVE  EntriesPlanned' /\ RestLeadsThere'
    <2>1. pc' = "run" /\ asked' = asked
      BY DEF Command
    <2>2. WellFormed' => WellFormed
      BY <2>1 DEF WellFormed, Matches
    <2>3. QED
      BY <1>1, <2>1, <2>2 DEF OnTheWay, PlanLeadsThere
  <1>2. EntriesPlanned /\ RestLeadsThere /\ pc = "run" /\ links \in Tables /\ Distinct(links)
    BY DEF RenamesInv, TypeOK, OnTheWay, Command
  <1>3. before' = before /\ asked' = asked /\ at' = at
    BY DEF Command
  <1>4. EntriesPlanned'
    BY <1>1, <1>2, <1>3 DEF EntriesPlanned, Matches
  <1> DEFINE ops == plan.ops
             rest == Tail(plan.ops)
  <1>5. PICK j \in 0..Len(ops) :
           /\ \A i \in (j + 1)..Len(ops) : ops[i][1] = "up"
           /\ \A end \in Ends(links, ops, j) : Near(end, plan, Sayings(ops, j + 1, Len(ops)))
    BY <1>2 DEF RestLeadsThere
  <1>6. /\ ops \in Seq(Commands) /\ ops # <<>> /\ Len(ops) \in Nat \ {0}
        /\ rest \in Seq(Commands) /\ Len(rest) = Len(ops) - 1
        /\ \A i \in 1..Len(rest) : rest[i] = ops[i + 1]
        /\ Head(ops) = ops[1]
    BY <1>1, HeadTailProperties
  <1>7. plan'.ops = rest
    BY <1>1
  <1> HIDE DEF ops, rest
  <1>8. CASE j # 0
    <2>1. j \in 1..Len(ops) /\ j - 1 \in 0..Len(rest) /\ (j - 1) + 1 = j
      BY <1>6, <1>8
    <2>2. Ends(links', rest, j - 1) \subseteq Ends(links, ops, j)
      BY <1>2, <1>6, <2>1, EndsOfTail DEF ops, rest
    <2>3. \A i \in j..Len(rest) : rest[i] = ops[i + 1] /\ i + 1 \in (j + 1)..Len(ops)
      BY <1>6, <2>1
    <2>4. \A i \in ((j - 1) + 1)..Len(rest) : rest[i][1] = "up"
      BY <1>5, <2>1, <2>3
    <2>5. Sayings(ops, j + 1, Len(ops)) \subseteq Sayings(rest, (j - 1) + 1, Len(rest))
      <3>1. ASSUME NEW i \in (j + 1)..Len(ops)
            PROVE  ops[i] \in Sayings(rest, (j - 1) + 1, Len(rest))
        <4>1. i - 1 \in ((j - 1) + 1)..Len(rest) /\ rest[i - 1] = ops[i]
          BY <1>6, <2>1
        <4>2. QED
          BY <4>1 DEF Sayings
      <3>2. QED
        BY <3>1 DEF Sayings
    <2>6. ASSUME NEW end \in Ends(links', rest, j - 1)
          PROVE  Near(end, plan, Sayings(plan.ops, (j - 1) + 1, Len(plan.ops)))'
      <3>1. Near(end, plan, Sayings(ops, j + 1, Len(ops)))
        BY <1>5, <2>2
      <3>2. ASSUME NEW n \in Nics
            PROVE  /\ end[n].name = plan'.info[n].name
                   /\ before'[n].up => end[n].up \/ Up(plan'.info[n].name) \in
                                                       Sayings(plan'.ops, (j - 1) + 1, Len(plan'.ops))
        <4>1. end[n].name = plan.info[n].name /\ (before[n].up => end[n].up \/ Up(plan.info[n].name) \in Sayings(ops, j + 1, Len(ops)))
          BY <3>1 DEF Near
        <4>2. QED
          BY <1>1, <1>3, <1>7, <2>5, <4>1, Zenon
      <3>3. QED
        BY <3>2 DEF Near
    <2>7. /\ j - 1 \in 0..Len(plan'.ops)
          /\ \A i \in ((j - 1) + 1)..Len(plan'.ops) : plan'.ops[i][1] = "up"
          /\ \A end \in Ends(links', plan'.ops, j - 1) :
                Near(end, plan, Sayings(plan.ops, (j - 1) + 1, Len(plan.ops)))'
      BY <1>7, <2>1, <2>4, <2>6, Zenon
    <2>8. QED
      BY <1>4, <2>7, Zenon DEF RestLeadsThere
  <1>9. CASE j = 0
    <2>1. ops[1][1] = "up" /\ Near(links, plan, Sayings(ops, 1, Len(ops)))
      <3>1. 1 \in (j + 1)..Len(ops) /\ j + 1 = 1
        BY <1>6, <1>9
      <3>2. links \in Ends(links, ops, j)
        BY <1>2, <1>9, EndsOfNone
      <3>3. QED
        BY <1>5, <3>1, <3>2, Zenon
    <2>2. PICK m \in Nics : links[m].name = ops[1][2] /\ links' = [links EXCEPT ![m].up = TRUE]
      BY <1>6, <2>1 DEF Outcomes, Called, ops
    <2>3. /\ links' \in Tables /\ \A n \in Nics : links'[n].name = links[n].name
          /\ links'[m].up /\ \A n \in Nics : n # m => (links'[n].up <=> links[n].up)
      <3>1. links \in Tables /\ links' = [links EXCEPT ![m].up = TRUE]
        BY <1>2, <2>2
      <3>2. links' \in Tables /\ links'[m].up
        BY <3>1, TableUp
      <3>3. ASSUME NEW n \in Nics
            PROVE  links'[n].name = links[n].name /\ (n # m => (links'[n].up <=> links[n].up))
        BY <3>1, TableUp
      <3>4. QED
        BY <3>2, <3>3
    <2>4. Sayings(ops, 1, Len(ops)) \subseteq {ops[1]} \cup Sayings(rest, 1, Len(rest))
      <3>1. ASSUME NEW i \in 1..Len(ops), i # 1
            PROVE  ops[i] \in Sayings(rest, 1, Len(rest))
        <4>1. i - 1 \in 1..Len(rest) /\ rest[i - 1] = ops[i]
          BY <1>6, <3>1
        <4>2. QED
          BY <4>1 DEF Sayings
      <3>2. QED
        BY <3>1 DEF Sayings
    <2>5. ASSUME NEW n \in Nics
          PROVE  /\ links'[n].name = plan'.info[n].name
                 /\ before'[n].up => links'[n].up \/ Up(plan'.info[n].name) \in
                                                       Sayings(plan'.ops, 1, Len(plan'.ops))
      <3>1. /\ links[n].name = plan.info[n].name
            /\ before[n].up => links[n].up \/ Up(plan.info[n].name) \in Sayings(ops, 1, Len(ops))
        BY <2>1 DEF Near
      <3>2. ASSUME Up(plan.info[n].name) = ops[1]
            PROVE  n = m
        <4>1. links[n].name = links[m].name
          BY <2>2, <3>1, <3>2 DEF Up
        <4>2. QED
          BY <1>2, <4>1 DEF Distinct
      <3>3. QED
        BY <1>1, <1>3, <1>7, <2>3, <2>4, <3>1, <3>2, Zenon
    <2>6. Ends(links', plan'.ops, 0) = {links'}
      BY <2>3, EndsOfNone
    <2>7. /\ 0 \in 0..Len(plan'.ops) /\ 0 + 1 = 1
          /\ \A i \in 1..Len(rest) : rest[i][1] = "up"
      <3>1. \A i \in 1..Len(rest) : rest[i] = ops[i + 1] /\ i + 1 \in (j + 1)..Len(ops)
        BY <1>6, <1>9
      <3>2. QED
        BY <1>5, <1>6, <1>7, <3>1
    <2>8. Near(links, plan, Sayings(plan.ops, 1, Len(plan.ops)))'
      BY <2>5 DEF Near
    <2>9. /\ 0 \in 0..Len(plan'.ops)
          /\ \A i \in (0 + 1)..Len(plan'.ops) : plan'.ops[i][1] = "up"
          /\ \A end \in Ends(links', plan'.ops, 0) :
                Near(end, plan, Sayings(plan.ops, 0 + 1, Len(plan.ops)))'
      BY <1>7, <2>6, <2>7, <2>8
    <2>10. QED
      BY <1>4, <2>9, Zenon DEF RestLeadsThere
  <1>10. QED
    BY <1>4, <1>8, <1>9

\* and when there are none left.
LEMMA ReturnOnTheWay ==
  ASSUME RenamesInv, Return
  PROVE  OnTheWay'
  <1> SUFFICES ASSUME pc' = "returned", plan.errors = {}, WellFormed
               PROVE  EntriesPlanned' /\ Near(links, plan, {})'
    <2>1. asked' = asked /\ plan' = plan /\ pc' \in {"returned", "raised"}
      BY DEF Return
    <2>2. WellFormed' => WellFormed
      BY <2>1 DEF WellFormed, Matches
    <2>3. QED
      BY <2>1, <2>2 DEF OnTheWay, PlanLeadsThere, RestLeadsThere
  <1>1. EntriesPlanned /\ RestLeadsThere /\ pc = "run" /\ links \in Tables /\ plan.ops = <<>>
    BY DEF RenamesInv, TypeOK, OnTheWay, Return
  <1>2. links' = links /\ before' = before /\ asked' = asked /\ at' = at /\ plan' = plan
    BY DEF Return
  <1>3. EntriesPlanned'
    BY <1>1, <1>2 DEF EntriesPlanned, Matches
  <1>4. Near(links, plan, Sayings(plan.ops, 1, 0))
    <2>1. Len(plan.ops) = 0 /\ \A j \in 0..0 : j = 0 /\ j + 1 = 1
      BY <1>1
    <2>2. \A end \in Ends(links, plan.ops, 0) : Near(end, plan, Sayings(plan.ops, 1, 0))
      BY <1>1, <2>1 DEF RestLeadsThere
    <2>3. QED
      BY <1>1, <2>2, EndsOfNone
  <1>5. Sayings(plan.ops, 1, 0) = {}
    BY DEF Sayings
  <1>6. QED
    BY <1>2, <1>3, <1>4, <1>5 DEF Near

----------------------------------------------------------------------------
(* The theorems.                                                            *)

\* Every step keeps the invariant.
LEMMA RenamesStep ==
  ASSUME RenamesInv, [Next]_vars
  PROVE  RenamesInv'
  <1>1. ASSUME NEW c \in Configs, Begin(c)
        PROVE  RenamesInv'
    <2>1. Distinct(links)'
      BY <1>1 DEF RenamesInv, Distinct, Begin
    <2>2. QED
      BY <1>1, <2>1, BeginTyped, BeginOnTheWay DEF RenamesInv
  <1>2. CASE PlanEntry
    <2>1. Distinct(links)'
      BY <1>2 DEF RenamesInv, Distinct, PlanEntry
    <2>2. QED
      BY <1>2, <2>1, PlanEntryTyped, PlanEntryOnTheWay DEF RenamesInv
  <1>3. CASE Ambiguous
    <2>1. plan \in Plans /\ plan' = Failed(plan, "ambiguous")
      BY <1>3 DEF RenamesInv, TypeOK, Ambiguous
    <2>2. plan' \in Plans /\ plan'.info = plan.info
      BY <2>1, FailedType
    <2>3. TypeOK' /\ Distinct(links)'
      BY <1>3, <2>2 DEF RenamesInv, TypeOK, Ambiguous, Distinct
    <2>4. QED
      BY <1>3, <2>2, <2>3 DEF RenamesInv, Ambiguous, PlanNamesDistinct, Distinct, Looked, OnTheWay
  <1>4. CASE PlanMade
    <2>1. Distinct(links)'
      BY <1>4 DEF RenamesInv, Distinct, PlanMade
    <2>2. QED
      BY <1>4, <2>1, PlanMadeTyped, PlanMadeOnTheWay DEF RenamesInv
  <1>5. CASE Command
    <2>1. Distinct(links')
      <3>1. links \in Tables /\ Distinct(links) /\ Head(plan.ops) \in Commands
        BY <1>5, CommandShape DEF RenamesInv, TypeOK
      <3>2. QED
        BY <1>5, <3>1, OutcomesDistinct DEF Command
    <2>2. QED
      BY <1>5, <2>1, CommandTyped, CommandOnTheWay DEF RenamesInv, Distinct
  <1>6. CASE Return
    <2>1. TypeOK' /\ Distinct(links)' /\ PlanNamesDistinct' /\ Looked'
      BY <1>6 DEF RenamesInv, TypeOK, Return, Distinct, PlanNamesDistinct, Looked
    <2>2. QED
      BY <1>6, <2>1, ReturnOnTheWay DEF RenamesInv
  <1>7. CASE Leave
    <2>1. links \in Tables /\ Distinct(links) /\ plan' = NoPlan(links)
      BY <1>7 DEF RenamesInv, TypeOK, Leave
    <2>2. plan' \in Plans /\ plan'.info = links
      BY <2>1, NoPlanType
    <2>3. asked' \in Seq(Entries) /\ at' \in 1..(Len(asked') + 1)
      BY <1>7 DEF Leave
    <2>4. TypeOK'
      BY <1>7, <2>1, <2>2, <2>3 DEF RenamesInv, TypeOK, Leave
    <2>5. QED
      BY <1>7, <2>1, <2>2, <2>4 DEF RenamesInv, Leave, PlanNamesDistinct, Distinct, Looked, OnTheWay
  <1>8. CASE UNCHANGED vars
    <2>1. TypeOK' /\ Distinct(links)' /\ PlanNamesDistinct' /\ Looked'
      BY <1>8 DEF vars, RenamesInv, TypeOK, Distinct, PlanNamesDistinct, Looked
    <2>2. WellFormed' <=> WellFormed
      BY <1>8 DEF vars, WellFormed, Matches
    <2>3. EntriesPlanned' <=> EntriesPlanned
      BY <1>8 DEF vars, EntriesPlanned, Matches
    <2>4. PlanLeadsThere' <=> PlanLeadsThere
      BY <1>8 DEF vars, PlanLeadsThere, Near
    <2>5. RestLeadsThere' <=> RestLeadsThere
      BY <1>8 DEF vars, RestLeadsThere, Near
    <2>6. Near(links, plan, {})' <=> Near(links, plan, {})
      BY <1>8 DEF vars, Near
    <2>7. OnTheWay'
      BY <1>8, <2>2, <2>3, <2>4, <2>5, <2>6 DEF vars, RenamesInv, OnTheWay
    <2>8. QED
      BY <2>1, <2>7 DEF RenamesInv
  <1>9. QED
    BY <1>1, <1>2, <1>3, <1>4, <1>5, <1>6, <1>7, <1>8 DEF Next

\* The inductive invariant of _rename_interfaces: a plan without errors has commands that
\* lead to the names it notes, whatever the kernel refuses on the way.
THEOREM RenamesInvAlways == Spec => []RenamesInv
  <1>1. QED
    BY InitTyped, RenamesStep, PTL DEF Spec

\* The copy of the kernel's table the plan is made on stays a table the kernel could have.
THEOREM PlanNamesDistinctAlways == Spec => [](TypeOK /\ PlanNamesDistinct)
  <1>1. RenamesInv => TypeOK /\ PlanNamesDistinct
    BY DEF RenamesInv
  <1>2. QED
    BY <1>1, RenamesInvAlways, PTL

\* A call that reports no error has given every interface the name its entry asks for, and
\* left up whatever was up: for any number of interfaces, any entries about different
\* interfaces and names, and whichever commands fail by accident.
THEOREM SilentIsDoneAlways == Spec => []SilentIsDone
  <1>1. RenamesInv => SilentIsDone
    <2> SUFFICES ASSUME RenamesInv, pc = "returned", WellFormed
                 PROVE  /\ \A i \in DOMAIN asked : \A n \in Matches(asked[i]) : links[n].name = asked[i].name
                        /\ \A n \in Nics : before[n].up => links[n].up
      BY DEF SilentIsDone
    <2>1. EntriesPlanned /\ Near(links, plan, {}) /\ at = Len(asked) + 1 /\ asked \in Seq(Entries)
      BY DEF RenamesInv, TypeOK, Looked, OnTheWay
    <2>2. ASSUME NEW i \in DOMAIN asked, NEW n \in Matches(asked[i])
          PROVE  links[n].name = asked[i].name
      <3>1. i \in 1..(at - 1)
        BY <2>1
      <3>2. n \in Nics /\ plan.info[n].name = asked[i].name
        BY <2>1, <2>2, <3>1 DEF EntriesPlanned, Matches
      <3>3. QED
        BY <2>1, <3>2 DEF Near
    <2>3. ASSUME NEW n \in Nics, before[n].up
          PROVE  links[n].up
      BY <2>1, <2>3 DEF Near
    <2>4. QED
      BY <2>2, <2>3
  <1>2. QED
    BY <1>1, RenamesInvAlways, PTL

----------------------------------------------------------------------------
(* The names are changed in the midst of the rest of the network.           *)

\* What Init.apply_network_config does to the names, whichever config it then reads and
\* however often it is called again, is what apply_network_config_names does.
THEOREM ApplyRenames == ApplySpec => Spec
  <1>1. ApplyInit => Init
    BY DEF ApplyInit
  <1>2. [ApplyNext]_allVars => [Next]_vars
    <2> SUFFICES ASSUME [ApplyNext]_allVars
                 PROVE  [Next]_vars
      OBVIOUS
    <2>1. CASE ApplyNames
      <3>1. \A c \in EachTime : c \in Configs
        BY DEF EachTime
      <3>2. QED
        BY <2>1, <3>1 DEF ApplyNames, Next
    <2>2. CASE NotNew \/ IsNew \/ NoConfig
      <3>1. Leave
        BY <2>2 DEF NotNew, IsNew, NoConfig
      <3>2. QED
        BY <3>1 DEF Next
    <2>3. CASE ReadCommand \/ Render \/ Again \/ UNCHANGED allVars
      <3>1. UNCHANGED vars
        BY <2>3 DEF ReadCommand, Render, Again, allVars
      <3>2. QED
        BY <3>1
    <2>4. QED
      BY <2>1, <2>2, <2>3 DEF ApplyNext
  <1>3. QED
    BY <1>1, <1>2, PTL DEF ApplySpec, Spec

\* Whatever network config was read before: no error means the names are right.
THEOREM ApplySilentIsDone == ApplySpec => []SilentIsDone
  <1>1. QED
    BY ApplyRenames, SilentIsDoneAlways
----------------------------------------------------------------------------
(* The table of interfaces, read in any order.                              *)

\* One bond at most lists an interface, so its name is the master.
OneBond(version, commands) ==
    /\ \A c, d \in commands : NameOf(version, c) = NameOf(version, d) => c = d
    /\ \A c, d \in Bonds(commands) : c.members \cap d.members # {} => c = d

\* Who lists an interface, when a command is added to those that were read.
LEMMA MasterAdded ==
  ASSUME NEW version, NEW read, NEW c, OneBond(version, read \cup {c}), c \notin read, NEW n
  PROVE  MasterIn(read \cup {c}, n) = IF c.kind = "bond" /\ n \in c.members THEN c.name ELSE MasterIn(read, n)
  <1> DEFINE names(set) == {d.name : d \in {e \in Bonds(set) : n \in e.members}}
  <1>1. \A set : MasterIn(set, n) = IF names(set) = {} THEN "" ELSE CHOOSE b \in names(set) : TRUE
    BY DEF MasterIn
  <1>2. CASE c.kind = "bond" /\ n \in c.members
    <2>1. \A d \in Bonds(read \cup {c}) : n \in d.members => d = c
      BY <1>2 DEF OneBond, Bonds
    <2>2. c \in Bonds(read \cup {c}) /\ n \in c.members
      BY <1>2 DEF Bonds
    <2>3. names(read \cup {c}) = {c.name}
      BY <2>1, <2>2
    <2>4. QED
      BY <1>1, <1>2, <2>3
  <1>3. CASE ~(c.kind = "bond" /\ n \in c.members)
    <2>1. names(read \cup {c}) = names(read)
      BY <1>3 DEF Bonds
    <2>2. MasterIn(read \cup {c}, n) = MasterIn(read, n)
      <3> HIDE DEF names
      <3>1. QED
        BY <1>1, <2>1, Zenon
    <2>3. QED
      BY <1>3, <2>2
  <1>4. QED
    BY <1>2, <1>3

NoSubnets == <<>>
NoPorts == {}
NoName == ""

\* Who is listed by no bond has no master.
LEMMA NoMaster ==
  ASSUME NEW read, NEW n, \A c \in Bonds(read) : n \notin c.members
  PROVE  MasterIn(read, n) = NoName
  BY DEF MasterIn, NoName


\* An entry of the table, and what is left of it when one key is set.
Row(type, subnets, master, ports, link) ==
    [type |-> type, subnets |-> subnets, master |-> master, ports |-> ports, link |-> link]

WithType(row, x) == [row EXCEPT !.type = x]
WithMaster(row, x) == [row EXCEPT !.master = x]
WithPorts(row, x) == [row EXCEPT !.ports = x]
WithLink(row, x) == [row EXCEPT !.link = x]
Defined(row, x, y) == [row EXCEPT !.type = x, !.subnets = y]

LEMMA RowDefined == \A t, s, m, p, l, x, y : Defined(Row(t, s, m, p, l), x, y) = Row(x, y, m, p, l)
  <1> SUFFICES ASSUME NEW t, NEW s, NEW m, NEW p, NEW l, NEW x, NEW y
               PROVE  Defined(Row(t, s, m, p, l), x, y) = Row(x, y, m, p, l)
    OBVIOUS
  <1>1. Defined(Row(t, s, m, p, l), x, y) = [[Row(t, s, m, p, l) EXCEPT !.type = x] EXCEPT !.subnets = y]
    BY Zenon DEF Defined
  <1>2. [Row(t, s, m, p, l) EXCEPT !.type = x] = Row(x, s, m, p, l)
    BY DEF Row
  <1>3. [Row(x, s, m, p, l) EXCEPT !.subnets = y] = Row(x, y, m, p, l)
    BY DEF Row
  <1>4. QED
    BY <1>1, <1>2, <1>3

LEMMA RowType == \A t, s, m, p, l, x : WithType(Row(t, s, m, p, l), x) = Row(x, s, m, p, l)
  BY DEF Row, WithType
LEMMA RowMaster == \A t, s, m, p, l, x : WithMaster(Row(t, s, m, p, l), x) = Row(t, s, x, p, l)
  BY DEF Row, WithMaster
LEMMA RowPorts == \A t, s, m, p, l, x : WithPorts(Row(t, s, m, p, l), x) = Row(t, s, m, x, l)
  BY DEF Row, WithPorts
LEMMA RowLink == \A t, s, m, p, l, x : WithLink(Row(t, s, m, p, l), x) = Row(t, s, m, p, x)
  BY DEF Row, WithLink

\* An entry of the table for an interface that no command has defined.
Member(type, master) == Row(type, NoSubnets, master, NoPorts, NoName)

\* What the table has, by entries: of the commands that were read, of the others.
LEMMA EntriesOf ==
  ASSUME NEW version, NEW made, NEW read
  PROVE  TableOf(version, made, read) <=>
           /\ \A c \in read : NameOf(version, c) \in DOMAIN made
                /\ made[NameOf(version, c)] =
                     Row(c.kind, SubnetsOf(version, c), MasterIn(read, NameOf(version, c)), Ports(c), LinkOf(c))
           /\ \A n \in DOMAIN made : (\A c \in read : NameOf(version, c) # n) =>
                \E type \in {NoName, "bond"} : made[n] = Member(type, MasterIn(read, n))
           /\ \A c \in Bonds(read) : \A n \in c.members : n \in DOMAIN made
  BY DEF TableOf, Row, Member, NoSubnets, NoPorts, NoName

\* A table has an entry more, or another one; it has entries for more names.
Has(after, made, name, row) ==
    /\ DOMAIN after = DOMAIN made \cup {name} /\ after[name] = row
    /\ \A n \in DOMAIN made : n # name => after[n] = made[n]
Grown(after, made, names, row) ==
    /\ DOMAIN after = DOMAIN made \cup names
    /\ \A n \in DOMAIN made : after[n] = made[n]
    /\ \A n \in names : n \notin DOMAIN made => after[n] = row

\* What handle_physical leaves of the interface.
LEMMA PhysicalIs ==
  ASSUME NEW version, NEW made, NEW read, TableOf(version, made, read), NEW name, \A d \in read : NameOf(version, d) # name,
         NEW type, NEW subnets
  PROVE  Has(HandlePhysical(made, name, type, subnets), made, name,
             Row(type, subnets, MasterIn(read, name), NoPorts, NoName))
  <1> DEFINE m == MasterIn(read, name)
  <1>1. \E t : Get(made, name) = Member(t, m)
    <2>1. CASE name \in DOMAIN made
      BY <2>1, EntriesOf DEF Get
    <2>2. CASE name \notin DOMAIN made
      <3>1. m = NoName
        BY <2>2, NoMaster, EntriesOf
      <3>2. QED
        BY <2>2, <3>1 DEF Get, Nothing, Member, Row, NoSubnets, NoPorts, NoName
    <2>3. QED
      BY <2>1, <2>2
  <1> DEFINE entry == Defined(Get(made, name), type, subnets)
  <1>2. HandlePhysical(made, name, type, subnets) = Put(made, name, entry)
    BY DEF HandlePhysical, Defined
  <1> HIDE DEF m
  <1>3. entry = Row(type, subnets, m, NoPorts, NoName)
    <2>1. PICK t : Get(made, name) = Row(t, NoSubnets, m, NoPorts, NoName)
      BY <1>1 DEF Member
    <2>2. QED
      BY <2>1, RowDefined
  <1> HIDE DEF entry
  <1>4. Has(Put(made, name, entry), made, name, entry)
    BY DEF Put, Has
  <1>5. QED
    BY <1>2, <1>3, <1>4 DEF m

\* Names of members that were not met: entries with the type alone.
LEMMA PlaceholdersAre ==
  ASSUME NEW made, NEW names, NEW type
  PROVE  Grown(Placeholders(made, names, type), made, names, Member(type, NoName))
  <1>1. Nothing = Member(NoName, NoName)
    BY DEF Nothing, Member, Row, NoSubnets, NoPorts, NoName
  <1>2. WithType(Nothing, type) = Member(type, NoName)
    BY <1>1, RowType DEF Member
  <1>3. Placeholders(made, names, type)
          = [n \in DOMAIN made \cup names |-> IF n \in DOMAIN made THEN made[n] ELSE WithType(Nothing, type)]
    BY DEF Placeholders, WithType
  <1>4. QED
    BY <1>2, <1>3 DEF Grown

\* A command joins those that were read, if the table has its entry and leaves the others
\* as they were, but for members that were not met and the master of those it lists.
LEMMA ReadOneMore ==
  ASSUME NEW version, NEW made, NEW read, TableOf(version, made, read),
         NEW c, c \notin read, OneBond(version, read \cup {c}), NEW after,
         DOMAIN made \subseteq DOMAIN after, NameOf(version, c) \in DOMAIN after,
         after[NameOf(version, c)] = Row(c.kind, SubnetsOf(version, c), MasterIn(read \cup {c}, NameOf(version, c)), Ports(c), LinkOf(c)),
         c.kind = "bond" => \A n \in c.members : n \in DOMAIN after,
         \A n \in DOMAIN made : n # NameOf(version, c) /\ ~(c.kind = "bond" /\ n \in c.members) => after[n] = made[n],
         \A n \in DOMAIN made : n # NameOf(version, c) /\ c.kind = "bond" /\ n \in c.members
            => after[n] = WithMaster(made[n], NameOf(version, c)),
         \A n \in DOMAIN after \ DOMAIN made : n # NameOf(version, c)
            => \E type \in {NoName, "bond"} : after[n] = Member(type, MasterIn(read \cup {c}, n))
  PROVE  TableOf(version, after, read \cup {c})
  <1> DEFINE all == read \cup {c}
  <1>1. \A n : MasterIn(all, n) = IF c.kind = "bond" /\ n \in c.members THEN NameOf(version, c) ELSE MasterIn(read, n)
    <2>1. \A n : MasterIn(all, n) = IF c.kind = "bond" /\ n \in c.members THEN c.name ELSE MasterIn(read, n)
      BY MasterAdded
    <2>2. c.kind = "bond" => NameOf(version, c) = c.name
      BY DEF NameOf
    <2>3. QED
      BY <2>1, <2>2
  <1>2. \A n \in DOMAIN made : \A t, s, p, l : n # NameOf(version, c) /\ made[n] = Row(t, s, MasterIn(read, n), p, l)
           => after[n] = Row(t, s, MasterIn(all, n), p, l)
    <2> SUFFICES ASSUME NEW n \in DOMAIN made, NEW t, NEW s, NEW p, NEW l,
                        n # NameOf(version, c), made[n] = Row(t, s, MasterIn(read, n), p, l)
                 PROVE  after[n] = Row(t, s, MasterIn(all, n), p, l)
      OBVIOUS
    <2>1. CASE c.kind = "bond" /\ n \in c.members
      <3>1. WithMaster(Row(t, s, MasterIn(read, n), p, l), NameOf(version, c)) = Row(t, s, NameOf(version, c), p, l)
        BY RowMaster
      <3>2. after[n] = WithMaster(made[n], NameOf(version, c)) /\ MasterIn(all, n) = NameOf(version, c)
        BY <1>1, <2>1
      <3>3. QED
        BY <3>1, <3>2
    <2>2. CASE ~(c.kind = "bond" /\ n \in c.members)
      BY <1>1, <2>2
    <2>3. QED
      BY <2>1, <2>2
  <1>3. \A d \in all : NameOf(version, d) \in DOMAIN after
          /\ after[NameOf(version, d)] = Row(d.kind, SubnetsOf(version, d), MasterIn(all, NameOf(version, d)), Ports(d), LinkOf(d))
    <2> SUFFICES ASSUME NEW d \in read
                 PROVE  NameOf(version, d) \in DOMAIN after
                        /\ after[NameOf(version, d)] = Row(d.kind, SubnetsOf(version, d), MasterIn(all, NameOf(version, d)), Ports(d), LinkOf(d))
      OBVIOUS
    <2>1. NameOf(version, d) # NameOf(version, c)
      BY DEF OneBond
    <2>2. NameOf(version, d) \in DOMAIN made
          /\ made[NameOf(version, d)] = Row(d.kind, SubnetsOf(version, d), MasterIn(read, NameOf(version, d)), Ports(d), LinkOf(d))
      BY EntriesOf
    <2>3. QED
      BY <1>2, <2>1, <2>2
  <1>4. \A n \in DOMAIN after : (\A d \in all : NameOf(version, d) # n) =>
           \E type \in {NoName, "bond"} : after[n] = Member(type, MasterIn(all, n))
    <2> SUFFICES ASSUME NEW n \in DOMAIN after, \A d \in all : NameOf(version, d) # n
                 PROVE  \E type \in {NoName, "bond"} : after[n] = Member(type, MasterIn(all, n))
      OBVIOUS
    <2>1. n # NameOf(version, c)
      OBVIOUS
    <2>2. CASE n \in DOMAIN made
      <3>1. PICK type \in {NoName, "bond"} : made[n] = Member(type, MasterIn(read, n))
        BY <2>2, EntriesOf
      <3>2. after[n] = Member(type, MasterIn(all, n))
        BY <1>2, <2>1, <2>2, <3>1 DEF Member
      <3>3. QED
        BY <3>2
    <2>3. QED
      BY <2>1, <2>2
  <1>5. \A d \in Bonds(all) : \A n \in d.members : n \in DOMAIN after
    <2>1. \A d \in Bonds(read) : \A n \in d.members : n \in DOMAIN made
      BY EntriesOf
    <2>2. QED
      BY <2>1 DEF Bonds
  <1> HIDE DEF all
  <1>6. QED
    BY <1>3, <1>4, <1>5, EntriesOf DEF all

\* Whatever was read before, a command leaves the table as if it were read now.
LEMMA HandleIs ==
  ASSUME NEW version, NEW made, NEW read, TableOf(version, made, read),
         NEW c, c.complete, c \notin read, OneBond(version, read \cup {c}),
         c.kind \in {"physical", "loopback", "bond", "bridge", "vlan"}
  PROVE  TableOf(version, Handle(version, made, c), read \cup {c})
  <1> DEFINE subnets == SubnetsOf(version, c)
             after == Handle(version, made, c)
             all == read \cup {c}
  <1>0. c.kind # "physical" => NameOf(version, c) = c.name
    BY DEF NameOf
  <1>1. \A d \in read : NameOf(version, d) # NameOf(version, c)
    BY DEF OneBond
  <1>2. \A n : MasterIn(all, n) = IF c.kind = "bond" /\ n \in c.members THEN c.name ELSE MasterIn(read, n)
    BY MasterAdded
  <1>3. \A n : n \notin DOMAIN made => MasterIn(read, n) = NoName
    BY NoMaster, EntriesOf
  <1>4. CASE c.kind \in {"physical", "loopback"}
    <2>1. after = HandlePhysical(made, NameOf(version, c), c.kind, subnets)
      BY <1>4 DEF Handle
    <2>2. Ports(c) = NoPorts /\ LinkOf(c) = NoName /\ c.kind # "bond"
      BY <1>4 DEF Ports, LinkOf, NoPorts, NoName
    <2> HIDE DEF after, subnets
    <2>3. Has(after, made, NameOf(version, c), Row(c.kind, subnets, MasterIn(read, NameOf(version, c)), NoPorts, NoName))
      BY <1>1, <2>1, PhysicalIs
    <2>4. QED
      BY <1>2, <2>2, <2>3, ReadOneMore DEF after, subnets, Has
  <1>5. CASE c.kind = "vlan"
    <2> DEFINE made1 == HandlePhysical(made, c.name, "vlan", subnets)
    <2>1. after = [made1 EXCEPT ![c.name].link = c.link]
      BY <1>5 DEF Handle, HandleVlan
    <2>2. Ports(c) = NoPorts /\ LinkOf(c) = c.link /\ c.kind # "bond"
      BY <1>5 DEF Ports, LinkOf, NoPorts, NoName
    <2> HIDE DEF after, subnets, made1
    <2>3. Has(made1, made, c.name, Row("vlan", subnets, MasterIn(read, c.name), NoPorts, NoName))
      <3>1. made1 = HandlePhysical(made, c.name, "vlan", subnets)
        BY DEF made1
      <3>2. QED
        BY <1>0, <1>1, <1>5, <3>1, PhysicalIs
    <2>4. DOMAIN after = DOMAIN made1 /\ (\A n \in DOMAIN made : n # c.name => after[n] = made1[n])
          /\ after[c.name] = WithLink(made1[c.name], c.link)
      BY <2>1, <2>3 DEF WithLink, Has
    <2>5. after[c.name] = Row("vlan", subnets, MasterIn(read, c.name), NoPorts, c.link)
      <3>1. WithLink(Row("vlan", subnets, MasterIn(read, c.name), NoPorts, NoName), c.link)
              = Row("vlan", subnets, MasterIn(read, c.name), NoPorts, c.link)
        BY RowLink
      <3>2. QED
        BY <2>3, <2>4, <3>1 DEF Has
    <2>6. Has(after, made, c.name, Row(c.kind, subnets, MasterIn(all, c.name), Ports(c), LinkOf(c)))
      BY <1>2, <1>5, <2>2, <2>3, <2>4, <2>5 DEF Has
    <2>7. DOMAIN made \subseteq DOMAIN after /\ c.name \in DOMAIN after
          /\ after[c.name] = Row(c.kind, subnets, MasterIn(all, c.name), Ports(c), LinkOf(c))
          /\ \A n \in DOMAIN made : n # c.name => after[n] = made[n]
      BY <2>6 DEF Has
    <2>8. \A n \in DOMAIN after \ DOMAIN made : n = c.name
      BY <2>6 DEF Has
    <2>9. QED
      BY <1>0, <1>5, <2>2, <2>7, <2>8, ReadOneMore DEF after, subnets
  <1>6. CASE c.kind = "bridge"
    <2> DEFINE made1 == Placeholders(made, c.members, NoName)
               made2 == HandlePhysical(made1, c.name, "bridge", subnets)
    <2>1. after = [made2 EXCEPT ![c.name].ports = c.members]
      BY <1>6 DEF Handle, HandleBridge, NoName
    <2>2. Ports(c) = c.members /\ LinkOf(c) = NoName /\ c.kind # "bond"
      BY <1>6 DEF Ports, LinkOf, NoPorts, NoName
    <2>3. Grown(made1, made, c.members, Member(NoName, NoName))
      <3> HIDE DEF made1
      <3>1. made1 = Placeholders(made, c.members, NoName)
        BY DEF made1
      <3>2. QED
        BY <3>1, PlaceholdersAre
    <2> HIDE DEF after, subnets, made1, made2
    <2>4. TableOf(version, made1, read)
      <3>1. \A d \in read : NameOf(version, d) \in DOMAIN made1
              /\ made1[NameOf(version, d)] = Row(d.kind, SubnetsOf(version, d), MasterIn(read, NameOf(version, d)), Ports(d), LinkOf(d))
        BY <2>3, EntriesOf DEF Grown
      <3>2. \A n \in DOMAIN made1 : (\A d \in read : NameOf(version, d) # n) =>
               \E type \in {NoName, "bond"} : made1[n] = Member(type, MasterIn(read, n))
        <4> SUFFICES ASSUME NEW n \in DOMAIN made1, \A d \in read : NameOf(version, d) # n
                     PROVE  \E type \in {NoName, "bond"} : made1[n] = Member(type, MasterIn(read, n))
          OBVIOUS
        <4>1. CASE n \in DOMAIN made
          BY <2>3, <4>1, EntriesOf DEF Grown
        <4>2. CASE n \notin DOMAIN made
          BY <1>3, <2>3, <4>2 DEF Grown
        <4>3. QED
          BY <4>1, <4>2
      <3>3. \A d \in Bonds(read) : \A n \in d.members : n \in DOMAIN made1
        BY <2>3, EntriesOf DEF Grown
      <3>4. QED
        BY <3>1, <3>2, <3>3, EntriesOf
    <2>5. Has(made2, made1, c.name, Row("bridge", subnets, MasterIn(read, c.name), NoPorts, NoName))
      <3>1. made2 = HandlePhysical(made1, c.name, "bridge", subnets)
        BY DEF made2
      <3>2. QED
        BY <1>0, <1>1, <1>6, <2>4, <3>1, PhysicalIs
    <2>6. DOMAIN after = DOMAIN made2 /\ (\A n \in DOMAIN made2 : n # c.name => after[n] = made2[n])
          /\ after[c.name] = WithPorts(made2[c.name], c.members)
      BY <2>1, <2>5 DEF WithPorts, Has
    <2>7. after[c.name] = Row("bridge", subnets, MasterIn(read, c.name), c.members, NoName)
      <3>1. WithPorts(Row("bridge", subnets, MasterIn(read, c.name), NoPorts, NoName), c.members)
              = Row("bridge", subnets, MasterIn(read, c.name), c.members, NoName)
        BY RowPorts
      <3>2. QED
        BY <2>5, <2>6, <3>1 DEF Has
    <2>8. \A n \in DOMAIN made : n # c.name => after[n] = made[n]
      BY <2>3, <2>5, <2>6 DEF Has, Grown
    <2>9. \A n \in DOMAIN after \ DOMAIN made : n # c.name => after[n] = Member(NoName, MasterIn(all, n))
      BY <1>2, <1>3, <2>2, <2>3, <2>5, <2>6 DEF Has, Grown
    <2>10. DOMAIN made \subseteq DOMAIN after /\ c.name \in DOMAIN after
           /\ after[c.name] = Row(c.kind, subnets, MasterIn(all, c.name), Ports(c), LinkOf(c))
      BY <1>2, <1>6, <2>2, <2>3, <2>5, <2>6, <2>7 DEF Has, Grown
    <2>11. NameOf(version, c) = c.name
      BY <1>0, <1>6
    <2>12. /\ DOMAIN made \subseteq DOMAIN after /\ NameOf(version, c) \in DOMAIN after
           /\ after[NameOf(version, c)] =
                Row(c.kind, subnets, MasterIn(all, NameOf(version, c)), Ports(c), LinkOf(c))
           /\ \A n \in DOMAIN made : n # NameOf(version, c) => after[n] = made[n]
           /\ \A n \in DOMAIN after \ DOMAIN made : n # NameOf(version, c)
                => after[n] = Member(NoName, MasterIn(all, n))
      BY <2>8, <2>9, <2>10, <2>11
    <2>13. QED
      BY <2>2, <2>12, ReadOneMore DEF after, subnets
  <1>7. CASE c.kind = "bond"
    <2> DEFINE made1 == HandlePhysical(made, c.name, "bond", subnets)
               made2 == Placeholders(made1, c.members, "bond")
    <2>1. after = [n \in DOMAIN made2 |->
                     IF n \in c.members THEN WithMaster(made2[n], c.name) ELSE made2[n]]
      BY <1>7 DEF Handle, HandleBond, WithMaster
    <2>2. Ports(c) = NoPorts /\ LinkOf(c) = NoName
      BY <1>7 DEF Ports, LinkOf, NoPorts, NoName
    <2>3. Grown(made2, made1, c.members, Member("bond", NoName))
      <3> HIDE DEF made1, made2
      <3>1. made2 = Placeholders(made1, c.members, "bond")
        BY DEF made2
      <3>2. QED
        BY <3>1, PlaceholdersAre
    <2> HIDE DEF after, subnets, made1, made2
    <2>4. Has(made1, made, c.name, Row("bond", subnets, MasterIn(read, c.name), NoPorts, NoName))
      <3>1. made1 = HandlePhysical(made, c.name, "bond", subnets)
        BY DEF made1
      <3>2. QED
        BY <1>0, <1>1, <1>7, <3>1, PhysicalIs
    <2>5. DOMAIN after = DOMAIN made2
          /\ \A n \in DOMAIN made2 :
               after[n] = IF n \in c.members THEN WithMaster(made2[n], c.name) ELSE made2[n]
      BY <2>1
    <2>6. DOMAIN made \subseteq DOMAIN after /\ c.name \in DOMAIN after /\ \A n \in c.members : n \in DOMAIN after
      BY <2>3, <2>4, <2>5 DEF Has, Grown
    <2>7. after[c.name] = Row(c.kind, subnets, MasterIn(all, c.name), Ports(c), LinkOf(c))
      <3>1. WithMaster(Row("bond", subnets, MasterIn(read, c.name), NoPorts, NoName), c.name)
              = Row("bond", subnets, c.name, NoPorts, NoName)
        BY RowMaster
      <3>2. made2[c.name] = Row("bond", subnets, MasterIn(read, c.name), NoPorts, NoName)
        BY <2>3, <2>4 DEF Has, Grown
      <3>3. QED
        BY <1>2, <1>7, <2>2, <2>3, <2>4, <2>5, <3>1, <3>2 DEF Has, Grown
    <2>8. \A n \in DOMAIN made : n # c.name => after[n] =
             IF n \in c.members THEN WithMaster(made[n], c.name) ELSE made[n]
      BY <2>3, <2>4, <2>5 DEF Has, Grown
    <2>9. \A n \in DOMAIN after \ DOMAIN made : n # c.name => after[n] = Member("bond", MasterIn(all, n))
      <3> SUFFICES ASSUME NEW n \in DOMAIN after, n \notin DOMAIN made, n # c.name
                   PROVE  after[n] = Member("bond", MasterIn(all, n))
        OBVIOUS
      <3>1. n \in c.members /\ made2[n] = Member("bond", NoName)
        BY <2>3, <2>4, <2>5 DEF Has, Grown
      <3>2. after[n] = WithMaster(made2[n], c.name)
        BY <2>5, <3>1
      <3>3. MasterIn(all, n) = c.name
        BY <1>2, <1>7, <3>1
      <3>4. QED
        <4>1. WithMaster(Row("bond", NoSubnets, NoName, NoPorts, NoName), c.name)
                = Row("bond", NoSubnets, c.name, NoPorts, NoName)
          BY RowMaster
        <4>2. QED
          BY <3>1, <3>2, <3>3, <4>1 DEF Member
    <2>10. QED
      BY <1>0, <1>7, <2>6, <2>7, <2>8, <2>9, ReadOneMore DEF after, subnets
  <1>8. QED
    BY <1>4, <1>5, <1>6, <1>7

----------------------------------------------------------------------------
(* The commands are read one by one, whichever comes first.                  *)

NetworkInv == network \in Networks /\ ReadInv

\* What the assumption says of the network that is read.
LEMMA CommandsAre ==
  ASSUME network \in Networks, ~Refused(network)
  PROVE  LET read == Complete(CommandsOf(network))
         IN  /\ \A c \in read : c.kind \in {"physical", "loopback", "bond", "bridge", "vlan"}
             /\ \A set : set \subseteq read => OneBond(network.version, set)
  <1> DEFINE read == Complete(CommandsOf(network))
  <1>1. /\ \A c \in read : c.kind \in {"physical", "loopback", "bond", "bridge", "vlan"}
        /\ \A c, d \in read : NameOf(network.version, c) = NameOf(network.version, d) => c = d
        /\ \A c, d \in Bonds(read) : c.members \cap d.members # {} => c = d
    BY NetworksAssumption
  <1>2. \A set : set \subseteq read => Bonds(set) \subseteq Bonds(read)
    BY DEF Bonds
  <1> HIDE DEF read
  <1>3. QED
    BY <1>1, <1>2 DEF OneBond, read

\* Nothing is read: the table is empty.
LEMMA NothingRead ==
  ASSUME NEW version
  PROVE  TableOf(version, <<>>, {})
  BY DEF TableOf, Bonds

\* A command is read: if it is complete, with those before, else it is skipped.
LEMMA OneMoreRead ==
  ASSUME network \in Networks, ~Refused(network), NEW left, NEW made, NEW c,
         left \subseteq CommandsOf(network), c \in left,
         TableOf(network.version, made, Complete(CommandsOf(network) \ left))
  PROVE  TableOf(network.version, Handle(network.version, made, c),
                 Complete(CommandsOf(network) \ (left \ {c})))
  <1> DEFINE commands == CommandsOf(network)
             read == Complete(commands \ left)
             more == Complete(commands \ (left \ {c}))
  <1>1. CASE c.complete
    <2>1. more = read \cup {c} /\ c \notin read /\ more \subseteq Complete(commands) /\ c \in Complete(commands)
      BY <1>1 DEF Complete
    <2>2. OneBond(network.version, more) /\ c.kind \in {"physical", "loopback", "bond", "bridge", "vlan"}
      BY <2>1, CommandsAre
    <2> HIDE DEF more, read
    <2>3. TableOf(network.version, made, read)
      BY DEF read
    <2>4. TableOf(network.version, Handle(network.version, made, c), read \cup {c})
      BY <1>1, <2>1, <2>2, <2>3, HandleIs
    <2>5. QED
      BY <2>1, <2>4 DEF more
  <1>2. CASE ~c.complete
    <2>1. more = read
      BY <1>2 DEF Complete
    <2>2. Handle(network.version, made, c) = made
      BY <1>2 DEF Handle
    <2>3. QED
      BY <2>1, <2>2
  <1>3. QED
    BY <1>1, <1>2

LEMMA NetworkInvStep ==
  ASSUME NetworkInv, [ApplyNext]_allVars
  PROVE  NetworkInv'
  <1> USE DEF NetworkInv
  <1>0. network' = network /\ network' \in Networks
    BY DEF ApplyNext, ApplyNames, NotNew, IsNew, NoConfig, ReadCommand, Render, Again, net, allVars
  <1>1. CASE ApplyNames
    BY <1>0, <1>1 DEF ApplyNames, net, ReadInv, Reading
  <1>2. CASE NotNew \/ NoConfig
    <2>1. ~Reading
      BY <1>2 DEF NotNew, NoConfig, Leave, ReadInv
    <2>2. QED
      BY <1>0, <1>2, <2>1 DEF NotNew, NoConfig, net, ReadInv, Reading
  <1>3. CASE IsNew
    <2>1. ~Reading /\ pc' = "idle"
      BY <1>3 DEF IsNew, Leave, ReadInv
    <2>2. todo' = CommandsOf(network) /\ table' = <<>> /\ ~Refused(network)
      BY <1>3, <2>1 DEF IsNew, Reading
    <2>3. Complete(CommandsOf(network) \ todo') = {}
      BY <2>2 DEF Complete
    <2>4. ReadInv'
      BY <1>0, <2>1, <2>2, <2>3, NothingRead DEF ReadInv
    <2>5. QED
      BY <1>0, <2>4
  <1>4. CASE ReadCommand
    <2>1. PICK c \in todo : table' = Handle(network.version, table, c) /\ todo' = todo \ {c}
      BY <1>4 DEF ReadCommand
    <2>2. pc = "idle" /\ pc' = pc /\ ~Refused(network) /\ todo \subseteq CommandsOf(network)
          /\ TableOf(network.version, table, Complete(CommandsOf(network) \ todo))
      BY <1>4, <2>1 DEF ReadCommand, ReadInv, Reading, vars
    <2>3. TableOf(network.version, table', Complete(CommandsOf(network) \ todo'))
      BY <2>1, <2>2, OneMoreRead
    <2>4. ReadInv'
      BY <1>0, <2>1, <2>2, <2>3 DEF ReadInv
    <2>5. QED
      BY <1>0, <2>4
  <1>5. CASE Render
    BY <1>0, <1>5 DEF Render, ReadInv, Reading
  <1>6. CASE Again
    BY <1>0, <1>6 DEF Again, ReadInv, Reading, vars
  <1>7. CASE UNCHANGED allVars
    BY <1>0, <1>7 DEF allVars, net, vars, ReadInv, Reading
  <1>8. QED
    BY <1>1, <1>2, <1>3, <1>4, <1>5, <1>6, <1>7 DEF ApplyNext

\* An interface of the table is what its own command says.
LEMMA TableReadsTheSame ==
  ASSUME NetworkInv
  PROVE  AnyOrderReadsTheSame /\ (todo = {} /\ table # <<>> => \A c \in Devices : NameOf(network.version, c) \in DOMAIN table)
  <1> SUFFICES ASSUME todo = {}, table # <<>>, NEW c \in Devices
               PROVE  NameOf(network.version, c) \in DOMAIN table
                      /\ table[NameOf(network.version, c)] = Row(c.kind, SubnetsOf(network.version, c),
                            MasterOf(NameOf(network.version, c)), Ports(c), LinkOf(c))
    BY DEF AnyOrderReadsTheSame, Row
  <1> DEFINE v == network.version
             name == NameOf(v, c)
             read == Complete(CommandsOf(network))
  <1>1. ~Refused(network) /\ network \in Networks
    BY DEF NetworkInv, ReadInv, Reading
  <1>2. TableOf(v, table, read)
    <2>1. CommandsOf(network) \ todo = CommandsOf(network)
      OBVIOUS
    <2>2. QED
      BY <2>1 DEF NetworkInv, ReadInv, Reading
  <1>3. AsRead(v, network.devices) \subseteq AsRead(v, read) /\ Bonds(AsRead(v, read)) \subseteq AsRead(v, network.devices)
    BY <1>1, NetworksAssumption
  <1> DEFINE said(d) == [kind |-> d.kind, name |-> NameOf(v, d), members |-> d.members, link |-> d.link,
                         subnets |-> SubnetsOf(v, d)]
  <1>4. AsRead(v, network.devices) = {said(d) : d \in Devices} /\ AsRead(v, read) = {said(d) : d \in read}
    BY DEF AsRead, Devices, Complete
  <1>5. \A d, e : said(d) = said(e) => /\ d.kind = e.kind /\ NameOf(v, d) = NameOf(v, e) /\ d.members = e.members /\ d.link = e.link
                                      /\ SubnetsOf(v, d) = SubnetsOf(v, e)
    OBVIOUS
  <1>6. \A d : said(d).kind = d.kind
    OBVIOUS
  <1> HIDE DEF said, read, v
  <1>7. \A d \in Devices : \E e \in read : said(d) = said(e)
    <2> SUFFICES ASSUME NEW d \in Devices
                 PROVE  \E e \in read : said(d) = said(e)
      OBVIOUS
    <2>1. said(d) \in AsRead(v, read)
      BY <1>3, <1>4
    <2>2. QED
      BY <1>4, <2>1
  <1>8. \A d \in read : d.kind = "bond" => \E e \in Devices : said(d) = said(e)
    <2> SUFFICES ASSUME NEW d \in read, d.kind = "bond"
                 PROVE  \E e \in Devices : said(d) = said(e)
      OBVIOUS
    <2>1. said(d) \in AsRead(v, read) /\ said(d).kind = "bond"
      BY <1>4, <1>6
    <2>2. said(d) \in AsRead(v, network.devices)
      BY <1>3, <2>1 DEF Bonds
    <2>3. QED
      BY <1>4, <2>2
  <1>9. MasterIn(read, name) = MasterOf(name)
    <2> DEFINE names(set) == {d.name : d \in {e \in Bonds(set) : name \in e.members}}
    <2>0. \A d : d.kind = "bond" => NameOf(v, d) = d.name
      BY DEF NameOf
    <2>1. \A set : MasterIn(set, name) = IF names(set) = {} THEN "" ELSE CHOOSE b \in names(set) : TRUE
      BY DEF MasterIn
    <2>2. names(read) \subseteq names(Devices)
      BY <1>5, <1>8, <2>0 DEF Bonds
    <2>3. names(Devices) \subseteq names(read)
      BY <1>5, <1>7, <2>0 DEF Bonds
    <2> HIDE DEF names
    <2>4. names(read) = names(Devices)
      BY <2>2, <2>3
    <2>5. QED
      BY <2>1, <2>4, Zenon DEF MasterOf
  <1>10. PICK d \in read : said(c) = said(d)
    BY <1>7
  <1>11. NameOf(v, d) \in DOMAIN table
         /\ table[NameOf(v, d)] = Row(d.kind, SubnetsOf(v, d), MasterIn(read, NameOf(v, d)), Ports(d), LinkOf(d))
    BY <1>2, EntriesOf
  <1>12. d.kind = c.kind /\ NameOf(v, d) = name /\ SubnetsOf(v, d) = SubnetsOf(v, c) /\ Ports(d) = Ports(c) /\ LinkOf(d) = LinkOf(c)
    BY <1>5, <1>10 DEF Ports, LinkOf
  <1>13. QED
    BY <1>9, <1>11, <1>12 DEF v

\* Whatever cloud describes the network, and in whatever order its commands are read, an
\* interface is what its own command says and the slave of the bond that lists its name.
THEOREM AnyOrderReadsTheSameAlways == ApplySpec => []AnyOrderReadsTheSame
  <1>1. ApplyInit => NetworkInv
    BY DEF ApplyInit, NetworkInv, ReadInv, Reading
  <1>2. NetworkInv /\ [ApplyNext]_allVars => NetworkInv'
    BY NetworkInvStep
  <1>3. NetworkInv => AnyOrderReadsTheSame
    BY TableReadsTheSame
  <1>4. QED
    BY <1>1, <1>2, <1>3, PTL DEF ApplySpec

----------------------------------------------------------------------------
(* Sequences put one after the other: what is in them.                      *)

\* The order of the numbers.
Less == {pair \in Nat \X Nat : pair[1] < pair[2]}

\* Every set of numbers that is not empty has a smallest one.
LEMMA Smallest ==
  ASSUME NEW T \in SUBSET Nat, T # {}
  PROVE  \E n \in T : \A m \in Nat : m < n => m \notin T
  <1>1. IsWellFoundedOn(Less, Nat)
    BY NatLessThanWellFounded, Zenon DEF OpToRel, Less
  <1>2. PICK n \in T : \A m \in Nat : <<m, n>> \in Less => m \notin T
    BY <1>1, WFMin
  <1>3. QED
    BY <1>2 DEF Less

\* The recursive function that FlattenSeq is defined by exists.
LEMMA FlattenExists ==
  ASSUME NEW s, NEW n \in Nat
  PROVE  \E f : f = [i \in 1..n |-> IF i = 1 THEN s[i] ELSE f[i - 1] \o s[i]]
  <1> DEFINE P(k) == \E f : f = [i \in 1..k |-> IF i = 1 THEN s[i] ELSE f[i - 1] \o s[i]]
             T == {k \in Nat : ~P(k)}
  <1>1. CASE T = {}
    BY <1>1
  <1>2. CASE T # {}
    <2>1. PICK k \in T : \A m \in Nat : m < k => m \notin T
      BY <1>2, Smallest
    <2>2. k # 0
      <3>1. <<>> = [i \in 1..0 |-> IF i = 1 THEN s[i] ELSE <<>>[i - 1] \o s[i]]
        OBVIOUS
      <3>2. QED
        BY <2>1, <3>1
    <2>3. PICK f : f = [i \in 1..(k - 1) |-> IF i = 1 THEN s[i] ELSE f[i - 1] \o s[i]]
      <3>1. k - 1 \in Nat /\ k - 1 < k
        BY <2>2
      <3>2. P(k - 1)
        BY <2>1, <3>1
      <3>3. QED
        BY <3>2
    <2> DEFINE g == [i \in 1..k |-> IF i = 1 THEN s[i] ELSE IF i = k THEN f[k - 1] \o s[k] ELSE f[i]]
    <2>4. g = [i \in 1..k |-> IF i = 1 THEN s[i] ELSE g[i - 1] \o s[i]]
      <3>1. ASSUME NEW i \in 1..k, i # 1 PROVE g[i] = g[i - 1] \o s[i]
        <4>1. CASE i = k
          <5>1. g[k - 1] = f[k - 1]
            BY <2>2, <2>3, <3>1, <4>1
          <5>2. QED
            BY <4>1, <3>1, <5>1
        <4>2. CASE i # k
          <5>0. i \in 1..(k - 1)
            BY <2>2, <4>2
          <5>1. f[i] = f[i - 1] \o s[i]
            BY <2>3, <3>1, <5>0
          <5>2. g[i - 1] = f[i - 1]
            BY <2>3, <3>1, <4>2
          <5>3. QED
            BY <5>1, <5>2, <3>1, <4>2
        <4>3. QED
          BY <4>1, <4>2
      <3>2. QED
        BY <3>1
    <2>5. QED
      BY <2>1, <2>4
  <1>3. QED
    BY <1>1, <1>2

LEMMA FlattenIs ==
  ASSUME NEW s, Len(s) \in Nat \ {0}
  PROVE  \E f : /\ f = [i \in 1..Len(s) |-> IF i = 1 THEN s[i] ELSE f[i - 1] \o s[i]]
                /\ FlattenSeq(s) = f[Len(s)]
  <1> DEFINE f == CHOOSE f : f = [i \in 1..Len(s) |-> IF i = 1 THEN s[i] ELSE f[i - 1] \o s[i]]
  <1>1. f = [i \in 1..Len(s) |-> IF i = 1 THEN s[i] ELSE f[i - 1] \o s[i]]
    BY FlattenExists
  <1>2. FlattenSeq(s) = f[Len(s)]
    BY DEF FlattenSeq
  <1>3. QED
    BY <1>1, <1>2

LEMMA FlattenEmpty == FlattenSeq(<<>>) = <<>>
  BY DEF FlattenSeq

\* FlattenSeq of sequences over a set is one; it joins one after the other.
LEMMA FlattenAppend ==
  ASSUME NEW X, NEW s \in Seq(Seq(X)), NEW x \in Seq(X)
  PROVE  FlattenSeq(s) \in Seq(X) /\ FlattenSeq(Append(s, x)) = FlattenSeq(s) \o x
  <1> DEFINE n == Len(s)
             t == Append(s, x)
  <1>1. n \in Nat /\ Len(t) = n + 1 /\ t[n + 1] = x /\ \A i \in 1..n : t[i] = s[i] /\ s[i] \in Seq(X)
    OBVIOUS
  <1>2. PICK g : /\ g = [i \in 1..(n + 1) |-> IF i = 1 THEN t[i] ELSE g[i - 1] \o t[i]]
                 /\ FlattenSeq(t) = g[n + 1]
    <2>1. Len(t) \in Nat \ {0}
      BY <1>1
    <2>2. QED
      BY <1>1, <2>1, FlattenIs
  <1>3. CASE n = 0
    BY <1>1, <1>2, <1>3 DEF FlattenSeq
  <1>4. CASE n # 0
    <2>1. PICK f : /\ f = [i \in 1..n |-> IF i = 1 THEN s[i] ELSE f[i - 1] \o s[i]]
                   /\ FlattenSeq(s) = f[n]
      BY <1>1, <1>4, FlattenIs
    <2> DEFINE T == {i \in Nat : i \in 1..n /\ ~(f[i] = g[i] /\ f[i] \in Seq(X))}
    <2>2. T = {}
      <3> SUFFICES ASSUME T # {} PROVE FALSE
        OBVIOUS
      <3>1. PICK i \in T : \A m \in Nat : m < i => m \notin T
        BY Smallest
      <3>2. i \in 1..n /\ i \in 1..(n + 1)
        BY <1>1
      <3>3. CASE i = 1
        BY <3>1, <3>2, <3>3, <1>1, <1>2, <2>1
      <3>4. CASE i # 1
        <4>1. i - 1 \in 1..n /\ i - 1 < i
          BY <3>2, <3>4, <1>1
        <4>2. f[i - 1] = g[i - 1] /\ f[i - 1] \in Seq(X)
          BY <3>1, <4>1
        <4>3. f[i] = f[i - 1] \o s[i] /\ g[i] = g[i - 1] \o t[i]
          BY <3>2, <3>4, <1>2, <2>1
        <4>4. t[i] = s[i] /\ s[i] \in Seq(X)
          BY <3>2, <1>1
        <4>5. f[i] = g[i]
          BY <4>2, <4>3, <4>4
        <4>6. f[i] \in Seq(X)
          <5>1. f[i - 1] \o s[i] \in Seq(X)
            BY <4>2, <4>4
          <5>2. QED
            BY <5>1, <4>3
        <4>7. QED
          BY <3>1, <4>5, <4>6
      <3>5. QED
        BY <3>3, <3>4
    <2>3. f[n] = g[n] /\ f[n] \in Seq(X)
      BY <1>1, <1>4, <2>2
    <2>4. g[n + 1] = g[n] \o t[n + 1]
      <3>1. n + 1 \in 1..(n + 1) /\ n + 1 # 1 /\ (n + 1) - 1 = n
        BY <1>1, <1>4
      <3>2. QED
        BY <1>2, <3>1
    <2>5. QED
      BY <1>1, <1>2, <2>1, <2>3, <2>4
  <1>5. QED
    BY <1>3, <1>4

\* A sequence that is not empty ends with an element.
LEMMA IsAppended ==
  ASSUME NEW X, NEW s \in Seq(X), Len(s) # 0
  PROVE  \E r \in Seq(X), x \in X : s = Append(r, x) /\ Len(r) \in Nat /\ Len(r) < Len(s)
  <1>1. s # <<>>
    OBVIOUS
  <1>2. PICK r \in Seq(X), x \in X : s = Append(r, x)
    BY <1>1, SequenceEmptyOrAppend
  <1>3. Len(s) = Len(r) + 1 /\ Len(r) \in Nat
    BY <1>2, AppendProperties
  <1>4. QED
    BY <1>2, <1>3

\* What is in a sequence after another.
LEMMA InConcat ==
  ASSUME NEW X, NEW s \in Seq(X), NEW t \in Seq(X)
  PROVE  s \o t \in Seq(X) /\ ToSet(s \o t) = ToSet(s) \cup ToSet(t)
  <1>1. s \o t \in Seq(X) /\ Len(s \o t) = Len(s) + Len(t) /\ Len(s) \in Nat /\ Len(t) \in Nat
        /\ \A i \in 1..(Len(s) + Len(t)) : (s \o t)[i] = IF i <= Len(s) THEN s[i] ELSE t[i - Len(s)]
    BY ConcatProperties, LenProperties
  <1>2. DOMAIN s = 1..Len(s) /\ DOMAIN t = 1..Len(t) /\ DOMAIN (s \o t) = 1..(Len(s) + Len(t))
    BY <1>1, LenProperties
  <1>3. ASSUME NEW x \in ToSet(s \o t) PROVE x \in ToSet(s) \cup ToSet(t)
    <2>1. PICK i \in 1..(Len(s) + Len(t)) : x = (s \o t)[i]
      BY <1>2 DEF ToSet
    <2>2. CASE i <= Len(s)
      BY <1>1, <1>2, <2>1, <2>2 DEF ToSet
    <2>3. CASE i > Len(s)
      <3>1. i - Len(s) \in 1..Len(t) /\ x = t[i - Len(s)]
        BY <1>1, <2>1, <2>3
      <3>2. QED
        BY <1>2, <3>1 DEF ToSet
    <2>4. QED
      BY <1>1, <2>2, <2>3
  <1>4. ASSUME NEW x \in ToSet(s) PROVE x \in ToSet(s \o t)
    <2>1. PICK i \in 1..Len(s) : x = s[i]
      BY <1>2 DEF ToSet
    <2>2. i \in 1..(Len(s) + Len(t)) /\ (s \o t)[i] = x
      BY <1>1, <2>1
    <2>3. QED
      BY <1>2, <2>2 DEF ToSet
  <1>5. ASSUME NEW x \in ToSet(t) PROVE x \in ToSet(s \o t)
    <2>1. PICK i \in 1..Len(t) : x = t[i]
      BY <1>2 DEF ToSet
    <2>2. i + Len(s) \in 1..(Len(s) + Len(t)) /\ (s \o t)[i + Len(s)] = x
      BY <1>1, <2>1
    <2>3. QED
      BY <1>2, <2>2 DEF ToSet
  <1>6. QED
    BY <1>1, <1>3, <1>4, <1>5

\* What is in a flattened sequence.
LEMMA InFlatten ==
  ASSUME NEW X, NEW s \in Seq(Seq(X))
  PROVE  FlattenSeq(s) \in Seq(X) /\ \A x : x \in ToSet(FlattenSeq(s)) <=> \E i \in DOMAIN s : x \in ToSet(s[i])
  <1> DEFINE P(q) == FlattenSeq(q) \in Seq(X)
                     /\ \A x : x \in ToSet(FlattenSeq(q)) <=> \E i \in DOMAIN q : x \in ToSet(q[i])
             T == {k \in Nat : \E q \in Seq(Seq(X)) : Len(q) = k /\ ~P(q)}
  <1>1. ASSUME T # {} PROVE FALSE
    <2>1. PICK k \in T : \A m \in Nat : m < k => m \notin T
      BY <1>1, Smallest
    <2>2. PICK q \in Seq(Seq(X)) : Len(q) = k /\ ~P(q)
      OBVIOUS
    <2>3. CASE k = 0
      <3>1. q = <<>> /\ FlattenSeq(q) = <<>>
        BY <2>2, <2>3, FlattenEmpty
      <3>2. DOMAIN q = {} /\ ToSet(FlattenSeq(q)) = {}
        BY <3>1 DEF ToSet
      <3>3. FlattenSeq(q) \in Seq(X)
        <4>1. <<>> \in Seq(X)
          OBVIOUS
        <4>2. QED
          BY <3>1, <4>1, Zenon
      <3>4. P(q)
        BY <3>2, <3>3
      <3>5. QED
        BY <2>2, <3>4
    <2>4. CASE k # 0
      <3>1. PICK r \in Seq(Seq(X)), y \in Seq(X) : q = Append(r, y) /\ Len(r) \in Nat /\ Len(r) < Len(q)
        BY <2>2, <2>4, IsAppended
      <3>2. P(r)
        BY <2>1, <2>2, <3>1
      <3>3. FlattenSeq(q) = FlattenSeq(r) \o y
        BY <3>1, FlattenAppend
      <3>4. FlattenSeq(q) \in Seq(X) /\ ToSet(FlattenSeq(q)) = ToSet(FlattenSeq(r)) \cup ToSet(y)
        BY <3>2, <3>3, InConcat
      <3>5. DOMAIN q = DOMAIN r \cup {Len(r) + 1} /\ q[Len(r) + 1] = y /\ \A i \in DOMAIN r : q[i] = r[i]
        <4>1. DOMAIN r = 1..Len(r) /\ DOMAIN q = 1..(Len(r) + 1)
          BY <3>1, AppendProperties, LenProperties
        <4>2. QED
          BY <3>1, <4>1, AppendProperties
      <3>6. P(q)
        BY <3>2, <3>4, <3>5
      <3>7. QED
        BY <2>2, <3>6
    <2>5. QED
      BY <2>3, <2>4
  <1>2. Len(s) \in Nat
    OBVIOUS
  <1>3. QED
    BY <1>1, <1>2

\* The numbered routes of a subnet are those that are not default routes.
LEMMA RouteFileIs ==
  ASSUME NEW X, NEW s \in Seq(X)
  PROVE  RouteFile(s) \in Seq(X) /\ ToSet(RouteFile(s)) = Others(ToSet(s))
  <1> DEFINE each == [k \in DOMAIN s |-> IF IsDefault(s[k]) THEN <<>> ELSE <<s[k]>>]
  <1>1. \A k \in DOMAIN s : s[k] \in X
    OBVIOUS
  <1>2. \A k \in DOMAIN s : each[k] \in Seq(X) /\ ToSet(each[k]) = IF IsDefault(s[k]) THEN {} ELSE {s[k]}
    BY <1>1 DEF ToSet
  <1>3. DOMAIN s = 1..Len(s) /\ Len(s) \in Nat
    OBVIOUS
  <1>4. each \in Seq(Seq(X)) /\ DOMAIN each = DOMAIN s
    <2>1. each \in [1..Len(s) -> Seq(X)]
      BY <1>2, <1>3
    <2>2. QED
      BY <1>3, <2>1, SeqDef
  <1>5. RouteFile(s) = FlattenSeq(each)
    BY DEF RouteFile
  <1> HIDE DEF each
  <1>6. FlattenSeq(each) \in Seq(X) /\ \A x : x \in ToSet(FlattenSeq(each)) <=> \E k \in DOMAIN s : x \in ToSet(each[k])
    BY <1>4, InFlatten
  <1>7. \A x : x \in ToSet(FlattenSeq(each)) <=> x \in Others(ToSet(s))
    <2>1. \A k \in DOMAIN s : \A x : x \in ToSet(each[k]) <=> x = s[k] /\ ~IsDefault(s[k])
      BY <1>2
    <2>2. \A x : x \in Others(ToSet(s)) <=> \E k \in DOMAIN s : x = s[k] /\ ~IsDefault(s[k])
      BY DEF Others, ToSet
    <2>3. QED
      BY <1>6, <2>1, <2>2
  <1>8. QED
    BY <1>5, <1>6, <1>7

----------------------------------------------------------------------------
(* The subnets of a command say what it says, in version 2 too.             *)

SubnetOf(type, address, gateway, routes) ==
    [type |-> type, address |-> address, gateway |-> gateway, routes |-> routes]
WithRoutes(subnet, routes) == [subnet EXCEPT !.routes = routes]

LEMMA SubnetWithRoutes == \A t, a, g, r, x : WithRoutes(SubnetOf(t, a, g, r), x) = SubnetOf(t, a, g, x)
  BY DEF SubnetOf, WithRoutes

\* A subnet is like another but for the routes.
Alike(s, t) == s.type = t.type /\ s.address = t.address /\ s.gateway = t.gateway

\* What is listed of version 2, before it gets the routes.
LEMMA SubnetTyped ==
  ASSUME NEW t \in SubnetTypes, NEW a \in Address \cup {<<>>}, NEW g \in Address \cup {<<>>}
  PROVE  Subnet(t, a, g) \in SubnetRecord
  <1>1. <<>> \in Seq(Route)
    OBVIOUS
  <1> DEFINE none == <<>>
  <1> HIDE DEF none
  <1>2. [type |-> t, address |-> a, gateway |-> g, routes |-> none] \in SubnetRecord
    BY <1>1 DEF SubnetRecord, none
  <1>3. QED
    BY <1>2 DEF Subnet, none

LEMMA V2DhcpIs ==
  ASSUME NEW key, NEW type \in SubnetTypes
  PROVE  /\ V2Dhcp(key, type) \in Seq(SubnetRecord)
         /\ ToSet(V2Dhcp(key, type)) = IF key = "absent" THEN {} ELSE {Subnet(type, <<>>, <<>>)}
  <1>1. Subnet(type, <<>>, <<>>) \in SubnetRecord
    BY SubnetTyped
  <1> DEFINE e == Subnet(type, <<>>, <<>>)
  <1> HIDE DEF e
  <1>2. <<e>> \in Seq(SubnetRecord) /\ ToSet(<<e>>) = {e} /\ ToSet(<<>>) = {} /\ <<>> \in Seq(SubnetRecord)
    BY <1>1 DEF ToSet, e
  <1>3. QED
    BY <1>2 DEF V2Dhcp, e

\* A gateway, if the address has one, is the one of its family.
LEMMA V2GatewayIs ==
  ASSUME NEW ip \in IpRecord, NEW i \in DOMAIN ip.addresses
  PROVE  /\ V2Gateway(ip, i) \in Address \cup {<<>>}
         /\ V2Gateway(ip, i) # <<>> => V2Gateway(ip, i) \in FamilyGateways(ip, i)
         /\ FirstOfFamily(ip, i) /\ FamilyGateways(ip, i) # {} => V2Gateway(ip, i) \in FamilyGateways(ip, i)
  <1>1. FamilyGateways(ip, i) \subseteq Address
    BY DEF FamilyGateways, ToSet, IpRecord
  <1>2. QED
    BY <1>1 DEF V2Gateway

LEMMA V2ListedIs ==
  ASSUME NEW ip \in IpRecord
  PROVE  /\ V2Listed(ip) \in Seq(SubnetRecord)
         /\ \A s : s \in ToSet(V2Listed(ip)) <=>
              \/ ip.dhcp4 # "absent" /\ s = Subnet("dhcp4", <<>>, <<>>)
              \/ ip.dhcp6 # "absent" /\ s = Subnet("dhcp6", <<>>, <<>>)
              \/ \E i \in DOMAIN ip.addresses : s = Subnet("static", ip.addresses[i], V2Gateway(ip, i))
  <1> DEFINE four == V2Dhcp(ip.dhcp4, "dhcp4")
             six == V2Dhcp(ip.dhcp6, "dhcp6")
             static == V2Static(ip)
  <1>0. "dhcp4" \in SubnetTypes /\ "dhcp6" \in SubnetTypes /\ "static" \in SubnetTypes
    BY DEF SubnetTypes
  <1>1. four \in Seq(SubnetRecord) /\ ToSet(four) = (IF ip.dhcp4 = "absent" THEN {} ELSE {Subnet("dhcp4", <<>>, <<>>)})
    BY V2DhcpIs, <1>0, Zenon
  <1>2. six \in Seq(SubnetRecord) /\ ToSet(six) = (IF ip.dhcp6 = "absent" THEN {} ELSE {Subnet("dhcp6", <<>>, <<>>)})
    BY V2DhcpIs, <1>0, Zenon
  <1>3. static \in Seq(SubnetRecord)
        /\ ToSet(static) = {Subnet("static", ip.addresses[i], V2Gateway(ip, i)) : i \in DOMAIN ip.addresses}
    <2>1. ip.addresses \in Seq(Address)
      BY DEF IpRecord
    <2>2. DOMAIN ip.addresses = 1..Len(ip.addresses) /\ Len(ip.addresses) \in Nat
          /\ \A i \in DOMAIN ip.addresses : ip.addresses[i] \in Address
      BY <2>1
    <2>3. ASSUME NEW i \in DOMAIN ip.addresses
          PROVE  Subnet("static", ip.addresses[i], V2Gateway(ip, i)) \in SubnetRecord
      <3>1. ip.addresses[i] \in Address \cup {<<>>} /\ V2Gateway(ip, i) \in Address \cup {<<>>}
        BY <2>2, V2GatewayIs
      <3>2. QED
        BY <1>0, <3>1, SubnetTyped, Zenon
    <2>4. static \in [1..Len(ip.addresses) -> SubnetRecord]
      BY <2>2, <2>3 DEF V2Static
    <2>5. static \in Seq(SubnetRecord)
      BY <2>2, <2>4, SeqDef
    <2>6. QED
      BY <2>5 DEF V2Static, ToSet
  <1>4. V2Listed(ip) = (four \o six) \o static
    BY DEF V2Listed
  <1> HIDE DEF four, six, static
  <1>5. four \o six \in Seq(SubnetRecord) /\ ToSet(four \o six) = ToSet(four) \cup ToSet(six)
    BY <1>1, <1>2, InConcat
  <1>6. (four \o six) \o static \in Seq(SubnetRecord)
        /\ ToSet((four \o six) \o static) = ToSet(four \o six) \cup ToSet(static)
    <2> DEFINE dhcp == four \o six
    <2> HIDE DEF dhcp
    <2>1. dhcp \in Seq(SubnetRecord)
      BY <1>5 DEF dhcp
    <2>2. dhcp \o static \in Seq(SubnetRecord) /\ ToSet(dhcp \o static) = ToSet(dhcp) \cup ToSet(static)
      BY <1>3, <2>1, InConcat
    <2>3. QED
      BY <2>2 DEF dhcp
  <1>7. QED
    BY <1>1, <1>2, <1>3, <1>4, <1>5, <1>6

\* The subnets are those listed, and the first has the routes.
LEMMA V2SubnetsAre ==
  ASSUME NEW ip \in IpRecord
  PROVE  /\ V2Subnets(ip) \in Seq(SubnetRecord)
         /\ DOMAIN V2Subnets(ip) = DOMAIN V2Listed(ip)
         /\ \A i \in DOMAIN V2Listed(ip) : /\ Alike(V2Subnets(ip)[i], V2Listed(ip)[i])
                                          /\ V2Subnets(ip)[i].routes = IF i = 1 THEN ip.routes ELSE <<>>
  <1> DEFINE all == V2Listed(ip)
             ss == V2Subnets(ip)
  <1>1. all \in Seq(SubnetRecord) /\ DOMAIN all = 1..Len(all) /\ Len(all) \in Nat
    BY V2ListedIs
  <1>2. ASSUME NEW i \in DOMAIN all
        PROVE  all[i] \in SubnetRecord /\ \E t, a, g : all[i] = SubnetOf(t, a, g, <<>>)
    <2>1. all[i] \in ToSet(all)
      BY DEF ToSet
    <2>2. all[i] \in SubnetRecord
      BY <1>1
    <2>3. \/ all[i] = Subnet("dhcp4", <<>>, <<>>)
          \/ all[i] = Subnet("dhcp6", <<>>, <<>>)
          \/ \E k \in DOMAIN ip.addresses : all[i] = Subnet("static", ip.addresses[k], V2Gateway(ip, k))
      BY <2>1, V2ListedIs
    <2>4. QED
      BY <2>2, <2>3 DEF Subnet, SubnetOf
  <1> HIDE DEF all
  <1>3. ss = IF all = <<>> THEN <<>> ELSE [all EXCEPT ![1] = WithRoutes(all[1], ip.routes)]
    BY DEF V2Subnets, WithRoutes, all
  <1> HIDE DEF ss
  <1>4. CASE all = <<>>
    BY <1>3, <1>4 DEF all, ss
  <1>5. CASE all # <<>>
    <2>1. 1 \in DOMAIN all
      BY <1>1, <1>5
    <2>2. DOMAIN ss = DOMAIN all /\ ss[1] = WithRoutes(all[1], ip.routes) /\ \A i \in DOMAIN all : i # 1 => ss[i] = all[i]
      BY <1>3, <1>5, <2>1
    <2>3. PICK t, a, g : all[1] = SubnetOf(t, a, g, <<>>)
      BY <1>2, <2>1
    <2>4. ss[1] = SubnetOf(t, a, g, ip.routes)
      <3>1. WithRoutes(SubnetOf(t, a, g, <<>>), ip.routes) = SubnetOf(t, a, g, ip.routes)
        BY SubnetWithRoutes
      <3>2. QED
        BY <2>2, <2>3, <3>1
    <2>5. ss[1] \in SubnetRecord /\ Alike(ss[1], all[1]) /\ ss[1].routes = ip.routes
      <3>1. SubnetOf(t, a, g, <<>>) \in SubnetRecord
        BY <1>2, <2>1, <2>3
      <3>2. ip.routes \in Seq(Route)
        BY DEF IpRecord
      <3>3. QED
        BY <2>3, <2>4, <3>1, <3>2 DEF SubnetOf, SubnetRecord, Alike
    <2>6. ASSUME NEW i \in DOMAIN all, i # 1
          PROVE  ss[i] \in SubnetRecord /\ Alike(ss[i], all[i]) /\ ss[i].routes = <<>>
      BY <1>2, <2>2, <2>6 DEF Alike, SubnetOf
    <2>7. ss \in Seq(SubnetRecord)
      <3>1. ss \in [1..Len(all) -> SubnetRecord]
        <4>1. \A i \in 1..Len(all) : ss[i] \in SubnetRecord
          BY <1>1, <2>5, <2>6
        <4>2. ss = [i \in 1..Len(all) |-> IF i = 1 THEN WithRoutes(all[1], ip.routes) ELSE all[i]]
          BY <1>1, <1>3, <1>5
        <4>3. QED
          BY <4>1, <4>2
      <3>2. QED
        BY <1>1, <3>1, SeqDef
    <2>8. QED
      BY <2>2, <2>5, <2>6, <2>7 DEF all, ss
  <1>6. QED
    BY <1>4, <1>5

\* What a command says, its subnets say.
Says(version, c) ==
    LET ss == SubnetsOf(version, c)
    IN  /\ ss \in Seq(SubnetRecord)
        /\ \A s \in ToSet(ss) : s.type = "static" <=> s.address # <<>>
        /\ version = 2 => \A s \in ToSet(ss) : s.type # "static" => s.gateway = <<>>
        /\ {DhcpFamily(s.type) : s \in {t \in ToSet(ss) : Dhcp(t.type)}} = DhcpOf(version, c)
        /\ Words({s.address : s \in ToSet(ss)}) = Addresses(version, c)
        /\ Vias(RoutesIn(ToSet(ss))) \cup Words({s.gateway : s \in ToSet(ss)}) = GatewaysOf(version, c)
        /\ RoutesIn(ToSet(ss)) = Routes(version, c)
        /\ \A r \in Routes(version, c) : r \in Route

\* What the subnets of version 2 are.
LEMMA V2Are ==
  ASSUME NEW ip \in IpRecord
  PROVE  LET S == ToSet(V2Subnets(ip))
         IN  /\ \A s \in S :
                  \/ ip.dhcp4 # "absent" /\ s.type = "dhcp4" /\ s.address = <<>> /\ s.gateway = <<>>
                  \/ ip.dhcp6 # "absent" /\ s.type = "dhcp6" /\ s.address = <<>> /\ s.gateway = <<>>
                  \/ \E i \in DOMAIN ip.addresses :
                       s.type = "static" /\ s.address = ip.addresses[i] /\ s.gateway = V2Gateway(ip, i)
             /\ ip.dhcp4 # "absent" => \E s \in S : s.type = "dhcp4"
             /\ ip.dhcp6 # "absent" => \E s \in S : s.type = "dhcp6"
             /\ \A i \in DOMAIN ip.addresses :
                  \E s \in S : s.address = ip.addresses[i] /\ s.gateway = V2Gateway(ip, i)
  <1> DEFINE S == ToSet(V2Subnets(ip))
             L == ToSet(V2Listed(ip))
  <1>1. \A s \in S : \E p \in L : Alike(s, p)
    BY V2SubnetsAre DEF ToSet
  <1>2. \A p \in L : \E s \in S : Alike(s, p)
    BY V2SubnetsAre DEF ToSet
  <1>3. \A p : p \in L <=> \/ ip.dhcp4 # "absent" /\ p = Subnet("dhcp4", <<>>, <<>>)
                           \/ ip.dhcp6 # "absent" /\ p = Subnet("dhcp6", <<>>, <<>>)
                           \/ \E i \in DOMAIN ip.addresses : p = Subnet("static", ip.addresses[i], V2Gateway(ip, i))
    BY V2ListedIs
  <1>4. \A t, a, g : Subnet(t, a, g).type = t /\ Subnet(t, a, g).address = a /\ Subnet(t, a, g).gateway = g
    BY DEF Subnet
  <1> HIDE DEF S, L
  <1>5. ASSUME NEW s \in S
        PROVE  \/ ip.dhcp4 # "absent" /\ s.type = "dhcp4" /\ s.address = <<>> /\ s.gateway = <<>>
               \/ ip.dhcp6 # "absent" /\ s.type = "dhcp6" /\ s.address = <<>> /\ s.gateway = <<>>
               \/ \E i \in DOMAIN ip.addresses :
                    s.type = "static" /\ s.address = ip.addresses[i] /\ s.gateway = V2Gateway(ip, i)
    <2>1. PICK p \in L : Alike(s, p)
      BY <1>1
    <2>2. CASE ip.dhcp4 # "absent" /\ p = Subnet("dhcp4", <<>>, <<>>)
      BY <1>4, <2>1, <2>2 DEF Alike
    <2>3. CASE ip.dhcp6 # "absent" /\ p = Subnet("dhcp6", <<>>, <<>>)
      BY <1>4, <2>1, <2>3 DEF Alike
    <2>4. CASE \E i \in DOMAIN ip.addresses : p = Subnet("static", ip.addresses[i], V2Gateway(ip, i))
      BY <1>4, <2>1, <2>4 DEF Alike
    <2>5. QED
      BY <1>3, <2>2, <2>3, <2>4
  <1>6. ip.dhcp4 # "absent" => \E s \in S : s.type = "dhcp4"
    BY <1>2, <1>3, <1>4 DEF Alike
  <1>7. ip.dhcp6 # "absent" => \E s \in S : s.type = "dhcp6"
    BY <1>2, <1>3, <1>4 DEF Alike
  <1>8. \A i \in DOMAIN ip.addresses : \E s \in S : s.address = ip.addresses[i] /\ s.gateway = V2Gateway(ip, i)
    BY <1>2, <1>3, <1>4 DEF Alike
  <1>9. QED
    BY <1>5, <1>6, <1>7, <1>8 DEF S

\* Every gateway of version 2 is that of a subnet, if it has an address of its family.
LEMMA V2GatewaysAre ==
  ASSUME NEW ip \in IpRecord, NEW g \in ToSet(ip.gateways),
         \A h \in ToSet(ip.gateways) : g[1] = h[1] => g = h,
         g[1] \in {a[1] : a \in ToSet(ip.addresses)}
  PROVE  \E i \in DOMAIN ip.addresses : V2Gateway(ip, i) = g
  <1>1. DOMAIN ip.addresses \subseteq Nat /\ \A i \in DOMAIN ip.addresses : \A j \in 1..(i - 1) : j \in DOMAIN ip.addresses
    <2>1. ip.addresses \in Seq(Address)
      BY DEF IpRecord
    <2>2. DOMAIN ip.addresses = 1..Len(ip.addresses) /\ Len(ip.addresses) \in Nat
      BY <2>1
    <2>3. QED
      BY <2>2
  <1> DEFINE T == {i \in Nat : i \in DOMAIN ip.addresses /\ ip.addresses[i][1] = g[1]}
  <1>2. T # {}
    BY <1>1 DEF ToSet
  <1>3. PICK i \in T : \A j \in Nat : j < i => j \notin T
    BY <1>2, Smallest
  <1>4. FirstOfFamily(ip, i)
    BY <1>1, <1>3 DEF FirstOfFamily
  <1>5. g \in FamilyGateways(ip, i)
    BY <1>3 DEF FamilyGateways
  <1>6. V2Gateway(ip, i) \in FamilyGateways(ip, i)
    BY <1>3, <1>4, <1>5, V2GatewayIs
  <1>7. V2Gateway(ip, i) = g
    BY <1>3, <1>6 DEF FamilyGateways
  <1>8. QED
    BY <1>3, <1>7

\* The devices are as the assumption says.
Shaped(version, c) ==
    /\ c.subnets \in Seq(SubnetRecord)
    /\ \A s \in ToSet(c.subnets) : s.type = "static" <=> s.address # <<>>
    /\ version = 2 => c.ip \in IpRecord /\ \A g, h \in ToSet(c.ip.gateways) : g[1] = h[1] => g = h

LEMMA V1Says ==
  ASSUME NEW version, version # 2, NEW c, Shaped(version, c)
  PROVE  Says(version, c)
  <1>1. SubnetsOf(version, c) = c.subnets
    BY DEF SubnetsOf
  <1>2. \A s \in ToSet(c.subnets) : s.routes \in Seq(Route)
    <2>1. \A s \in ToSet(c.subnets) : s \in SubnetRecord
      BY DEF Shaped, ToSet
    <2>2. QED
      BY <2>1 DEF SubnetRecord
  <1>3. \A r \in RoutesIn(ToSet(c.subnets)) : r \in Route
    BY <1>2 DEF RoutesIn, ToSet
  <1>4. QED
    BY <1>1, <1>3 DEF Says, Shaped, DhcpOf, Addresses, GatewaysOf, Routes

LEMMA AddressIs == \A a \in Address : a # <<>>
  BY DEF Address

LEMMA V2Says ==
  ASSUME NEW version, version = 2, NEW c, Shaped(version, c), InTheTable(version, c)
  PROVE  Says(version, c)
  <1> DEFINE ip == c.ip
             ss == V2Subnets(ip)
             S == ToSet(ss)
  <1>0. ip \in IpRecord /\ (\A g, h \in ToSet(ip.gateways) : g[1] = h[1] => g = h) /\ SubnetsOf(version, c) = ss
    BY DEF Shaped, SubnetsOf
  <1>1. ss \in Seq(SubnetRecord)
    BY <1>0, V2SubnetsAre
  <1>2. \A s \in S : \/ ip.dhcp4 # "absent" /\ s.type = "dhcp4" /\ s.address = <<>> /\ s.gateway = <<>>
                     \/ ip.dhcp6 # "absent" /\ s.type = "dhcp6" /\ s.address = <<>> /\ s.gateway = <<>>
                     \/ \E i \in DOMAIN ip.addresses :
                          s.type = "static" /\ s.address = ip.addresses[i] /\ s.gateway = V2Gateway(ip, i)
    BY <1>0, V2Are
  <1>3. /\ ip.dhcp4 # "absent" => \E s \in S : s.type = "dhcp4"
        /\ ip.dhcp6 # "absent" => \E s \in S : s.type = "dhcp6"
        /\ \A i \in DOMAIN ip.addresses : \E s \in S : s.address = ip.addresses[i] /\ s.gateway = V2Gateway(ip, i)
    BY <1>0, V2Are
  <1>4. \A i \in DOMAIN ip.addresses : ip.addresses[i] \in Address /\ ip.addresses[i] # <<>>
    <2>1. ip.addresses \in Seq(Address)
      BY <1>0 DEF IpRecord
    <2>2. QED
      BY <2>1, AddressIs
  <1>5. /\ ip.dhcp4 # "absent" <=> ip.dhcp4 = "true"
        /\ ip.dhcp6 # "absent" <=> ip.dhcp6 = "true"
    BY <1>0 DEF InTheTable, IpRecord
  <1>6. \A g \in ToSet(ip.gateways) : g \in Address /\ g # <<>>
    <2>1. ip.gateways \in Seq(Address)
      BY <1>0 DEF IpRecord
    <2>2. QED
      BY <2>1, AddressIs DEF ToSet
  <1>7. RoutesIn(S) = ToSet(ip.routes)
    <2>1. DOMAIN ss = DOMAIN V2Listed(ip) /\ \A i \in DOMAIN ss : ss[i].routes = IF i = 1 THEN ip.routes ELSE <<>>
      BY <1>0, V2SubnetsAre
    <2>2. ToSet(<<>>) = {}
      BY DEF ToSet
    <2>3. CASE ss = <<>>
      <3>1. ip.routes = <<>>
        BY <2>3 DEF InTheTable
      <3>2. S = {}
        BY <2>3 DEF ToSet
      <3>3. QED
        BY <2>2, <3>1, <3>2 DEF RoutesIn
    <2>4. CASE ss # <<>>
      <3>1. 1 \in DOMAIN ss
        BY <1>1, <2>4
      <3>2. \A s \in S : \E i \in DOMAIN ss : s = ss[i]
        BY DEF ToSet
      <3>3. ss[1] \in S /\ ss[1].routes = ip.routes
        BY <2>1, <3>1 DEF ToSet
      <3> HIDE DEF S, ss, ip
      <3>4. \A s \in S : s.routes = ip.routes \/ s.routes = <<>>
        BY <2>1, <3>2
      <3>5. QED
        BY <2>2, <3>3, <3>4 DEF RoutesIn
    <2>5. QED
      BY <2>3, <2>4
  <1> HIDE DEF S, ss
  <1>8. \A s \in S : s.type = "static" <=> s.address # <<>>
    BY <1>2, <1>4
  <1>9. \A s \in S : s.type # "static" => s.gateway = <<>>
    BY <1>2
  <1>10. {DhcpFamily(s.type) : s \in {t \in S : Dhcp(t.type)}} = DhcpOf(version, c)
    <2>1. \A s \in S : s.type \in {"dhcp4", "dhcp6", "static"}
      BY <1>2
    <2>2. (\E s \in S : s.type = "dhcp4") <=> ip.dhcp4 = "true"
      BY <1>2, <1>3, <1>5
    <2>3. (\E s \in S : s.type = "dhcp6") <=> ip.dhcp6 = "true"
      BY <1>2, <1>3, <1>5
    <2>4. \A f : f \in {DhcpFamily(s.type) : s \in {t \in S : Dhcp(t.type)}}
                 <=> \/ f = 4 /\ \E s \in S : s.type = "dhcp4"
                     \/ f = 6 /\ \E s \in S : s.type = "dhcp6"
      BY <2>1 DEF Dhcp, DhcpFamily
    <2>5. \A f : f \in DhcpOf(version, c) <=> \/ f = 4 /\ ip.dhcp4 = "true"
                                              \/ f = 6 /\ ip.dhcp6 = "true"
      BY DEF DhcpOf
    <2>6. QED
      BY <2>2, <2>3, <2>4, <2>5
  <1>11. Words({s.address : s \in S}) = Addresses(version, c)
    <2>1. \A a : a \in Words({s.address : s \in S}) <=> a # <<>> /\ \E s \in S : a = s.address
      BY DEF Words
    <2>2. \A a : a \in Addresses(version, c) <=> \E i \in DOMAIN ip.addresses : a = ip.addresses[i]
      BY DEF Addresses, ToSet
    <2>3. ASSUME NEW s \in S, s.address # <<>> PROVE \E i \in DOMAIN ip.addresses : s.address = ip.addresses[i]
      BY <1>2, <2>3
    <2>4. \A i \in DOMAIN ip.addresses : ip.addresses[i] # <<>> /\ \E s \in S : ip.addresses[i] = s.address
      BY <1>3, <1>4
    <2> HIDE DEF ip
    <2>5. \A a : a \in Words({s.address : s \in S}) <=> a \in Addresses(version, c)
      BY <2>1, <2>2, <2>3, <2>4
    <2>6. QED
      BY <2>5
  <1>12. Words({s.gateway : s \in S}) = ToSet(ip.gateways)
    <2>1. \A a : a \in Words({s.gateway : s \in S}) <=> a # <<>> /\ \E s \in S : a = s.gateway
      BY DEF Words
    <2>2. ASSUME NEW s \in S, s.gateway # <<>> PROVE s.gateway \in ToSet(ip.gateways)
      <3>1. PICK i \in DOMAIN ip.addresses : s.gateway = V2Gateway(ip, i)
        BY <1>2, <2>2
      <3>2. QED
        BY <1>0, <2>2, <3>1, V2GatewayIs DEF FamilyGateways
    <2>3. ASSUME NEW g \in ToSet(ip.gateways) PROVE \E s \in S : g = s.gateway
      <3>1. g[1] \in {a[1] : a \in ToSet(ip.addresses)}
        BY DEF InTheTable
      <3>2. PICK i \in DOMAIN ip.addresses : V2Gateway(ip, i) = g
        BY <1>0, <3>1, V2GatewaysAre
      <3>3. QED
        BY <1>3, <3>2
    <2>4. \A a : a \in Words({s.gateway : s \in S}) <=> a \in ToSet(ip.gateways)
      BY <1>6, <2>1, <2>2, <2>3
    <2>5. QED
      BY <2>4
  <1>13. Routes(version, c) = ToSet(ip.routes) /\ GatewaysOf(version, c) = Vias(ToSet(ip.routes)) \cup ToSet(ip.gateways)
    BY DEF Routes, GatewaysOf
  <1>14. \A r \in ToSet(ip.routes) : r \in Route
    <2>1. ip.routes \in Seq(Route)
      BY <1>0 DEF IpRecord
    <2>2. QED
      BY <2>1 DEF ToSet
  <1>15. QED
    BY <1>0, <1>1, <1>7, <1>8, <1>9, <1>10, <1>11, <1>12, <1>13, <1>14 DEF Says, S

\* The gateway written last for a family is the only one.
LEMMA LastGatewaysAre ==
  ASSUME NEW ss \in Seq(SubnetRecord),
         \A s \in ToSet(ss) : s.type # "static" => s.gateway = <<>>,
         \A s, t \in ToSet(ss) : s.gateway # <<>> /\ t.gateway # <<>> /\ s.gateway[1] = t.gateway[1]
            => s.gateway = t.gateway
  PROVE  LastGateways(ss) = Words({s.gateway : s \in ToSet(ss)})
  <1> DEFINE n == Len(ss)
             has(k) == ss[k].type = "static" /\ ss[k].gateway # <<>>
  <1>1. n \in Nat /\ DOMAIN ss = 1..n
    OBVIOUS
  <1>2. \A k \in 1..n : ss[k] \in ToSet(ss) /\ (ss[k].gateway # <<>> => has(k))
    BY <1>1 DEF ToSet
  <1>3. \A g : g \in Words({s.gateway : s \in ToSet(ss)}) <=> \E k \in 1..n : ss[k].gateway = g /\ g # <<>>
    BY <1>1 DEF Words, ToSet
  <1>4. \A g : g \in LastGateways(ss) <=>
          \E k \in 1..n : /\ ss[k].gateway = g /\ has(k)
                          /\ \A l \in (k + 1)..n : has(l) => ss[l].gateway[1] # ss[k].gateway[1]
    BY <1>1 DEF LastGateways
  <1> HIDE DEF n
  <1>5. ASSUME NEW k \in 1..n, ss[k].gateway # <<>> PROVE ss[k].gateway \in LastGateways(ss)
    <2> DEFINE same(l) == has(l) /\ ss[l].gateway[1] = ss[k].gateway[1]
               T == {d \in Nat : n - d \in 1..n /\ same(n - d)}
    <2>1. n - k \in T
      BY <1>1, <1>2, <1>5
    <2>2. PICK d \in T : \A m \in Nat : m < d => m \notin T
      BY <2>1, Smallest
    <2> DEFINE l == n - d
    <2>3. l \in 1..n /\ same(l) /\ l \in Nat
      BY <1>1, <2>2
    <2>4. ASSUME NEW j \in (l + 1)..n, same(j) PROVE FALSE
      <3>1. n - j \in Nat /\ n - j < d /\ n - (n - j) = j /\ j \in 1..n
        BY <1>1, <2>2, <2>3
      <3>2. n - j \in T
        BY <2>4, <3>1
      <3>3. QED
        BY <2>2, <3>1, <3>2
    <2>5. ss[l].gateway = ss[k].gateway
      BY <1>2, <1>5, <2>3
    <2>6. \A j \in (l + 1)..n : has(j) => ss[j].gateway[1] # ss[l].gateway[1]
      BY <2>3, <2>4
    <2>7. has(l)
      BY <2>3
    <2> HIDE DEF l, has
    <2>8. QED
      BY <1>4, <2>3, <2>5, <2>6, <2>7
  <1>6. \A g : g \in LastGateways(ss) <=> g \in Words({s.gateway : s \in ToSet(ss)})
    BY <1>3, <1>4, <1>5
  <1>7. QED
    BY <1>6

----------------------------------------------------------------------------
(* What a renderer writes of an interface is what is meant.                 *)

\* The table has what the command of an interface says.
Tabled(made, n, c) ==
    /\ NameOf(n.version, c) \in DOMAIN made
    /\ made[NameOf(n.version, c)] = Row(c.kind, SubnetsOf(n.version, c),
         MasterIn(Complete(n.devices), NameOf(n.version, c)), Ports(c), LinkOf(c))

LEMMA RowIs ==
  ASSUME NEW t, NEW s, NEW m, NEW p, NEW l
  PROVE  /\ Row(t, s, m, p, l).type = t /\ Row(t, s, m, p, l).subnets = s /\ Row(t, s, m, p, l).master = m
         /\ Row(t, s, m, p, l).ports = p /\ Row(t, s, m, p, l).link = l
  BY DEF Row

LEMMA TabledIs ==
  ASSUME NEW made, NEW n, NEW c, Tabled(made, n, c)
  PROVE  LET row == made[NameOf(n.version, c)]
         IN  /\ row.type = c.kind /\ row.subnets = SubnetsOf(n.version, c)
             /\ row.master = MasterIn(Complete(n.devices), NameOf(n.version, c))
             /\ row.ports = Ports(c) /\ row.link = LinkOf(c)
  BY RowIs DEF Tabled

\* A slave is that of a bond which the table has.
LEMMA SlaveIs ==
  ASSUME NEW made, NEW n, \A d \in Complete(n.devices) : Tabled(made, n, d), NEW c \in Complete(n.devices)
  PROVE  SlaveOf(made, NameOf(n.version, c)) = MasterIn(Complete(n.devices), NameOf(n.version, c))
  <1> DEFINE name == NameOf(n.version, c)
             m == MasterIn(Complete(n.devices), name)
             names == {d.name : d \in {e \in Bonds(Complete(n.devices)) : name \in e.members}}
  <1>1. SlaveOf(made, name) = IF Get(made, m).type = "bond" THEN m ELSE ""
    <2>1. made[name].master = m
      BY TabledIs
    <2>2. QED
      BY <2>1 DEF SlaveOf
  <1>2. m = IF names = {} THEN "" ELSE CHOOSE b \in names : TRUE
    BY DEF MasterIn
  <1>3. CASE names = {}
    BY <1>1, <1>2, <1>3
  <1>4. CASE names # {}
    <2>1. m \in names
      BY <1>2, <1>4
    <2> HIDE DEF m
    <2>2. PICK d \in Bonds(Complete(n.devices)) : m = d.name
      BY <2>1
    <2>3. d \in Complete(n.devices) /\ d.kind = "bond" /\ NameOf(n.version, d) = d.name
      BY DEF Bonds, NameOf
    <2>4. m \in DOMAIN made /\ made[m].type = "bond"
      BY <2>2, <2>3, TabledIs DEF Tabled
    <2>5. Get(made, m).type = "bond"
      BY <2>4 DEF Get
    <2>6. QED
      BY <1>1, <2>5 DEF m
  <1>5. QED
    BY <1>3, <1>4

\* Where nobody lists what set-name renames, ids are names.
LEMMA IdsMeant ==
  ASSUME NEW n, NEW c \in Complete(n.devices), IdsAreNames(n, c)
  PROVE  /\ MasterIn(Complete(n.devices), c.name) = MasterIn(Complete(n.devices), NameOf(n.version, c))
         /\ {NameOfId(n, id) : id \in Ports(c)} = Ports(c)
         /\ (IF c.kind = "vlan" THEN NameOfId(n, c.link) ELSE "") = LinkOf(c)
  <1> DEFINE all == Complete(n.devices)
             name(d) == NameOf(n.version, d)
  <1>1. \A d, e \in all : name(d) # d.name /\ c \in {d, e}
           => d.name \notin e.members /\ name(d) \notin e.members /\ d.name # e.link
    BY Zenon DEF IdsAreNames
  <1>2. MasterIn(all, c.name) = MasterIn(all, name(c))
    <2>1. CASE name(c) = c.name
      BY <2>1
    <2>2. CASE name(c) # c.name
      <3> HIDE DEF name, all
      <3>1. \A e \in Bonds(all) : c.name \notin e.members /\ name(c) \notin e.members
        BY <1>1, <2>2 DEF Bonds, all
      <3>2. QED
        BY <3>1, NoMaster
    <2>3. QED
      BY <2>1, <2>2
  <1>3. ASSUME NEW id, id \in c.members \/ id = c.link
        PROVE  NameOfId(n, id) = id
    <2> DEFINE names == {name(d) : d \in {e \in all : e.name = id}}
    <2>1. NameOfId(n, id) = IF names = {} THEN id ELSE CHOOSE x \in names : TRUE
      BY DEF NameOfId
    <2>2. \A x \in names : x = id
      BY <1>1, <1>3
    <2> HIDE DEF names
    <2>3. QED
      BY <2>1, <2>2
  <1>4. {NameOfId(n, id) : id \in Ports(c)} = Ports(c)
    BY <1>3 DEF Ports
  <1>5. (IF c.kind = "vlan" THEN NameOfId(n, c.link) ELSE "") = LinkOf(c)
    BY <1>3 DEF LinkOf
  <1>6. QED
    BY <1>2, <1>4, <1>5

\* The files of an interface, from its fields.
LEMMA MeantIs ==
  ASSUME NEW n, NEW c \in Complete(n.devices), IdsAreNames(n, c), NEW dhcp, NEW addresses, NEW gateways, NEW routes, NEW kind, NEW master, NEW ports, NEW link,
         dhcp = DhcpOf(n.version, c), addresses = Addresses(n.version, c), gateways = GatewaysOf(n.version, c),
         routes = Others(Routes(n.version, c)), kind = c.kind,
         master = MasterIn(Complete(n.devices), NameOf(n.version, c)), ports = Ports(c), link = LinkOf(c)
  PROVE  [dhcp |-> dhcp, addresses |-> addresses, gateways |-> gateways, routes |-> routes, kind |-> kind,
          master |-> master, ports |-> ports, link |-> link] = Meant(n, c)
  BY IdsMeant, Zenon DEF Meant

\* A route to a network of IPv4 is written as it is.
LEMMA RouteIs ==
  ASSUME NEW r \in Route, r.to[1] = 4
  PROVE  [r EXCEPT !.to = <<4, @[2]>>] = r
  <1>1. r = [to |-> r.to, via |-> r.via, masked |-> r.masked] /\ r.to \in Address
    BY DEF Route
  <1>2. r.to = <<r.to[1], r.to[2]>>
    BY <1>1 DEF Address
  <1>3. [r EXCEPT !.to = <<4, r.to[2]>>] = [r EXCEPT !.to = r.to]
    BY <1>2
  <1>4. QED
    BY <1>1, <1>3

LEMMA EniIs ==
  ASSUME NEW made, NEW n, NEW c \in Complete(n.devices), Tabled(made, n, c), Says(n.version, c),
         Writable(n.version, "eni", c), IdsAreNames(n, c)
  PROVE  Eni(made, NameOf(n.version, c)) = Meant(n, c)
  <1> DEFINE name == NameOf(n.version, c)
             S == ToSet(made[name].subnets)
             routes == {[r EXCEPT !.to = <<4, @[2]>>] : r \in Others(RoutesIn(S))}
             gateways == Words({s.gateway : s \in S}) \cup Vias(RoutesIn(S))
             dhcp == {DhcpFamily(s.type) : s \in {t \in S : Dhcp(t.type)}}
             addresses == Words({s.address : s \in S})
  <1>1. made[name].subnets = SubnetsOf(n.version, c)
    BY TabledIs
  <1>2. dhcp = DhcpOf(n.version, c) /\ addresses = Addresses(n.version, c)
    BY <1>1, Zenon DEF Says
  <1>3. RoutesIn(S) = Routes(n.version, c) /\ \A r \in Routes(n.version, c) : r \in Route
    BY <1>1 DEF Says
  <1>4. gateways = GatewaysOf(n.version, c)
    <2>1. Vias(RoutesIn(S)) \cup Words({s.gateway : s \in S}) = GatewaysOf(n.version, c)
      BY <1>1 DEF Says
    <2>2. QED
      BY <2>1
  <1>5. routes = Others(Routes(n.version, c))
    <2>1. \A r \in Others(RoutesIn(S)) : r \in Route /\ r.to[1] = 4
      BY <1>3 DEF Writable, Others
    <2>2. \A r \in Others(RoutesIn(S)) : [r EXCEPT !.to = <<4, @[2]>>] = r
      BY <2>1, RouteIs
    <2> HIDE DEF S
    <2>3. routes = Others(RoutesIn(S))
      BY <2>2
    <2>4. QED
      BY <1>3, <2>3
  <1>6. Eni(made, name) = [dhcp |-> dhcp, addresses |-> addresses, gateways |-> gateways, routes |-> routes,
                             kind |-> made[name].type, master |-> made[name].master,
                             ports |-> made[name].ports, link |-> made[name].link]
    BY Zenon DEF Eni
  <1> HIDE DEF dhcp, addresses, gateways, routes
  <1>7. QED
    BY <1>2, <1>4, <1>5, <1>6, TabledIs, MeantIs

\* At most one gateway of a family, so the last is the only one.
LEMMA OnlyGateways ==
  ASSUME NEW n, NEW c, Says(n.version, c), OneGateway(n.version, c),
         \A s \in ToSet(SubnetsOf(n.version, c)) : s.type # "static" => s.gateway = <<>>
  PROVE  LastGateways(SubnetsOf(n.version, c)) = Words({s.gateway : s \in ToSet(SubnetsOf(n.version, c))})
  <1> DEFINE ss == SubnetsOf(n.version, c)
  <1>1. ss \in Seq(SubnetRecord)
    BY DEF Says
  <1>2. \A s \in ToSet(ss) : s.gateway # <<>> => s.gateway \in GatewaysOf(n.version, c)
    BY DEF Says, Words
  <1>3. \A s, t \in ToSet(ss) : s.gateway # <<>> /\ t.gateway # <<>> /\ s.gateway[1] = t.gateway[1]
           => s.gateway = t.gateway
    BY <1>2 DEF OneGateway
  <1> HIDE DEF ss
  <1>4. QED
    BY <1>1, <1>3, LastGatewaysAre DEF ss

LEMMA NetplanIs ==
  ASSUME NEW made, NEW n, n.version # 2, NEW c \in Complete(n.devices), \A d \in Complete(n.devices) : Tabled(made, n, d),
         Says(n.version, c), Writable(n.version, "netplan", c), IdsAreNames(n, c)
  PROVE  Netplan(made, NameOf(n.version, c)) = Meant(n, c)
  <1> DEFINE name == NameOf(n.version, c)
             ss == made[name].subnets
             S == ToSet(ss)
             static == {s \in S : s.type = "static"}
             dhcp == {DhcpFamily(s.type) : s \in {t \in S : Dhcp(t.type)}}
             addresses == {s.address : s \in static}
             gateways == LastGateways(ss) \cup Vias(RoutesIn(static))
             routes == Others(RoutesIn(static))
  <1>1. ss = SubnetsOf(n.version, c) /\ ss = c.subnets
    BY TabledIs DEF SubnetsOf
  <1>2. dhcp = DhcpOf(n.version, c)
    BY <1>1, Zenon DEF Says
  <1>3. \A s \in S : s.type # "static" => s.routes = <<>> /\ s.gateway = <<>>
    BY <1>1 DEF Writable
  <1>4. OneGateway(n.version, c)
    BY DEF Writable
  <1>5. addresses = Addresses(n.version, c)
    <2>1. \A s \in S : s.type = "static" <=> s.address # <<>>
      BY <1>1 DEF Says
    <2>2. Words({s.address : s \in S}) = Addresses(n.version, c)
      BY <1>1 DEF Says
    <2> HIDE DEF S
    <2>3. \A a : a \in addresses <=> a \in Words({s.address : s \in S})
      BY <2>1 DEF Words
    <2>4. QED
      BY <2>2, <2>3
  <1>6. RoutesIn(static) = Routes(n.version, c)
    <2>1. RoutesIn(S) = Routes(n.version, c)
      BY <1>1 DEF Says
    <2>2. ToSet(<<>>) = {}
      BY DEF ToSet
    <2> HIDE DEF S
    <2>3. \A r : r \in RoutesIn(static) <=> r \in RoutesIn(S)
      BY <1>3, <2>2 DEF RoutesIn
    <2>4. QED
      BY <2>1, <2>3
  <1>7. gateways = GatewaysOf(n.version, c)
    <2>1. LastGateways(ss) = Words({s.gateway : s \in S})
      BY <1>1, <1>3, <1>4, OnlyGateways
    <2>2. Vias(RoutesIn(S)) \cup Words({s.gateway : s \in S}) = GatewaysOf(n.version, c) /\ RoutesIn(S) = Routes(n.version, c)
      BY <1>1 DEF Says
    <2> HIDE DEF static
    <2>3. QED
      BY <1>6, <2>1, <2>2
  <1>8. routes = Others(Routes(n.version, c))
    BY <1>6
  <1>9. Netplan(made, name) = [dhcp |-> dhcp, addresses |-> addresses, gateways |-> gateways, routes |-> routes,
                                 kind |-> made[name].type, master |-> SlaveOf(made, name),
                                 ports |-> made[name].ports, link |-> made[name].link]
    BY Zenon DEF Netplan
  <1>10. SlaveOf(made, name) = MasterIn(Complete(n.devices), name)
    BY SlaveIs
  <1> HIDE DEF dhcp, addresses, gateways, routes
  <1>11. QED
    BY <1>2, <1>5, <1>7, <1>8, <1>9, <1>10, TabledIs, MeantIs

LEMMA SysconfigIs ==
  ASSUME NEW made, NEW n, NEW c \in Complete(n.devices), \A d \in Complete(n.devices) : Tabled(made, n, d),
         Says(n.version, c), Writable(n.version, "sysconfig", c), IdsAreNames(n, c)
  PROVE  Sysconfig(made, NameOf(n.version, c), BeforeDot) = Meant(n, c)
  <1> DEFINE name == NameOf(n.version, c)
             ss == made[name].subnets
             S == ToSet(ss)
             static == {s \in S : s.type = "static"}
             addresses == {s.address : s \in static}
             each == [i \in DOMAIN ss |-> ss[i].routes]
             routes == ToSet(RouteFile(FlattenSeq(each)))
  <1>1. ss = SubnetsOf(n.version, c) /\ ss \in Seq(SubnetRecord)
    BY TabledIs DEF Says
  <1>2. \A s \in S : s.type # "static" => s.gateway = <<>>
    BY <1>1 DEF Writable, Says, SubnetsOf
  <1>3. OneGateway(n.version, c) /\ DhcpOf(n.version, c) # {6} /\ (c.kind = "vlan" => BeforeDot[name] = c.link)
    BY DEF Writable, NameOf
  <1>4. addresses = Addresses(n.version, c)
    <2>1. \A s \in S : s.type = "static" <=> s.address # <<>>
      BY <1>1 DEF Says
    <2>2. Words({s.address : s \in S}) = Addresses(n.version, c)
      BY <1>1 DEF Says
    <2> HIDE DEF S
    <2>3. \A a : a \in addresses <=> a \in Words({s.address : s \in S})
      BY <2>1 DEF Words
    <2>4. QED
      BY <2>2, <2>3
  <1>5. BootProto(ss) = DhcpOf(n.version, c)
    <2>1. {DhcpFamily(s.type) : s \in {t \in S : Dhcp(t.type)}} = DhcpOf(n.version, c)
      BY <1>1 DEF Says
    <2> HIDE DEF S
    <2>2. \A f : f \in DhcpOf(n.version, c)
             <=> \E s \in S : /\ s.type \in {"dhcp", "dhcp4", "dhcp6"}
                              /\ f = IF s.type = "dhcp6" THEN 6 ELSE 4
      BY <2>1 DEF Dhcp, DhcpFamily
    <2>3. CASE \E s \in S : s.type = "dhcp6"
      <3>1. 6 \in DhcpOf(n.version, c) /\ \A f \in DhcpOf(n.version, c) : f = 6 \/ f = 4
        BY <2>2, <2>3
      <3>2. DhcpOf(n.version, c) = {4, 6}
        BY <1>3, <3>1
      <3>3. BootProto(ss) = {4, 6}
        BY <2>3 DEF BootProto, S
      <3>4. QED
        BY <3>2, <3>3
    <2>4. CASE ~\E s \in S : s.type = "dhcp6"
      <3>1. BootProto(ss) = {4 : t \in {u \in {s.type : s \in S} : Dhcp(u)}}
        BY <2>4 DEF BootProto, S
      <3>2. \A f : f \in BootProto(ss) <=> f = 4 /\ \E s \in S : s.type \in {"dhcp", "dhcp4", "dhcp6"}
        BY <3>1 DEF Dhcp
      <3>3. \A f : f \in BootProto(ss) <=> f \in DhcpOf(n.version, c)
        BY <2>2, <2>4, <3>2
      <3>4. \A x \in DhcpOf(n.version, c) : x \in BootProto(ss)
        BY <3>3
      <3>5. QED
        BY <3>1, <3>3 DEF DhcpOf
    <2>5. QED
      BY <2>3, <2>4
  <1>6. RoutesIn(S) = Routes(n.version, c)
    BY <1>1 DEF Says
  <1>7. IfcfgGateways(ss) = GatewaysOf(n.version, c)
    <2> DEFINE vias == Vias(RoutesIn(S))
               words == Words({s.gateway : s \in S})
    <2>1. LastGateways(ss) = words
      BY <1>1, <1>2, <1>3, OnlyGateways
    <2>2. vias \cup words = GatewaysOf(n.version, c)
      BY <1>1 DEF Says
    <2>3. IfcfgGateways(ss) = vias \cup {g \in LastGateways(ss) : \A v \in vias : v[1] # g[1]}
      BY DEF IfcfgGateways
    <2> HIDE DEF vias, words
    <2>4. \A g \in words : g \in vias \/ \A v \in vias : v[1] # g[1]
      BY <1>3, <2>2 DEF OneGateway
    <2>5. QED
      BY <2>1, <2>2, <2>3, <2>4
  <1>8. routes = Others(Routes(n.version, c))
    <2>1. DOMAIN ss = 1..Len(ss) /\ Len(ss) \in Nat /\ \A i \in DOMAIN ss : ss[i] \in SubnetRecord
      BY <1>1
    <2>2. \A i \in DOMAIN ss : ss[i].routes \in Seq(Route)
      BY <2>1 DEF SubnetRecord
    <2>3. each \in Seq(Seq(Route)) /\ DOMAIN each = DOMAIN ss
      <3>1. each \in [1..Len(ss) -> Seq(Route)]
        BY <2>1, <2>2
      <3>2. QED
        BY <2>1, <3>1, SeqDef
    <2>4. \A i \in DOMAIN ss : each[i] = ss[i].routes
      OBVIOUS
    <2> HIDE DEF each
    <2>5. FlattenSeq(each) \in Seq(Route)
          /\ \A x : x \in ToSet(FlattenSeq(each)) <=> \E i \in DOMAIN ss : x \in ToSet(each[i])
      BY <2>3, InFlatten
    <2>6. routes = Others(ToSet(FlattenSeq(each)))
      BY <2>5, RouteFileIs
    <2>7. \A x : x \in RoutesIn(S) <=> \E i \in DOMAIN ss : x \in ToSet(ss[i].routes)
      BY DEF RoutesIn, ToSet
    <2>8. ToSet(FlattenSeq(each)) = RoutesIn(S)
      <3> HIDE DEF S, ss
      <3>1. \A x : x \in ToSet(FlattenSeq(each)) <=> x \in RoutesIn(S)
        BY <2>4, <2>5, <2>7
      <3>2. QED
        BY <3>1
    <2>9. QED
      BY <1>6, <2>6, <2>8
  <1>9. PhysDev(made, name, BeforeDot) = LinkOf(c)
    <2>1. made[name].type = c.kind
      BY TabledIs
    <2>2. QED
      BY <1>3, <2>1 DEF PhysDev, LinkOf
  <1>10. SlaveOf(made, name) = MasterIn(Complete(n.devices), name)
    BY SlaveIs
  <1>11. Sysconfig(made, name, BeforeDot)
           = [dhcp |-> BootProto(ss), addresses |-> addresses, gateways |-> IfcfgGateways(ss), routes |-> routes,
              kind |-> made[name].type, master |-> SlaveOf(made, name),
              ports |-> made[name].ports, link |-> PhysDev(made, name, BeforeDot)]
    <2>1. addresses = {s.address : s \in {t \in ToSet(ss) : t.type = "static"}}
      BY Zenon
    <2>2. QED
      BY <2>1, Zenon DEF Sysconfig
  <1> HIDE DEF addresses, routes
  <1>12. QED
    BY <1>4, <1>5, <1>7, <1>8, <1>9, <1>10, <1>11, TabledIs, MeantIs

\* Whatever is rendered, by the renderer the system has.
LEMMA RenderedIs ==
  ASSUME NetworkInv, todo = {}, table # <<>>, NEW by \in Renderers, Rendered(by).how = "written",
         NEW c \in Devices, Writable(network.version, by, c), IdsAreNames(network, c)
  PROVE  Rendered(by).out[NameOf(network.version, c)] = Meant(network, c)
  <1> DEFINE v == network.version
  <1>1. \A d \in Devices : Tabled(table, network, d)
    <2>1. AnyOrderReadsTheSame /\ \A d \in Devices : NameOf(network.version, d) \in DOMAIN table
      BY TableReadsTheSame
    <2>2. QED
      BY <2>1 DEF AnyOrderReadsTheSame, Tabled, Row, MasterOf, Devices
  <1>2. Shaped(v, c) /\ InTheTable(v, c)
    BY NetworksAssumption DEF NetworkInv, Devices, Shaped, Writable
  <1>3. Says(v, c)
    BY <1>2, V1Says, V2Says
  <1> DEFINE out == [n \in DOMAIN table |-> RenderedDevice(by, n)]
  <1>4. Rendered(by) = [by |-> by, how |-> "written", out |-> out] /\ (by = "netplan" => v # 2)
    BY DEF Rendered
  <1>5. Rendered(by).out[NameOf(v, c)] = RenderedDevice(by, NameOf(v, c))
    BY <1>1, <1>4 DEF Tabled
  <1>6. CASE by = "eni"
    BY <1>1, <1>3, <1>5, <1>6, EniIs DEF RenderedDevice, Devices
  <1>7. CASE by = "sysconfig"
    BY <1>1, <1>3, <1>5, <1>7, SysconfigIs DEF RenderedDevice, Devices
  <1>8. CASE by = "netplan"
    BY <1>1, <1>3, <1>4, <1>5, <1>8, NetplanIs DEF RenderedDevice, Devices
  <1>9. QED
    BY <1>6, <1>7, <1>8 DEF Renderers

\* Who raises, and why.
LEMMA RaisedIs ==
  ASSUME NetworkInv, todo = {}, table # <<>>, NEW by \in Renderers, Rendered(by).how = "raised"
  PROVE  /\ by # "netplan"
         /\ by = "sysconfig" => \E c \in Complete(CommandsOf(network)) :
              \E r \in Others(RoutesIn(ToSet(SubnetsOf(network.version, c)))) : r.to[1] = 6 /\ ~r.masked
  <1> DEFINE v == network.version
             read == Complete(CommandsOf(network))
  <1>1. by # "netplan" /\ Raises(by)
    BY DEF Rendered, Raises
  <1>2. ASSUME by = "sysconfig"
        PROVE  \E c \in read : \E r \in Others(RoutesIn(ToSet(SubnetsOf(v, c)))) : r.to[1] = 6 /\ ~r.masked
    <2>1. TableOf(v, table, read)
      <3>1. CommandsOf(network) \ todo = CommandsOf(network)
        OBVIOUS
      <3>2. QED
        BY <3>1 DEF NetworkInv, ReadInv, Reading
    <2>2. PICK n \in DOMAIN table : \E r \in Others(RoutesIn(ToSet(table[n].subnets))) : r.to[1] = 6 /\ ~r.masked
      BY <1>1, <1>2 DEF Raises, SysconfigRaises
    <2>3. table[n].subnets # <<>>
      <3>1. RoutesIn(ToSet(<<>>)) = {}
        BY DEF RoutesIn, ToSet
      <3>2. QED
        BY <2>2, <3>1 DEF Others
    <2> HIDE DEF read
    <2>4. PICK c \in read : NameOf(v, c) = n
      <3> SUFFICES ASSUME \A c \in read : NameOf(v, c) # n PROVE FALSE
        OBVIOUS
      <3>1. PICK type : table[n] = Member(type, MasterIn(read, n))
        BY <2>1, EntriesOf
      <3>2. QED
        BY <2>3, <3>1 DEF Member, Row, NoSubnets
    <2>5. table[n].subnets = SubnetsOf(v, c)
      BY <2>1, <2>4, EntriesOf, RowIs
    <2>6. QED
      BY <2>2, <2>5
  <1>3. QED
    BY <1>1, <1>2

\* Only what cannot be converted has no config, and what is written is what is meant.
THEOREM WrittenIsMeantAlways == ApplySpec => []WrittenIsMeant
  <1>1. ApplyInit => WrittenIsMeant
    <2> SUFFICES ASSUME ApplyInit PROVE WrittenIsMeant
      OBVIOUS
    <2>1. written.how = "nothing"
      BY DEF ApplyInit, NotWritten
    <2>2. written.how # "no config" /\ written.how # "written" /\ written.how # "raised"
      BY <2>1
    <2>3. QED
      BY <2>2 DEF WrittenIsMeant
  <1>2. NetworkInv /\ WrittenIsMeant /\ [ApplyNext]_allVars => WrittenIsMeant'
    <2> SUFFICES ASSUME NetworkInv, WrittenIsMeant, [ApplyNext]_allVars
                 PROVE  WrittenIsMeant'
      OBVIOUS
    <2>1. network' = network /\ Devices' = Devices
      BY DEF ApplyNext, ApplyNames, NotNew, IsNew, NoConfig, ReadCommand, Render, Again, net, allVars, Devices
    <2>2. CASE UNCHANGED written
      <3>1. network' = network /\ CommandsOf(network') = CommandsOf(network)
        BY <2>1
      <3>2. QED
        BY <2>1, <2>2, <3>1 DEF WrittenIsMeant
    <2>3. CASE NoConfig
      <3>1. written'.how = "no config" /\ Refused(network)
        BY <2>3 DEF NoConfig, NotWritten, WrittenIsMeant
      <3>2. network.devices = {}
        BY <3>1, NetworksAssumption DEF NetworkInv
      <3>3. QED
        BY <2>1, <3>1, <3>2 DEF WrittenIsMeant
    <2>4. CASE Render
      <3>1. PICK by \in Renderers : written' = Rendered(by)
        BY <2>4 DEF Render
      <3>2. written'.by = by /\ written'.how # "no config"
        BY <3>1 DEF Rendered
      <3>3. todo = {} /\ table # <<>>
        BY <2>4 DEF Render
      <3>4. ASSUME written'.how = "written", NEW c \in Devices, Writable(network.version, by, c), IdsAreNames(network, c)
            PROVE  written'.out[NameOf(network.version, c)] = Meant(network, c)
        BY <3>1, <3>3, <3>4, RenderedIs
      <3>5. ASSUME written'.how = "raised"
            PROVE  /\ by # "netplan"
                   /\ by = "sysconfig" => \E c \in Complete(CommandsOf(network)) :
                        \E r \in Others(RoutesIn(ToSet(SubnetsOf(network.version, c)))) : r.to[1] = 6 /\ ~r.masked
        BY <3>1, <3>3, <3>5, RaisedIs
      <3>6. QED
        BY <2>1, <3>2, <3>4, <3>5 DEF WrittenIsMeant
    <2>5. CASE Again
      BY <2>5 DEF Again, WrittenIsMeant, NotWritten
    <2>6. QED
      BY <2>2, <2>3, <2>4, <2>5 DEF ApplyNext, ApplyNames, NotNew, IsNew, ReadCommand, net, allVars
  <1>3. ApplyInit => NetworkInv
    BY DEF ApplyInit, NetworkInv, ReadInv, Reading
  <1>4. NetworkInv /\ [ApplyNext]_allVars => NetworkInv'
    BY NetworkInvStep
  <1>5. QED
    BY <1>1, <1>2, <1>3, <1>4, PTL DEF ApplySpec
=============================================================================
