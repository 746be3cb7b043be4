--------------------------- MODULE Schema_proofs ---------------------------
(***************************************************************************)
(* Proofs about Schema: that every upgrade runs to its end, that every     *)
(* downgrade but that of e52e9a810976 does and takes back exactly what the *)
(* upgrade did, and that the newest catalogue has the tables the models    *)
(* declare.                                                                *)
(*                                                                         *)
(* The catalogue of each revision is written down (ChainIs): which types   *)
(* and which of the tables, in the order they are made, there are, and     *)
(* what their bodies are: as the first scripts make them (Made), with the  *)
(* references that 0003 adds to older tables (Filled), or as the models    *)
(* declare them (Metadata).  Every script is followed from one of these    *)
(* catalogues to the next, block by block: a block makes or drops a run of *)
(* types, or a table with its indexes, and leads from one catalogue to     *)
(* another (Leads) because what its operations need is there.              *)
(***************************************************************************)
EXTENDS Schema, Induction

Kinds == {"create_enum", "drop_enum", "create_table", "drop_table", "add_fk",
          "drop_fk", "add_index", "drop_index", "drop_index_if_exists"}

\* A table, an operation and a catalogue have their parts.
IsTable(b) ==
  b = [enums |-> b.enums, fks |-> b.fks, keys |-> b.keys, indexes |-> b.indexes]

IsOp(o) == o.op \in Kinds /\ (o.op = "create_table" => IsTable(o.body))

IsCatalog(c) ==
  /\ c = [enums |-> c.enums, tables |-> c.tables, ok |-> c.ok]
  /\ c.ok \in BOOLEAN
  /\ c.tables = [t \in DOMAIN c.tables |-> c.tables[t]]
  /\ \A t \in DOMAIN c.tables : IsTable(c.tables[t])

\* The operations of a script, without their order.
Ops(ops) == {ops[i] : i \in DOMAIN ops}

IsScript(ops) == ops \in Seq(Ops(ops)) /\ \A o \in Ops(ops) : IsOp(o)

-----------------------------------------------------------------------------
(***************************************************************************)
(* Running a script.                                                       *)
(***************************************************************************)
\* Run is what its equation says.
LEMMA RunIs ==
  ASSUME NEW ops, IsScript(ops), NEW c
  PROVE  /\ Run(ops, c)[0] = c
         /\ \A i \in 1 .. Len(ops) : Run(ops, c)[i] = Step(Run(ops, c)[i - 1], ops[i])
<1> DEFINE n == Len(ops)
           Is(f, k) == f = [i \in 0 .. k |-> IF i = 0 THEN c ELSE Step(f[i - 1], ops[i])]
           S == {k \in 0 .. n : \E f : Is(f, k)}
<1>1. n \in Nat
  BY DEF IsScript
<1>2. 0 \in S
  <2>1. Is([i \in 0 .. 0 |-> c], 0)
    OBVIOUS
  <2>2. 0 \in 0 .. n
    BY <1>1
  <2> HIDE DEF Is, n
  <2> QED  BY <2>1, <2>2
<1>3. ASSUME NEW k \in 0 .. n - 1, k \in S  PROVE k + 1 \in S
  <2>1. PICK f : Is(f, k)
    BY <1>3
  <2> DEFINE v == Step(f[k], ops[k + 1])
             g == [i \in 0 .. k + 1 |-> IF i = k + 1 THEN v ELSE f[i]]
  <2>2. k \in Nat /\ k + 1 \in 0 .. n
    BY <1>1
  <2>3. ASSUME NEW i \in 0 .. k + 1
        PROVE  g[i] = IF i = 0 THEN c ELSE Step(g[i - 1], ops[i])
    <3>1. CASE i = k + 1
      <4>1. g[i] = v /\ i # 0 /\ i - 1 = k /\ k \in 0 .. k + 1 /\ k # k + 1
        BY <2>2, <3>1
      <4>2. g[i - 1] = f[k]
        BY <4>1
      <4> QED  BY <3>1, <4>1, <4>2
    <3>2. CASE i # k + 1
      <4>1. i \in 0 .. k /\ g[i] = f[i]
        BY <2>2, <3>2
      <4>2. i # 0 => i - 1 \in 0 .. k + 1 /\ i - 1 # k + 1
        BY <2>2, <4>1
      <4>3. i # 0 => g[i - 1] = f[i - 1]
        BY <4>2
      <4>4. f[i] = IF i = 0 THEN c ELSE Step(f[i - 1], ops[i])
        BY <2>1, <4>1
      <4> QED  BY <4>1, <4>3, <4>4
    <3> QED  BY <3>1, <3>2
  <2>4. Is(g, k + 1)
    BY <2>3
  <2> HIDE DEF g, Is
  <2> QED  BY <2>2, <2>4
<1> HIDE DEF S
<1>4. n \in S
  <2> HIDE DEF n
  <2>1. \A i \in 0 .. n : i \in S
    BY <1>1, <1>2, <1>3, InductionUpTo
  <2> QED  BY <1>1, <2>1
<1>5. Run(ops, c) = CHOOSE f : Is(f, n)
  BY DEF Run
<1> HIDE DEF Is
<1>6. Is(Run(ops, c), n)
  BY <1>4, <1>5 DEF S
<1> DEFINE f == Run(ops, c)
<1>7. f = [i \in 0 .. n |-> IF i = 0 THEN c ELSE Step(f[i - 1], ops[i])]
  BY <1>6 DEF Is
<1> HIDE DEF f
<1>8. f[0] = c /\ \A i \in 1 .. n : f[i] = Step(f[i - 1], ops[i])
  BY <1>1, <1>7
<1> QED  BY <1>8 DEF f

\* What an operation leaves, part by part.
Leaves(c, o, e) ==
  /\ IsCatalog(e) /\ e.ok = c.ok
  /\ e.enums = IF o.op = "create_enum" THEN c.enums \cup {o.on}
               ELSE IF o.op = "drop_enum" THEN c.enums \ {o.on}
               ELSE c.enums
  /\ DOMAIN e.tables = IF o.op = "create_table" THEN DOMAIN c.tables \cup {o.on}
                       ELSE IF o.op = "drop_table" THEN DOMAIN c.tables \ {o.on}
                       ELSE DOMAIN c.tables
  /\ o.op = "create_table" => o.on \notin DOMAIN c.tables /\ e.tables[o.on] = o.body
  /\ \A t \in DOMAIN c.tables \cap DOMAIN e.tables :
       /\ o.op \in {"create_enum", "drop_enum"} \/ t # o.on => e.tables[t] = c.tables[t]
       /\ e.tables[t].enums = c.tables[t].enums
       /\ e.tables[t].keys = c.tables[t].keys
       /\ e.tables[t].fks =
            IF o.op = "add_fk" /\ t = o.on THEN c.tables[t].fks \cup {o.fk}
            ELSE IF o.op = "drop_fk" /\ t = o.on
            THEN {fk \in c.tables[t].fks : fk[1] # o.col}
            ELSE c.tables[t].fks
       /\ o.op \in {"add_fk", "drop_fk"} => e.tables[t].indexes = c.tables[t].indexes

\* What an allowed operation leaves is what Effect says, part by part.
LEMMA EffectIs ==
  ASSUME NEW c, IsCatalog(c), NEW o, IsOp(o), Allowed(c, o)
  PROVE  Leaves(c, o, Effect(c, o))
<1> USE DEF Leaves
<1> DEFINE e == Effect(c, o)
<1>1. CASE o.op = "create_enum"
  <2>1. e = [c EXCEPT !.enums = @ \cup {o.on}]
    BY <1>1 DEF Effect
  <2> QED  BY <1>1, <2>1 DEF IsCatalog
<1>2. CASE o.op = "drop_enum"
  <2>1. e = [c EXCEPT !.enums = @ \ {o.on}]
    BY <1>2 DEF Effect
  <2> QED  BY <1>2, <2>1 DEF IsCatalog
<1>3. CASE o.op = "create_table"
  <2>1. e = [c EXCEPT !.tables = [t \in DOMAIN c.tables \cup {o.on} |->
                                    IF t = o.on THEN o.body ELSE c.tables[t]]]
    BY <1>3 DEF Effect
  <2>2. o.on \notin DOMAIN c.tables /\ IsTable(o.body)
    BY <1>3 DEF Allowed, IsOp
  <2> QED  BY <1>3, <2>1, <2>2 DEF IsCatalog
<1>4. CASE o.op = "drop_table"
  <2>1. e = [c EXCEPT !.tables = [t \in DOMAIN c.tables \ {o.on} |-> c.tables[t]]]
    BY <1>4 DEF Effect
  <2> QED  BY <1>4, <2>1 DEF IsCatalog
<1> DEFINE T == c.tables
<1>5. ASSUME NEW b, IsTable(b), o.on \in DOMAIN T,
             e = [c EXCEPT !.tables = [T EXCEPT ![o.on] = b]]
      PROVE  /\ IsCatalog(e) /\ e.ok = c.ok /\ e.enums = c.enums
             /\ DOMAIN e.tables = DOMAIN T
             /\ \A t \in DOMAIN T : t # o.on => e.tables[t] = T[t]
             /\ e.tables[o.on] = b
  BY <1>5 DEF IsCatalog
<1>6. CASE o.op \in {"add_fk", "drop_fk"}
  <2>1. o.on \in DOMAIN T /\ IsTable(T[o.on])
    BY <1>6 DEF Allowed, IsCatalog
  <2> DEFINE new == IF o.op = "add_fk" THEN T[o.on].fks \cup {o.fk}
                    ELSE {fk \in T[o.on].fks : fk[1] # o.col}
             b == [T[o.on] EXCEPT !.fks = new]
  <2>2. e = [c EXCEPT !.tables = [T EXCEPT ![o.on] = b]]
    BY <1>6 DEF Effect
  <2> HIDE DEF new
  <2>3. /\ IsTable(b) /\ b.enums = T[o.on].enums /\ b.keys = T[o.on].keys
        /\ b.fks = new /\ b.indexes = T[o.on].indexes
    BY <2>1 DEF IsTable
  <2> HIDE DEF b, e
  <2>4. /\ IsCatalog(e) /\ e.ok = c.ok /\ e.enums = c.enums
        /\ DOMAIN e.tables = DOMAIN T
        /\ \A t \in DOMAIN T : t # o.on => e.tables[t] = T[t]
        /\ e.tables[o.on] = b
    BY <1>5, <2>1, <2>2, <2>3
  <2> HIDE DEF T
  <2>5. ASSUME NEW t \in DOMAIN T
        PROVE  /\ t # o.on => e.tables[t] = T[t]
               /\ e.tables[t].enums = T[t].enums
               /\ e.tables[t].keys = T[t].keys
               /\ e.tables[t].fks =
                    IF o.op = "add_fk" /\ t = o.on THEN T[t].fks \cup {o.fk}
                    ELSE IF o.op = "drop_fk" /\ t = o.on
                    THEN {fk \in T[t].fks : fk[1] # o.col}
                    ELSE T[t].fks
               /\ e.tables[t].indexes = T[t].indexes
    <3>1. CASE t = o.on
      BY <1>6, <2>3, <2>4, <3>1 DEF new
    <3>2. CASE t # o.on
      BY <2>4, <3>2
    <3> QED  BY <3>1, <3>2
  <2> QED  BY <1>6, <2>4, <2>5 DEF e, T
<1>7. CASE o.op \in {"add_index", "drop_index", "drop_index_if_exists"}
  <2> DEFINE new == IF o.op = "add_index" THEN T[o.on].indexes \cup {o.ix}
                    ELSE {ix \in T[o.on].indexes : ix[1] # o.name}
             b == [T[o.on] EXCEPT !.indexes = new]
  <2>1. e = [c EXCEPT !.tables = [T EXCEPT ![o.on] = b]]
    BY <1>7 DEF Effect
  <2> HIDE DEF new
  <2>2. CASE o.on \in DOMAIN T
    <3>1. IsTable(T[o.on])
      BY <2>2 DEF IsCatalog
    <3>2. /\ IsTable(b) /\ b.enums = T[o.on].enums /\ b.keys = T[o.on].keys
          /\ b.fks = T[o.on].fks
      BY <3>1 DEF IsTable
    <3> HIDE DEF b, e
    <3>3. /\ IsCatalog(e) /\ e.ok = c.ok /\ e.enums = c.enums
          /\ DOMAIN e.tables = DOMAIN T
          /\ \A t \in DOMAIN T : t # o.on => e.tables[t] = T[t]
          /\ e.tables[o.on] = b
      BY <1>5, <2>1, <2>2, <3>2
    <3> HIDE DEF T
    <3>4. ASSUME NEW t \in DOMAIN T
          PROVE  /\ t # o.on => e.tables[t] = T[t]
                 /\ e.tables[t].enums = T[t].enums
                 /\ e.tables[t].keys = T[t].keys
                 /\ e.tables[t].fks = T[t].fks
      <4>1. CASE t = o.on
        BY <3>2, <3>3, <4>1
      <4>2. CASE t # o.on
        BY <3>3, <4>2
      <4> QED  BY <4>1, <4>2
    <3> QED  BY <1>7, <3>3, <3>4 DEF e, T
  <2>3. CASE o.on \notin DOMAIN T
    <3>1. [T EXCEPT ![o.on] = b] = T
      BY <2>3 DEF IsCatalog
    <3>2. e = c
      BY <2>1, <3>1 DEF IsCatalog
    <3> QED  BY <1>7, <2>3, <3>2
  <2> QED  BY <2>2, <2>3
<1> QED
  BY <1>1, <1>2, <1>3, <1>4, <1>6, <1>7 DEF IsOp, Kinds

\* A step of a script keeps a catalogue a catalogue, and a refusal lasts.
LEMMA StepIs ==
  ASSUME NEW c, IsCatalog(c), NEW o, IsOp(o)
  PROVE  /\ IsCatalog(Step(c, o))
         /\ Step(c, o).ok => c.ok /\ Allowed(c, o) /\ Step(c, o) = Effect(c, o)
<1>1. CASE c.ok /\ Allowed(c, o)
  BY <1>1, EffectIs DEF Step, Leaves
<1>2. CASE ~(c.ok /\ Allowed(c, o))
  <2>1. Step(c, o) = [c EXCEPT !.ok = FALSE]
    BY <1>2 DEF Step
  <2> QED  BY <2>1 DEF IsCatalog
<1> QED  BY <1>1, <1>2

\* A script ends in a catalogue ...
LEMMA RunCatalogs ==
  ASSUME NEW ops, IsScript(ops), NEW c, IsCatalog(c)
  PROVE  /\ \A i \in 0 .. Len(ops) : IsCatalog(Run(ops, c)[i])
         /\ IsCatalog(Execute(ops, c))
<1> DEFINE n == Len(ops)
           f == Run(ops, c)
           S == {i \in 0 .. n : IsCatalog(f[i])}
<1>1. n \in Nat /\ \A i \in 1 .. n : IsOp(ops[i])
  BY DEF IsScript, Ops
<1>2. f[0] = c /\ \A i \in 1 .. n : f[i] = Step(f[i - 1], ops[i])
  BY RunIs
<1> HIDE DEF f, n
<1>3. 0 \in S
  BY <1>1, <1>2
<1>4. ASSUME NEW i \in 0 .. n - 1, i \in S  PROVE i + 1 \in S
  <2>1. i + 1 \in 1 .. n /\ i + 1 \in 0 .. n /\ (i + 1) - 1 = i
    BY <1>1
  <2>2. f[i + 1] = Step(f[i], ops[i + 1])
    BY <1>2, <2>1
  <2>3. IsCatalog(Step(f[i], ops[i + 1]))
    BY <1>1, <1>4, <2>1, StepIs
  <2> QED  BY <2>1, <2>2, <2>3
<1> HIDE DEF S
<1>5. \A i \in 0 .. n : i \in S
  BY <1>1, <1>3, <1>4, InductionUpTo
<1>6. \A i \in 0 .. n : IsCatalog(f[i])
  BY <1>5 DEF S
<1> QED  BY <1>1, <1>6 DEF Execute, f, n

\* ... and, if nothing is refused in the end, nothing was on the way: each
\* operation was allowed and had its effect.
Runs(ops, c, f) ==
  /\ f[0] = c /\ f[Len(ops)] = Execute(ops, c)
  /\ \A i \in 0 .. Len(ops) : IsCatalog(f[i]) /\ f[i].ok
  /\ \A i \in 1 .. Len(ops) : /\ Allowed(f[i - 1], ops[i])
                             /\ f[i] = Effect(f[i - 1], ops[i])

\* A script that ends ok was ok, and allowed, at every operation.
LEMMA RunOk ==
  ASSUME NEW ops, IsScript(ops), NEW c, IsCatalog(c), Execute(ops, c).ok
  PROVE  Runs(ops, c, Run(ops, c))
<1> DEFINE n == Len(ops)
           f == Run(ops, c)
           S == {i \in 0 .. n : f[n - i].ok}
<1>1. n \in Nat /\ \A i \in 1 .. n : IsOp(ops[i])
  BY DEF IsScript, Ops
<1>2. f[0] = c /\ \A i \in 1 .. n : f[i] = Step(f[i - 1], ops[i])
  BY RunIs
<1>3. (\A i \in 0 .. n : IsCatalog(f[i])) /\ f[n] = Execute(ops, c)
  BY RunCatalogs DEF Execute
<1>4. f[n].ok
  BY <1>3
<1>5. ASSUME NEW i \in 1 .. n, f[i].ok
      PROVE  f[i - 1].ok /\ Allowed(f[i - 1], ops[i]) /\ f[i] = Effect(f[i - 1], ops[i])
  <2>1. i - 1 \in 0 .. n
    BY <1>1
  <2> HIDE DEF f, n
  <2>2. IsCatalog(f[i - 1]) /\ IsOp(ops[i]) /\ f[i] = Step(f[i - 1], ops[i])
    BY <1>1, <1>2, <1>3, <2>1
  <2> QED  BY <1>5, <2>2, StepIs
<1> HIDE DEF f, n
<1>6. 0 \in S
  BY <1>1, <1>4
<1>7. ASSUME NEW i \in 0 .. n - 1, i \in S  PROVE i + 1 \in S
  <2>1. n - i \in 1 .. n /\ n - (i + 1) = (n - i) - 1 /\ i + 1 \in 0 .. n
    BY <1>1
  <2>2. f[n - i].ok
    BY <1>7
  <2>3. f[(n - i) - 1].ok
    BY <1>5, <2>1, <2>2
  <2> QED  BY <2>1, <2>3
<1> HIDE DEF S
<1>8. \A i \in 0 .. n : i \in S
  BY <1>1, <1>6, <1>7, InductionUpTo
<1>9. \A i \in 0 .. n : f[i].ok
  <2> SUFFICES ASSUME NEW i \in 0 .. n PROVE f[i].ok
    OBVIOUS
  <2>1. n - i \in 0 .. n /\ n - (n - i) = i
    BY <1>1
  <2>2. n - i \in S
    BY <1>8, <2>1
  <2> QED  BY <2>1, <2>2 DEF S
<1>10. \A i \in 1 .. n : i \in 0 .. n
  BY <1>1
<1> QED  BY <1>2, <1>3, <1>5, <1>9, <1>10 DEF Runs, f, n

-----------------------------------------------------------------------------
(***************************************************************************)
(* The parts of a script.                                                  *)
(***************************************************************************)
\* Two scripts, one after the other, are a script of the operations of both.
LEMMA Concat ==
  ASSUME NEW a, NEW b, IsScript(a), IsScript(b)
  PROVE  IsScript(a \o b) /\ Ops(a \o b) = Ops(a) \cup Ops(b)
<1>1. /\ Len(a) \in Nat /\ Len(b) \in Nat
      /\ DOMAIN a = 1 .. Len(a) /\ DOMAIN b = 1 .. Len(b)
  BY DEF IsScript
<1> DEFINE V == Ops(a) \cup Ops(b)
<1>2. a \in Seq(V) /\ b \in Seq(V)
  BY DEF IsScript
<1>3. /\ a \o b \in Seq(V) /\ DOMAIN (a \o b) = 1 .. Len(a) + Len(b)
      /\ \A i \in 1 .. Len(a) + Len(b) :
           (a \o b)[i] = IF i <= Len(a) THEN a[i] ELSE b[i - Len(a)]
  <2> HIDE DEF V
  <2> QED  BY <1>1, <1>2
<1>4. Ops(a \o b) \subseteq V
  BY <1>1, <1>3 DEF Ops
<1>5. ASSUME NEW i \in 1 .. Len(a)  PROVE a[i] \in Ops(a \o b)
  BY <1>1, <1>3 DEF Ops
<1>6. ASSUME NEW i \in 1 .. Len(b)  PROVE b[i] \in Ops(a \o b)
  <2>1. Len(a) + i \in 1 .. Len(a) + Len(b) /\ (a \o b)[Len(a) + i] = b[i]
    BY <1>1, <1>3
  <2> QED  BY <1>3, <2>1 DEF Ops
<1>7. Ops(a \o b) = V
  BY <1>1, <1>4, <1>5, <1>6 DEF Ops
<1>8. IsScript(a \o b)
  BY <1>3, <1>7 DEF IsScript
<1> QED  BY <1>7, <1>8

\* One operation; two, three one after the other.
LEMMA OneOp ==
  ASSUME NEW o, IsOp(o)
  PROVE  IsScript(<<o>>) /\ Ops(<<o>>) = {o}
<1>1. Ops(<<o>>) = {o}
  BY DEF Ops
<1> QED  BY <1>1 DEF IsScript

\* A tuple is its elements, one after the other.
LEMMA Pair == ASSUME NEW a, NEW b PROVE <<a, b>> = <<a>> \o <<b>>
<1> DEFINE V == {a, b}
           x == <<a>> \o <<b>>
           y == <<a, b>>
<1>1. <<a>> \in Seq(V) /\ <<b>> \in Seq(V) /\ y \in Seq(V)
  OBVIOUS
<1>2. Len(<<a>>) = 1 /\ Len(<<b>>) = 1 /\ Len(y) = 2 /\ y[1] = a /\ y[2] = b
  OBVIOUS
<1>3. x \in Seq(V) /\ Len(x) = 2 /\ x[1] = a /\ x[2] = b
  BY <1>1, <1>2
<1> HIDE DEF x, y, V
<1>4. x = y
  <2>1. \A i \in 1 .. 2 : x[i] = y[i]
    BY <1>2, <1>3
  <2> QED  BY <1>1, <1>2, <1>3, <2>1
<1> QED  BY <1>4 DEF x, y

\* The same for three.
LEMMA Triple ==
  ASSUME NEW a, NEW b, NEW d PROVE <<a, b, d>> = <<a>> \o <<b>> \o <<d>>
<1> DEFINE V == {a, b, d}
           x == <<a, b>> \o <<d>>
           y == <<a, b, d>>
<1>1. <<a, b>> \in Seq(V) /\ <<d>> \in Seq(V) /\ y \in Seq(V)
  OBVIOUS
<1>2. Len(<<a, b>>) = 2 /\ Len(<<d>>) = 1 /\ Len(y) = 3 /\ y[1] = a /\ y[2] = b /\ y[3] = d
  OBVIOUS
<1>3. x \in Seq(V) /\ Len(x) = 3 /\ x[1] = a /\ x[2] = b /\ x[3] = d
  BY <1>1, <1>2
<1> HIDE DEF x, y, V
<1>4. x = y
  <2>1. \A i \in 1 .. 3 : x[i] = y[i]
    BY <1>2, <1>3
  <2> QED  BY <1>1, <1>2, <1>3, <2>1
<1>5. <<a, b>> = <<a>> \o <<b>>
  BY Pair
<1> QED  BY <1>4, <1>5 DEF x, y

\* A function on 1 .. n whose values are operations is a script.
LEMMA ManyOps ==
  ASSUME NEW n \in Nat, NEW ops, ops = [i \in 1 .. n |-> ops[i]],
         \A i \in 1 .. n : IsOp(ops[i])
  PROVE  IsScript(ops) /\ Len(ops) = n
<1>1. ops \in Seq(Ops(ops))
  BY DEF Ops
<1>2. \A o \in Ops(ops) : IsOp(o)
  BY DEF Ops
<1> QED  BY <1>1, <1>2 DEF IsScript

RangeOf(s) == {s[i] : i \in DOMAIN s}

IsTuple(s) == Len(s) \in Nat /\ DOMAIN s = 1 .. Len(s)

\* The parts of a script.
LEMMA ScriptsAre ==
  /\ \A t, names : IsTuple(names) => /\ IsScript(Indexes(t, names))
                                     /\ IsScript(NoIndexes(t, names))
  /\ \A t, enums, fks, keys : IsScript(<<CreateTable(t, Table(enums, fks, keys))>>)
  /\ \A t : IsScript(<<DropTable(t)>>)
<1>1. ASSUME NEW t, NEW names, IsTuple(names)  PROVE IsScript(Indexes(t, names))
  <2> DEFINE ops == Indexes(t, names)
  <2>1. /\ Len(names) \in Nat
        /\ ops = [i \in 1 .. Len(names) |-> AddIndex(t, <<names[i], <<names[i]>>>>)]
    BY <1>1 DEF Indexes, IsTuple
  <2>2. \A ix : IsOp(AddIndex(t, ix))
    BY DEF AddIndex, IsOp, Kinds
  <2> HIDE DEF ops
  <2>3. ops = [i \in 1 .. Len(names) |-> ops[i]] /\ \A i \in 1 .. Len(names) : IsOp(ops[i])
    BY <2>1, <2>2
  <2>4. IsScript(ops)
    BY <2>1, <2>3, ManyOps
  <2> QED  BY <2>4 DEF ops
<1>2. ASSUME NEW t, NEW names, IsTuple(names)  PROVE IsScript(NoIndexes(t, names))
  <2> DEFINE ops == NoIndexes(t, names)
  <2>1. /\ Len(names) \in Nat
        /\ ops = [i \in 1 .. Len(names) |-> DropIndex(t, names[i])]
    BY <1>2 DEF NoIndexes, IsTuple
  <2>2. \A name : IsOp(DropIndex(t, name))
    BY DEF DropIndex, IsOp, Kinds
  <2> HIDE DEF ops
  <2>3. ops = [i \in 1 .. Len(names) |-> ops[i]] /\ \A i \in 1 .. Len(names) : IsOp(ops[i])
    BY <2>1, <2>2
  <2>4. IsScript(ops)
    BY <2>1, <2>3, ManyOps
  <2> QED  BY <2>4 DEF ops
<1>3. ASSUME NEW t, NEW enums, NEW fks, NEW keys
      PROVE  IsScript(<<CreateTable(t, Table(enums, fks, keys))>>)
  <2> DEFINE b == Table(enums, fks, keys)
             o == CreateTable(t, b)
  <2>1. IsTable(b)
    BY DEF Table, IsTable
  <2> HIDE DEF b
  <2>2. IsOp(o)
    BY <2>1 DEF IsOp, Kinds, CreateTable
  <2> HIDE DEF o
  <2>3. IsScript(<<o>>)
    BY <2>2, OneOp
  <2> QED  BY <2>3 DEF o, b
<1>4. ASSUME NEW t  PROVE IsScript(<<DropTable(t)>>)
  <2> DEFINE o == DropTable(t)
  <2>1. IsOp(o)
    BY DEF IsOp, Kinds, DropTable
  <2> HIDE DEF o
  <2>2. IsScript(<<o>>)
    BY <2>1, OneOp
  <2> QED  BY <2>2 DEF o
<1> QED  BY <1>1, <1>2, <1>3, <1>4

\* What the lists of names in the scripts are.
LEMMA Tuples ==
  /\ \A a : IsTuple(<<a>>)
  /\ \A a, b : IsTuple(<<a, b>>) /\ RangeOf(<<a, b>>) = {a, b}
  /\ \A a, b, d : IsTuple(<<a, b, d>>) /\ RangeOf(<<a, b, d>>) = {a, b, d}
  /\ \A a, b, d, e : IsTuple(<<a, b, d, e>>) /\ RangeOf(<<a, b, d, e>>) = {a, b, d, e}
  /\ \A a, b, d, e, f : IsTuple(<<a, b, d, e, f>>)
BY DEF IsTuple, RangeOf

\* The types of the revisions.
AuthTypes == {"user_role"}
CustomerTypes == {"plate_type", "mileage_source", "content_kind", "device_platform"}
ErpTypes == {"service_status", "condition_image_stage"}
SecondaryTypes == {"sos_category", "sos_request_status", "payment_status"}
BillingTypes == {"payment_provider", "payment_kind"}

-----------------------------------------------------------------------------
(***************************************************************************)
(* The chain of revisions.                                                 *)
(***************************************************************************)
\* At is what its equation says.
LEMMA AtIs ==
  At[Base] = Empty /\ \A r \in 1 .. Newest : At[r] = Execute(Upgrade[r], At[r - 1])
<1> DEFINE Is(f, k) == f = [r \in 0 .. k |-> IF r = 0 THEN Empty
                                             ELSE Execute(Upgrade[r], f[r - 1])]
           S == {k \in 0 .. 8 : \E f : Is(f, k)}
<1>1. 0 \in S
  <2>1. Is([i \in 0 .. 0 |-> Empty], 0)
    OBVIOUS
  <2> HIDE DEF Is
  <2> QED  BY <2>1
<1>2. ASSUME NEW k \in 0 .. 8 - 1, k \in S  PROVE k + 1 \in S
  <2>1. PICK f : Is(f, k)
    BY <1>2
  <2> DEFINE v == Execute(Upgrade[k + 1], f[k])
             g == [i \in 0 .. k + 1 |-> IF i = k + 1 THEN v ELSE f[i]]
  <2>2. k \in Nat /\ k + 1 \in 0 .. 8
    OBVIOUS
  <2>3. ASSUME NEW i \in 0 .. k + 1
        PROVE  g[i] = IF i = 0 THEN Empty ELSE Execute(Upgrade[i], g[i - 1])
    <3>1. CASE i = k + 1
      <4>1. g[i] = v /\ i # 0 /\ i - 1 = k /\ k \in 0 .. k + 1 /\ k # k + 1
        BY <2>2, <3>1
      <4>2. g[i - 1] = f[k]
        BY <4>1
      <4> QED  BY <3>1, <4>1, <4>2
    <3>2. CASE i # k + 1
      <4>1. i \in 0 .. k /\ g[i] = f[i]
        BY <2>2, <3>2
      <4>2. i # 0 => i - 1 \in 0 .. k + 1 /\ i - 1 # k + 1
        BY <2>2, <4>1
      <4>3. i # 0 => g[i - 1] = f[i - 1]
        BY <4>2
      <4>4. f[i] = IF i = 0 THEN Empty ELSE Execute(Upgrade[i], f[i - 1])
        BY <2>1, <4>1
      <4> QED  BY <4>1, <4>3, <4>4
    <3> QED  BY <3>1, <3>2
  <2>4. Is(g, k + 1)
    BY <2>3
  <2> HIDE DEF g, Is
  <2> QED  BY <2>2, <2>4
<1> HIDE DEF S
<1>3. 8 \in S
  <2>1. \A i \in 0 .. 8 : i \in S
    BY <1>1, <1>2, InductionUpTo
  <2> QED  BY <2>1
<1>4. At = CHOOSE f : Is(f, 8)
  BY DEF At, Revisions, Base, Newest
<1> HIDE DEF Is
<1>5. Is(At, 8)
  BY <1>3, <1>4 DEF S
<1> DEFINE f == At
<1>6. f = [r \in 0 .. 8 |-> IF r = 0 THEN Empty ELSE Execute(Upgrade[r], f[r - 1])]
  BY <1>5 DEF Is
<1> HIDE DEF f
<1>7. f[0] = Empty /\ \A r \in 1 .. 8 : f[r] = Execute(Upgrade[r], f[r - 1])
  BY <1>6
<1> QED  BY <1>7 DEF f, Base, Newest

\* e52e9a810976, the generated one: on its way down it drops a constraint that
\* has no name.
LEMMA CompaniesAreScripts ==
  /\ IsScript(Upgrade[6])
  /\ IsScript(Downgrade[6])
  /\ \E o \in Ops(Downgrade[6]) : o.op = "drop_fk" /\ o.col = Unnamed
<1>1. IsScript(Upgrade[6])
  <2> DEFINE ops == AddCompanies
  <2>1. ops = [i \in 1 .. 15 |-> ops[i]]
    BY DEF AddCompanies
  <2>2. \A i \in 1 .. 15 : IsOp(ops[i])
    BY DEF AddCompanies, IsOp, Kinds, CreateTable, Table, IsTable, AddFk, DropIndex,
           AddIndex, DropFk
  <2> HIDE DEF ops
  <2>3. IsScript(ops)
    BY <2>1, <2>2, ManyOps
  <2> QED  BY <2>3 DEF ops, Upgrade
<1>2. /\ IsScript(Downgrade[6])
      /\ \E o \in Ops(Downgrade[6]) : o.op = "drop_fk" /\ o.col = Unnamed
  <2> DEFINE ops == DropCompanies
  <2>1. ops = [i \in 1 .. 15 |-> ops[i]]
    BY DEF DropCompanies
  <2>2. \A i \in 1 .. 15 : IsOp(ops[i])
    <3>1. /\ ops[1].op = "add_fk" /\ ops[7].op = "add_fk" /\ ops[8].op = "add_fk"
          /\ ops[14].op = "drop_fk" /\ ops[15].op = "drop_table"
      BY DEF DropCompanies, AddFk, DropFk, DropTable
    <3>2. /\ ops[2].op = "add_index" /\ ops[3].op = "add_index"
          /\ ops[4].op = "add_index" /\ ops[6].op = "add_index"
          /\ ops[9].op = "add_index" /\ ops[11].op = "add_index"
          /\ ops[12].op = "add_index" /\ ops[13].op = "add_index"
      BY DEF DropCompanies, AddIndex
    <3>3. ops[5].op = "drop_index" /\ ops[10].op = "drop_index"
      BY DEF DropCompanies, DropIndex
    <3> HIDE DEF ops
    <3>4. \A i \in 1 .. 15 :
            ops[i].op \in {"add_fk", "drop_fk", "drop_table", "add_index", "drop_index"}
      BY <3>1, <3>2, <3>3
    <3> QED  BY <3>4 DEF IsOp, Kinds
  <2>3. ops[14].op = "drop_fk" /\ ops[14].col = Unnamed
    BY DEF DropCompanies, DropFk
  <2> HIDE DEF ops
  <2>4. IsScript(ops)
    BY <2>1, <2>2, ManyOps
  <2>5. ops[14] \in Ops(ops)
    BY <2>1 DEF Ops
  <2> QED  BY <2>3, <2>4, <2>5 DEF ops, Downgrade
<1> QED  BY <1>1, <1>2

-----------------------------------------------------------------------------
(***************************************************************************)
(* What a script leaves: it is not refused where each operation finds what *)
(* it needs in the catalogue that was built so far.                        *)
(***************************************************************************)
\* A catalogue nothing was refused in: its types and its tables.
Cat(E, f) == [enums |-> E, tables |-> f, ok |-> TRUE]

\* The script runs from c to d.
Leads(ops, c, d) == IsScript(ops) /\ Execute(ops, c) = d

\* A script whose operations lead through g.
LEMMA RunsAlong ==
  ASSUME NEW ops, IsScript(ops), NEW c, NEW g, g[0] = c,
         \A i \in 1 .. Len(ops) : g[i] = Step(g[i - 1], ops[i])
  PROVE  Leads(ops, c, g[Len(ops)])
<1> DEFINE n == Len(ops)
           f == Run(ops, c)
<1>1. n \in Nat
  BY DEF IsScript
<1>2. f[0] = c /\ \A i \in 1 .. n : f[i] = Step(f[i - 1], ops[i])
  BY RunIs
<1> HIDE DEF f, n
<1>3. f[0] = g[0] /\ \A i \in 1 .. n : f[i - 1] = g[i - 1] => f[i] = g[i]
  BY <1>2 DEF n
<1>4. StepAlike(f, g, n)
  BY <1>3 DEF StepAlike
<1>5. AgreeUpTo(f, g, n)
  BY <1>1, <1>4, RecursionUnique
<1>6. f[n] = g[n]
  BY <1>1, <1>5 DEF AgreeUpTo
<1> QED  BY <1>6 DEF Leads, Execute, f, n

\* One operation.
LEMMA OneLeads ==
  ASSUME NEW o, IsOp(o), NEW c  PROVE Leads(<<o>>, c, Step(c, o))
<1> DEFINE g == [i \in 0 .. 1 |-> IF i = 0 THEN c ELSE Step(c, o)]
           ops == <<o>>
<1>1. IsScript(ops) /\ Len(ops) = 1 /\ ops[1] = o
  BY OneOp
<1>2. g[0] = c /\ g[1] = Step(g[0], o)
  OBVIOUS
<1> HIDE DEF g, ops
<1>3. \A i \in 1 .. Len(ops) : g[i] = Step(g[i - 1], ops[i])
  BY <1>1, <1>2
<1>4. Leads(ops, c, g[Len(ops)])
  BY <1>1, <1>2, <1>3, RunsAlong
<1>5. g[Len(ops)] = Step(c, o)
  BY <1>1, <1>2
<1> QED  BY <1>4, <1>5 DEF ops

\* One script after the other.
LEMMA ThenLeads ==
  ASSUME NEW a, NEW b, NEW c, NEW d, NEW e, Leads(a, c, d), Leads(b, d, e)
  PROVE  Leads(a \o b, c, e)
<1> DEFINE m == Len(a)
           n == Len(b)
           ops == a \o b
           f == Run(a, c)
           h == Run(b, d)
           g == [i \in 0 .. m + n |-> IF i <= m THEN f[i] ELSE h[i - m]]
<1>1. IsScript(a) /\ IsScript(b)
  BY DEF Leads
<1>2. /\ m \in Nat /\ n \in Nat /\ IsScript(ops) /\ Len(ops) = m + n
      /\ \A i \in 1 .. m + n : ops[i] = IF i <= m THEN a[i] ELSE b[i - m]
  <2>1. IsScript(ops)
    BY <1>1, Concat
  <2>2. a \in Seq(Ops(a) \cup Ops(b)) /\ b \in Seq(Ops(a) \cup Ops(b))
    BY <1>1 DEF IsScript
  <2> QED  BY <2>1, <2>2
<1>3. /\ f[0] = c /\ \A i \in 1 .. m : f[i] = Step(f[i - 1], a[i])
      /\ h[0] = d /\ \A i \in 1 .. n : h[i] = Step(h[i - 1], b[i])
  BY <1>1, RunIs
<1>4. f[m] = d /\ h[n] = e
  BY DEF Leads, Execute
<1> HIDE DEF f, h, m, n, ops
<1>5. g[0] = c /\ g[m + n] = e
  <2>1. CASE n = 0
    BY <1>2, <1>3, <1>4, <2>1
  <2>2. CASE n # 0
    BY <1>2, <1>3, <1>4, <2>2
  <2> QED  BY <2>1, <2>2
<1>6. ASSUME NEW i \in 1 .. m + n  PROVE g[i] = Step(g[i - 1], ops[i])
  <2>1. i \in 0 .. m + n /\ i - 1 \in 0 .. m + n
    BY <1>2
  <2>2. CASE i <= m
    <3>1. i \in 1 .. m /\ i - 1 <= m
      BY <1>2, <2>2
    <3>2. g[i] = f[i] /\ g[i - 1] = f[i - 1] /\ ops[i] = a[i]
      BY <1>2, <2>1, <2>2, <3>1
    <3> QED  BY <1>3, <3>1, <3>2
  <2>3. CASE i > m
    <3>1. i - m \in 1 .. n /\ (i - m) - 1 = (i - 1) - m
      BY <1>2, <2>3
    <3>2. g[i] = h[i - m] /\ ops[i] = b[i - m]
      BY <1>2, <2>1, <2>3
    <3>3. g[i - 1] = h[(i - 1) - m]
      <4>1. CASE i - 1 = m
        BY <1>2, <1>3, <1>4, <2>1, <4>1
      <4>2. CASE i - 1 # m
        BY <1>2, <2>1, <2>3, <4>2
      <4> QED  BY <4>1, <4>2
    <3> QED  BY <1>3, <3>1, <3>2, <3>3
  <2> QED  BY <1>2, <2>2, <2>3
<1> HIDE DEF g
<1>7. Leads(ops, c, g[Len(ops)])
  BY <1>2, <1>5, <1>6, RunsAlong
<1> QED  BY <1>2, <1>5, <1>7 DEF ops

-----------------------------------------------------------------------------
\* Tables with one more, one less, one changed.
Put(f, t, b) == [s \in DOMAIN f \cup {t} |-> IF s = t THEN b ELSE f[s]]

Less(f, t) == [s \in DOMAIN f \ {t} |-> f[s]]

With(f, t, b) == [s \in DOMAIN f |-> IF s = t THEN b ELSE f[s]]

IsFun(f) == f = [s \in DOMAIN f |-> f[s]]

Linking(b, fk) == [b EXCEPT !.fks = @ \cup {fk}]

Unlinking(b, col) == [b EXCEPT !.fks = {fk \in @ : fk[1] # col}]

Indexing(b, ixs) == [b EXCEPT !.indexes = @ \cup ixs]

Unindexing(b, names) == [b EXCEPT !.indexes = {ix \in @ : ix[1] \notin names}]

\* What each operation does to such a catalogue, and when it is allowed to.
LEMMA TypeSteps ==
  ASSUME NEW E, NEW f, NEW e
  PROVE  /\ Step(Cat(E, f), CreateEnum(e)) = Cat(E \cup {e}, f)
         /\ (\A t \in DOMAIN f : e \notin f[t].enums) =>
              Step(Cat(E, f), DropEnum(e)) = Cat(E \ {e}, f)
  BY DEF Step, Allowed, Effect, Cat, CreateEnum, DropEnum

\* A table is made where it is not, and its types and the tables it refers to are.
LEMMA CreateStep ==
  ASSUME NEW E, NEW f, NEW t, NEW b, t \notin DOMAIN f, b.enums \subseteq E,
         \A fk \in b.fks : fk[2] \in DOMAIN f
  PROVE  Step(Cat(E, f), CreateTable(t, b)) = Cat(E, Put(f, t, b))
<1>1. Allowed(Cat(E, f), CreateTable(t, b))
  BY DEF Allowed, Cat, CreateTable
<1>2. Effect(Cat(E, f), CreateTable(t, b)) = Cat(E, Put(f, t, b))
  BY DEF Effect, Cat, CreateTable, Put
<1> QED  BY <1>1, <1>2 DEF Step, Cat

\* A table is dropped that no other one refers to.
LEMMA DropStep ==
  ASSUME NEW E, NEW f, NEW t \in DOMAIN f,
         \A s \in DOMAIN f \ {t} : \A fk \in f[s].fks : fk[2] # t
  PROVE  Step(Cat(E, f), DropTable(t)) = Cat(E, Less(f, t))
<1>1. Allowed(Cat(E, f), DropTable(t))
  BY DEF Allowed, Cat, DropTable
<1>2. Effect(Cat(E, f), DropTable(t)) = Cat(E, Less(f, t))
  BY DEF Effect, Cat, DropTable, Less
<1> QED  BY <1>1, <1>2 DEF Step, Cat

\* A change of one table, by an operation that is allowed.
LEMMA AlterIs ==
  ASSUME NEW E, NEW f, IsFun(f), NEW t \in DOMAIN f, NEW b, NEW o,
         Allowed(Cat(E, f), o),
         Effect(Cat(E, f), o) = [Cat(E, f) EXCEPT !.tables = [f EXCEPT ![t] = b]]
  PROVE  Step(Cat(E, f), o) = Cat(E, With(f, t, b))
<1>1. [f EXCEPT ![t] = b] = With(f, t, b)
  <2> DEFINE a == [f EXCEPT ![t] = b]
             w == With(f, t, b)
  <2>1. a = [s \in DOMAIN f |-> a[s]] /\ w = [s \in DOMAIN f |-> w[s]]
    BY DEF With, IsFun
  <2>2. \A s \in DOMAIN f : a[s] = w[s]
    BY DEF With, IsFun
  <2> HIDE DEF a, w
  <2> QED  BY <2>1, <2>2 DEF a, w
<1>2. ASSUME NEW g  PROVE [Cat(E, f) EXCEPT !.tables = g] = Cat(E, g)
  <2> DEFINE a == [Cat(E, f) EXCEPT !.tables = g]
             d == Cat(E, g)
             Parts == {"enums", "tables", "ok"}
  <2>1. a = [x \in Parts |-> a[x]] /\ d = [x \in Parts |-> d[x]]
    BY DEF Cat
  <2>2. a["enums"] = d["enums"] /\ a["tables"] = d["tables"] /\ a["ok"] = d["ok"]
    BY DEF Cat
  <2> HIDE DEF a, d
  <2> QED  BY <2>1, <2>2 DEF a, d
<1>3. Effect(Cat(E, f), o) = Cat(E, With(f, t, b))
  BY <1>1, <1>2
<1>4. Step(Cat(E, f), o) = Effect(Cat(E, f), o)
  BY DEF Step, Cat
<1> QED  BY <1>3, <1>4

\* A reference is added to a table that is there; one that has its name is dropped.
LEMMA LinkSteps ==
  ASSUME NEW E, NEW f, IsFun(f), NEW t \in DOMAIN f
  PROVE  /\ \A fk : fk[2] \in DOMAIN f =>
              Step(Cat(E, f), AddFk(t, fk)) = Cat(E, With(f, t, Linking(f[t], fk)))
         /\ \A col : col # Unnamed /\ (\E fk \in f[t].fks : fk[1] = col) =>
              Step(Cat(E, f), DropFk(t, col)) = Cat(E, With(f, t, Unlinking(f[t], col)))
<1>1. ASSUME NEW fk, fk[2] \in DOMAIN f
      PROVE  Step(Cat(E, f), AddFk(t, fk)) = Cat(E, With(f, t, Linking(f[t], fk)))
  <2>1. Allowed(Cat(E, f), AddFk(t, fk))
    BY <1>1 DEF Allowed, Cat, AddFk
  <2>2. Effect(Cat(E, f), AddFk(t, fk))
        = [Cat(E, f) EXCEPT !.tables = [f EXCEPT ![t] = Linking(f[t], fk)]]
    BY DEF Effect, Cat, AddFk, Linking
  <2> QED  BY <2>1, <2>2, AlterIs
<1>2. ASSUME NEW col, col # Unnamed, \E fk \in f[t].fks : fk[1] = col
      PROVE  Step(Cat(E, f), DropFk(t, col)) = Cat(E, With(f, t, Unlinking(f[t], col)))
  <2>1. Allowed(Cat(E, f), DropFk(t, col))
    BY <1>2 DEF Allowed, Cat, DropFk
  <2>2. Effect(Cat(E, f), DropFk(t, col))
        = [Cat(E, f) EXCEPT !.tables = [f EXCEPT ![t] = Unlinking(f[t], col)]]
    BY DEF Effect, Cat, DropFk, Unlinking
  <2> QED  BY <2>1, <2>2, AlterIs
<1> QED  BY <1>1, <1>2

\* An index is added under a new name; one that is there is dropped.
LEMMA IndexSteps ==
  ASSUME NEW E, NEW f, IsFun(f), NEW t \in DOMAIN f
  PROVE  /\ \A ix : (\A x \in f[t].indexes : x[1] # ix[1]) =>
              Step(Cat(E, f), AddIndex(t, ix)) = Cat(E, With(f, t, Indexing(f[t], {ix})))
         /\ \A name : (\E ix \in f[t].indexes : ix[1] = name) =>
              Step(Cat(E, f), DropIndex(t, name))
                = Cat(E, With(f, t, Unindexing(f[t], {name})))
         /\ \A name : Step(Cat(E, f), DropIndexIfExists(t, name))
                        = Cat(E, With(f, t, Unindexing(f[t], {name})))
<1>1. ASSUME NEW ix, \A x \in f[t].indexes : x[1] # ix[1]
      PROVE  Step(Cat(E, f), AddIndex(t, ix)) = Cat(E, With(f, t, Indexing(f[t], {ix})))
  <2>1. Allowed(Cat(E, f), AddIndex(t, ix))
    BY <1>1 DEF Allowed, Cat, AddIndex
  <2>2. Effect(Cat(E, f), AddIndex(t, ix))
        = [Cat(E, f) EXCEPT !.tables = [f EXCEPT ![t] = Indexing(f[t], {ix})]]
    BY DEF Effect, Cat, AddIndex, Indexing
  <2> QED  BY <2>1, <2>2, AlterIs
<1>2. ASSUME NEW name
      PROVE  Unindexing(f[t], {name}) = [f[t] EXCEPT !.indexes = {ix \in @ : ix[1] # name}]
  <2>1. {ix \in f[t].indexes : ix[1] \notin {name}} = {ix \in f[t].indexes : ix[1] # name}
    OBVIOUS
  <2> QED  BY <2>1 DEF Unindexing
<1>3. ASSUME NEW name, \E ix \in f[t].indexes : ix[1] = name
      PROVE  Step(Cat(E, f), DropIndex(t, name))
               = Cat(E, With(f, t, Unindexing(f[t], {name})))
  <2>1. Allowed(Cat(E, f), DropIndex(t, name))
    BY <1>3 DEF Allowed, Cat, DropIndex
  <2>2. Effect(Cat(E, f), DropIndex(t, name))
        = [Cat(E, f) EXCEPT !.tables = [f EXCEPT ![t] =
             [f[t] EXCEPT !.indexes = {ix \in @ : ix[1] # name}]]]
    BY DEF Effect, Cat, DropIndex
  <2>3. Effect(Cat(E, f), DropIndex(t, name))
        = [Cat(E, f) EXCEPT !.tables = [f EXCEPT ![t] = Unindexing(f[t], {name})]]
    BY <1>2, <2>2
  <2> QED  BY <2>1, <2>3, AlterIs
<1>4. ASSUME NEW name
      PROVE  Step(Cat(E, f), DropIndexIfExists(t, name))
               = Cat(E, With(f, t, Unindexing(f[t], {name})))
  <2>1. Allowed(Cat(E, f), DropIndexIfExists(t, name))
    BY DEF Allowed, Cat, DropIndexIfExists
  <2>2. Effect(Cat(E, f), DropIndexIfExists(t, name))
        = [Cat(E, f) EXCEPT !.tables = [f EXCEPT ![t] =
             [f[t] EXCEPT !.indexes = {ix \in @ : ix[1] # name}]]]
    BY DEF Effect, Cat, DropIndexIfExists
  <2>3. Effect(Cat(E, f), DropIndexIfExists(t, name))
        = [Cat(E, f) EXCEPT !.tables = [f EXCEPT ![t] = Unindexing(f[t], {name})]]
    BY <1>2, <2>2
  <2> QED  BY <2>1, <2>3, AlterIs
<1> QED  BY <1>1, <1>3, <1>4

\* The tables change as functions do.
LEMMA WithIs ==
  ASSUME NEW f, NEW t, NEW x
  PROVE  /\ IsFun(With(f, t, x)) /\ DOMAIN With(f, t, x) = DOMAIN f
         /\ t \in DOMAIN f => With(f, t, x)[t] = x
         /\ \A s \in DOMAIN f \ {t} : With(f, t, x)[s] = f[s]
  BY DEF With, IsFun

\* A table changed to what it is.
LEMMA WithSame ==
  ASSUME NEW f, IsFun(f), NEW t \in DOMAIN f  PROVE With(f, t, f[t]) = f
  BY DEF With, IsFun

\* Of two changes of one table the last one counts.
LEMMA WithTwice ==
  ASSUME NEW f, NEW t, NEW x, NEW y
  PROVE  /\ With(With(f, t, x), t, y) = With(f, t, y)
         /\ With(Put(f, t, x), t, y) = Put(f, t, y)
         /\ Less(With(f, t, x), t) = Less(f, t)
  BY DEF With, Put, Less

\* ... and the bodies as records do.
LEMMA BodiesAre ==
  ASSUME NEW b, IsTable(b)
  PROVE  /\ Indexing(b, {}) = b /\ Unindexing(b, {}) = b
         /\ \A X : IsTable(Indexing(b, X)) /\ Indexing(b, X).indexes = b.indexes \cup X
         /\ \A X : /\ IsTable(Unindexing(b, X))
                   /\ Unindexing(b, X).indexes = {ix \in b.indexes : ix[1] \notin X}
         /\ \A X, Y : Indexing(Indexing(b, X), Y) = Indexing(b, X \cup Y)
         /\ \A X, Y : Unindexing(Unindexing(b, X), Y) = Unindexing(b, X \cup Y)
<1> DEFINE Parts == {"enums", "fks", "keys", "indexes"}
           With4(I) == [enums |-> b.enums, fks |-> b.fks, keys |-> b.keys, indexes |-> I]
<1>1. b = With4(b.indexes)
  BY DEF IsTable
<1>2. \A I, J : [With4(I) EXCEPT !.indexes = J] = With4(J)
  <2> SUFFICES ASSUME NEW I, NEW J PROVE [With4(I) EXCEPT !.indexes = J] = With4(J)
    OBVIOUS
  <2> DEFINE x == [With4(I) EXCEPT !.indexes = J]
             y == With4(J)
  <2>1. x = [p \in Parts |-> x[p]] /\ y = [p \in Parts |-> y[p]]
    OBVIOUS
  <2>2. /\ x["enums"] = y["enums"] /\ x["fks"] = y["fks"] /\ x["keys"] = y["keys"]
        /\ x["indexes"] = y["indexes"]
    OBVIOUS
  <2> HIDE DEF x, y
  <2> QED  BY <2>1, <2>2 DEF x, y
<1>3. \A I : With4(I).indexes = I /\ IsTable(With4(I))
  BY DEF IsTable
<1>4. \A I, X : Indexing(With4(I), X) = With4(I \cup X)
  <2> HIDE DEF With4
  <2> QED  BY <1>2, <1>3 DEF Indexing
<1>5. \A I, X : Unindexing(With4(I), X) = With4({ix \in I : ix[1] \notin X})
  <2> HIDE DEF With4
  <2> QED  BY <1>2, <1>3 DEF Unindexing
<1> HIDE DEF With4
<1>6. \A X : Indexing(b, X) = With4(b.indexes \cup X)
  BY <1>1, <1>4
<1>7. \A X : Unindexing(b, X) = With4({ix \in b.indexes : ix[1] \notin X})
  BY <1>1, <1>5
<1>8. Indexing(b, {}) = b /\ Unindexing(b, {}) = b
  <2>1. b.indexes \cup {} = b.indexes /\ {ix \in b.indexes : ix[1] \notin {}} = b.indexes
    OBVIOUS
  <2> QED  BY <1>1, <1>6, <1>7, <2>1
<1>9. \A X, Y : Indexing(Indexing(b, X), Y) = Indexing(b, X \cup Y)
  <2> SUFFICES ASSUME NEW X, NEW Y
               PROVE  Indexing(Indexing(b, X), Y) = Indexing(b, X \cup Y)
    OBVIOUS
  <2> DEFINE B == b.indexes \cup X
             P == B \cup Y
             Q == b.indexes \cup (X \cup Y)
  <2>1. P = Q
    OBVIOUS
  <2>2. Indexing(b, X) = With4(B) /\ Indexing(b, X \cup Y) = With4(Q)
    BY <1>6
  <2>3. Indexing(With4(B), Y) = With4(P)
    BY <1>4
  <2> HIDE DEF P, Q, B
  <2> QED  BY <2>1, <2>2, <2>3
<1>10. \A X, Y : Unindexing(Unindexing(b, X), Y) = Unindexing(b, X \cup Y)
  <2> SUFFICES ASSUME NEW X, NEW Y
               PROVE  Unindexing(Unindexing(b, X), Y) = Unindexing(b, X \cup Y)
    OBVIOUS
  <2> DEFINE B == {ix \in b.indexes : ix[1] \notin X}
             P == {ix \in B : ix[1] \notin Y}
             Q == {ix \in b.indexes : ix[1] \notin X \cup Y}
  <2>1. P = Q
    OBVIOUS
  <2>2. Unindexing(b, X) = With4(B) /\ Unindexing(b, X \cup Y) = With4(Q)
    BY <1>7
  <2>3. Unindexing(With4(B), Y) = With4(P)
    BY <1>5
  <2> HIDE DEF P, Q, B
  <2> QED  BY <2>1, <2>2, <2>3
<1> QED  BY <1>3, <1>6, <1>7, <1>8, <1>9, <1>10

-----------------------------------------------------------------------------
(***************************************************************************)
(* The blocks the scripts are made of.                                     *)
(***************************************************************************)
Cols(cols) == {<<c, <<c>>>> : c \in cols}

Distinct(s) == \A i, j \in DOMAIN s : s[i] = s[j] => i = j

UpTo(s, i) == {s[j] : j \in 1 .. i}

\* The first elements of a tuple, one more at a time.
LEMMA UpToIs ==
  ASSUME NEW s, IsTuple(s)
  PROVE  /\ UpTo(s, 0) = {} /\ UpTo(s, Len(s)) = RangeOf(s)
         /\ \A i \in 1 .. Len(s) : UpTo(s, i) = UpTo(s, i - 1) \cup {s[i]}
         /\ Distinct(s) => \A i \in 1 .. Len(s) : s[i] \notin UpTo(s, i - 1)
<1>1. Len(s) \in Nat /\ DOMAIN s = 1 .. Len(s)
  BY DEF IsTuple
<1>2. ASSUME NEW i \in 1 .. Len(s)  PROVE UpTo(s, i) = UpTo(s, i - 1) \cup {s[i]}
  <2>1. \A j : j \in 1 .. i <=> j \in 1 .. i - 1 \/ j = i
    BY <1>1
  <2> QED  BY <2>1 DEF UpTo
<1>3. ASSUME NEW i \in 1 .. Len(s), Distinct(s)  PROVE s[i] \notin UpTo(s, i - 1)
  BY <1>1, <1>3 DEF UpTo, Distinct
<1> QED  BY <1>1, <1>2, <1>3 DEF UpTo, RangeOf

\* Types are made whether or not they are there.
LEMMA EnumsLead ==
  ASSUME NEW E, NEW f, NEW es, IsTuple(es)
  PROVE  Leads(Enums(es), Cat(E, f), Cat(E \cup RangeOf(es), f))
<1> DEFINE ops == Enums(es)
           F(i) == E \cup UpTo(es, i)
           R == E \cup RangeOf(es)
           g == [i \in 0 .. Len(es) |-> Cat(F(i), f)]
<1>1. Len(es) \in Nat /\ ops = [i \in 1 .. Len(es) |-> CreateEnum(es[i])]
  BY DEF Enums, IsTuple
<1>2. \A e : IsOp(CreateEnum(e))
  BY DEF CreateEnum, IsOp, Kinds
<1> HIDE DEF ops
<1>3. IsScript(ops) /\ Len(ops) = Len(es)
  <2>1. ops = [i \in 1 .. Len(es) |-> ops[i]] /\ \A i \in 1 .. Len(es) : IsOp(ops[i])
    BY <1>1, <1>2
  <2> QED  BY <1>1, <2>1, ManyOps
<1>4. F(0) = E /\ F(Len(es)) = R
  BY UpToIs
<1>5. ASSUME NEW i \in 1 .. Len(es)  PROVE F(i) = F(i - 1) \cup {es[i]}
  BY UpToIs
<1>6. \A i \in 1 .. Len(es) : Cat(F(i), f) = Step(Cat(F(i - 1), f), ops[i])
  <2> TAKE i \in 1 .. Len(es)
  <2> DEFINE G == F(i - 1)
             H == G \cup {es[i]}
  <2>1. F(i) = H
    BY <1>5
  <2>2. Step(Cat(G, f), CreateEnum(es[i])) = Cat(H, f)
    <3> HIDE DEF G
    <3> QED  BY TypeSteps
  <2> HIDE DEF F, H
  <2> QED  BY <1>1, <2>1, <2>2
<1> HIDE DEF F, R
<1>7. g[0] = Cat(E, f) /\ g[Len(es)] = Cat(R, f)
  BY <1>1, <1>4
<1>8. \A i \in 1 .. Len(es) : g[i] = Step(g[i - 1], ops[i])
  <2> TAKE i \in 1 .. Len(es)
  <2>1. i \in 0 .. Len(es) /\ i - 1 \in 0 .. Len(es)
    BY <1>1
  <2>2. g[i] = Cat(F(i), f) /\ g[i - 1] = Cat(F(i - 1), f)
    BY <2>1
  <2> HIDE DEF g
  <2> QED  BY <1>6, <2>2
<1> HIDE DEF g
<1>9. Leads(ops, Cat(E, f), Cat(R, f))
  BY <1>3, <1>7, <1>8, RunsAlong
<1> QED  BY <1>9 DEF ops, R

\* Types are dropped where no table uses them.
LEMMA NoEnumsLead ==
  ASSUME NEW E, NEW f, NEW es, IsTuple(es),
         \A t \in DOMAIN f : f[t].enums \cap RangeOf(es) = {}
  PROVE  Leads(NoEnums(es), Cat(E, f), Cat(E \ RangeOf(es), f))
<1> DEFINE ops == NoEnums(es)
           F(i) == E \ UpTo(es, i)
           R == E \ RangeOf(es)
           g == [i \in 0 .. Len(es) |-> Cat(F(i), f)]
<1>1. Len(es) \in Nat /\ ops = [i \in 1 .. Len(es) |-> DropEnum(es[i])]
      /\ DOMAIN es = 1 .. Len(es)
  BY DEF NoEnums, IsTuple
<1>2. \A e : IsOp(DropEnum(e))
  BY DEF DropEnum, IsOp, Kinds
<1> HIDE DEF ops
<1>3. IsScript(ops) /\ Len(ops) = Len(es)
  <2>1. ops = [i \in 1 .. Len(es) |-> ops[i]] /\ \A i \in 1 .. Len(es) : IsOp(ops[i])
    BY <1>1, <1>2
  <2> QED  BY <1>1, <2>1, ManyOps
<1>4. F(0) = E /\ F(Len(es)) = R
  BY UpToIs
<1>5. ASSUME NEW i \in 1 .. Len(es)  PROVE F(i) = F(i - 1) \ {es[i]}
  BY UpToIs
<1>6. \A i \in 1 .. Len(es) : Cat(F(i), f) = Step(Cat(F(i - 1), f), ops[i])
  <2> TAKE i \in 1 .. Len(es)
  <2> DEFINE G == F(i - 1)
             H == G \ {es[i]}
  <2>1. F(i) = H
    BY <1>5
  <2>2. \A t \in DOMAIN f : es[i] \notin f[t].enums
    BY <1>1 DEF RangeOf
  <2>3. Step(Cat(G, f), DropEnum(es[i])) = Cat(H, f)
    <3> HIDE DEF G
    <3> QED  BY <2>2, TypeSteps
  <2> HIDE DEF F, H
  <2> QED  BY <1>1, <2>1, <2>3
<1> HIDE DEF F, R
<1>7. g[0] = Cat(E, f) /\ g[Len(es)] = Cat(R, f)
  BY <1>1, <1>4
<1>8. \A i \in 1 .. Len(es) : g[i] = Step(g[i - 1], ops[i])
  <2> TAKE i \in 1 .. Len(es)
  <2>1. i \in 0 .. Len(es) /\ i - 1 \in 0 .. Len(es)
    BY <1>1
  <2>2. g[i] = Cat(F(i), f) /\ g[i - 1] = Cat(F(i - 1), f)
    BY <2>1
  <2> HIDE DEF g
  <2> QED  BY <1>6, <2>2
<1> HIDE DEF g
<1>9. Leads(ops, Cat(E, f), Cat(R, f))
  BY <1>3, <1>7, <1>8, RunsAlong
<1> QED  BY <1>9 DEF ops, R

\* Indexes with new names are added to a table.
LEMMA IndexesLead ==
  ASSUME NEW E, NEW f, IsFun(f), NEW t \in DOMAIN f, IsTable(f[t]),
         NEW cols, IsTuple(cols), Distinct(cols),
         \A ix \in f[t].indexes : ix[1] \notin RangeOf(cols)
  PROVE  Leads(Indexes(t, cols), Cat(E, f),
               Cat(E, With(f, t, Indexing(f[t], Cols(RangeOf(cols))))))
<1> DEFINE ops == Indexes(t, cols)
           n == Len(cols)
           F(i) == With(f, t, Indexing(f[t], Cols(UpTo(cols, i))))
           g == [i \in 0 .. n |-> Cat(E, F(i))]
           Ix(i) == <<cols[i], <<cols[i]>>>>
<1>1. n \in Nat /\ ops = [i \in 1 .. n |-> AddIndex(t, Ix(i))] /\ DOMAIN cols = 1 .. n
  BY DEF Indexes, IsTuple
<1>2. \A ix : IsOp(AddIndex(t, ix))
  BY DEF AddIndex, IsOp, Kinds
<1> HIDE DEF ops, n
<1>3. IsScript(ops) /\ Len(ops) = n
  <2>1. ops = [i \in 1 .. n |-> ops[i]] /\ \A i \in 1 .. n : IsOp(ops[i])
    BY <1>1, <1>2
  <2> QED  BY <1>1, <2>1, ManyOps
<1>4. F(0) = f /\ UpTo(cols, n) = RangeOf(cols)
  <2>1. Cols(UpTo(cols, 0)) = {} /\ UpTo(cols, n) = RangeOf(cols)
    BY UpToIs DEF Cols, n
  <2>2. F(0) = With(f, t, f[t])
    BY <2>1, BodiesAre
  <2> QED  BY <2>1, <2>2, WithSame
<1>5. ASSUME NEW i \in 1 .. n  PROVE Cat(E, F(i)) = Step(Cat(E, F(i - 1)), AddIndex(t, Ix(i)))
  <2> DEFINE X == Cols(UpTo(cols, i - 1))
             b == Indexing(f[t], X)
             h == F(i - 1)
  <2>1. /\ IsFun(h) /\ t \in DOMAIN h /\ h[t] = b
        /\ b.indexes = f[t].indexes \cup X
    BY WithIs, BodiesAre
  <2>2. /\ cols[i] \notin UpTo(cols, i - 1) /\ cols[i] \in RangeOf(cols)
        /\ UpTo(cols, i) = UpTo(cols, i - 1) \cup {cols[i]}
    BY <1>1, UpToIs DEF RangeOf, n
  <2>3. X \cup {Ix(i)} = Cols(UpTo(cols, i))
    BY <2>2 DEF Cols
  <2>4. \A x \in X : x[1] # cols[i]
    BY <2>2 DEF Cols
  <2>5. \A x \in b.indexes : x[1] # Ix(i)[1]
    BY <2>1, <2>2, <2>4
  <2>6. Indexing(b, {Ix(i)}) = Indexing(f[t], Cols(UpTo(cols, i)))
    <3> HIDE DEF X
    <3> QED  BY <2>3, BodiesAre
  <2>7. With(h, t, Indexing(b, {Ix(i)})) = F(i)
    BY <2>6, WithTwice
  <2> HIDE DEF h, b
  <2>8. Step(Cat(E, h), AddIndex(t, Ix(i))) = Cat(E, With(h, t, Indexing(b, {Ix(i)})))
    BY <2>1, <2>5, IndexSteps
  <2> QED  BY <2>7, <2>8 DEF h
<1> HIDE DEF F, Ix
<1>6. ASSUME NEW i \in 1 .. n  PROVE g[i] = Step(g[i - 1], ops[i])
  <2>1. i \in 0 .. n /\ i - 1 \in 0 .. n
    BY <1>1
  <2>2. g[i] = Cat(E, F(i)) /\ g[i - 1] = Cat(E, F(i - 1)) /\ ops[i] = AddIndex(t, Ix(i))
    BY <1>1, <2>1
  <2> HIDE DEF g
  <2> QED  BY <1>5, <2>2
<1>7. g[0] = Cat(E, f) /\ g[n] = Cat(E, F(n))
  BY <1>1, <1>4
<1> HIDE DEF g
<1>8. Leads(ops, Cat(E, f), Cat(E, F(n)))
  BY <1>3, <1>6, <1>7, RunsAlong
<1> QED  BY <1>4, <1>8 DEF F, ops

\* Indexes of a table are dropped by their names.
LEMMA NoIndexesLead ==
  ASSUME NEW E, NEW f, IsFun(f), NEW t \in DOMAIN f, IsTable(f[t]),
         NEW names, IsTuple(names), Distinct(names),
         \A name \in RangeOf(names) : \E ix \in f[t].indexes : ix[1] = name
  PROVE  Leads(NoIndexes(t, names), Cat(E, f),
               Cat(E, With(f, t, Unindexing(f[t], RangeOf(names)))))
<1> DEFINE ops == NoIndexes(t, names)
           n == Len(names)
           F(i) == With(f, t, Unindexing(f[t], UpTo(names, i)))
           g == [i \in 0 .. n |-> Cat(E, F(i))]
<1>1. n \in Nat /\ ops = [i \in 1 .. n |-> DropIndex(t, names[i])] /\ DOMAIN names = 1 .. n
  BY DEF NoIndexes, IsTuple
<1>2. \A name : IsOp(DropIndex(t, name))
  BY DEF DropIndex, IsOp, Kinds
<1> HIDE DEF ops, n
<1>3. IsScript(ops) /\ Len(ops) = n
  <2>1. ops = [i \in 1 .. n |-> ops[i]] /\ \A i \in 1 .. n : IsOp(ops[i])
    BY <1>1, <1>2
  <2> QED  BY <1>1, <2>1, ManyOps
<1>4. F(0) = f /\ UpTo(names, n) = RangeOf(names)
  <2>1. UpTo(names, 0) = {} /\ UpTo(names, n) = RangeOf(names)
    BY UpToIs DEF n
  <2>2. F(0) = With(f, t, f[t])
    BY <2>1, BodiesAre
  <2> QED  BY <2>1, <2>2, WithSame
<1>5. ASSUME NEW i \in 1 .. n
      PROVE  Cat(E, F(i)) = Step(Cat(E, F(i - 1)), DropIndex(t, names[i]))
  <2> DEFINE X == UpTo(names, i - 1)
             b == Unindexing(f[t], X)
             h == F(i - 1)
  <2>1. /\ IsFun(h) /\ t \in DOMAIN h /\ h[t] = b
        /\ b.indexes = {ix \in f[t].indexes : ix[1] \notin X}
    BY WithIs, BodiesAre
  <2>2. /\ names[i] \notin X /\ names[i] \in RangeOf(names)
        /\ X \cup {names[i]} = UpTo(names, i)
    BY <1>1, UpToIs DEF RangeOf, n
  <2>3. \E x \in b.indexes : x[1] = names[i]
    BY <2>1, <2>2
  <2>4. Unindexing(b, {names[i]}) = Unindexing(f[t], UpTo(names, i))
    <3> HIDE DEF X
    <3> QED  BY <2>2, BodiesAre
  <2>5. With(h, t, Unindexing(b, {names[i]})) = F(i)
    BY <2>4, WithTwice
  <2> HIDE DEF h, b
  <2>6. Step(Cat(E, h), DropIndex(t, names[i]))
        = Cat(E, With(h, t, Unindexing(b, {names[i]})))
    BY <2>1, <2>3, IndexSteps
  <2> QED  BY <2>5, <2>6 DEF h
<1> HIDE DEF F
<1>6. ASSUME NEW i \in 1 .. n  PROVE g[i] = Step(g[i - 1], ops[i])
  <2>1. i \in 0 .. n /\ i - 1 \in 0 .. n
    BY <1>1
  <2>2. g[i] = Cat(E, F(i)) /\ g[i - 1] = Cat(E, F(i - 1)) /\ ops[i] = DropIndex(t, names[i])
    BY <1>1, <2>1
  <2> HIDE DEF g
  <2> QED  BY <1>5, <2>2
<1>7. g[0] = Cat(E, f) /\ g[n] = Cat(E, F(n))
  BY <1>1, <1>4
<1> HIDE DEF g
<1>8. Leads(ops, Cat(E, f), Cat(E, F(n)))
  BY <1>3, <1>6, <1>7, RunsAlong
<1> QED  BY <1>4, <1>8 DEF F, ops

\* A table is made, with an index on each of some columns.
LEMMA TableLeads ==
  ASSUME NEW E, NEW f, IsFun(f), NEW t, t \notin DOMAIN f,
         NEW enums, NEW fks, NEW keys, enums \subseteq E,
         \A fk \in fks : fk[2] \in DOMAIN f,
         NEW cols, IsTuple(cols), Distinct(cols)
  PROVE  Leads(<<CreateTable(t, Table(enums, fks, keys))>> \o Indexes(t, cols), Cat(E, f),
               Cat(E, Put(f, t, Model(enums, fks, keys, RangeOf(cols)))))
<1> DEFINE b == Table(enums, fks, keys)
           o == CreateTable(t, b)
           h == Put(f, t, b)
<1>1. /\ IsTable(b) /\ b.enums = enums /\ b.fks = fks /\ b.indexes = {}
  BY DEF Table, IsTable
<1>2. Model(enums, fks, keys, RangeOf(cols)) = Indexing(b, Cols(RangeOf(cols)))
  BY <1>1 DEF Model, Indexing, Cols
<1> HIDE DEF b
<1>3. IsOp(o)
  BY <1>1 DEF IsOp, Kinds, CreateTable
<1>4. Step(Cat(E, f), o) = Cat(E, h)
  BY <1>1, CreateStep
<1>5. Leads(<<o>>, Cat(E, f), Cat(E, h))
  <2> HIDE DEF o, h
  <2> QED  BY <1>3, <1>4, OneLeads
<1>6. IsFun(h) /\ t \in DOMAIN h /\ h[t] = b
  <2>1. DOMAIN h = DOMAIN f \cup {t}
    BY DEF Put
  <2>2. h[t] = b
    BY DEF Put
  <2>3. IsFun(h)
    BY DEF Put, IsFun
  <2> QED  BY <2>1, <2>2, <2>3
<1>7. \A x : With(h, t, x) = Put(f, t, x)
  BY WithTwice
<1> HIDE DEF h, o
<1>8. Leads(Indexes(t, cols), Cat(E, h), Cat(E, With(h, t, Indexing(h[t], Cols(RangeOf(cols))))))
  BY <1>1, <1>6, IndexesLead
<1>9. Leads(<<o>> \o Indexes(t, cols), Cat(E, f),
            Cat(E, With(h, t, Indexing(h[t], Cols(RangeOf(cols))))))
  BY <1>5, <1>8, ThenLeads
<1> QED  BY <1>2, <1>6, <1>7, <1>9 DEF o, b

\* A table is dropped, some of its indexes first.
LEMMA TableGoes ==
  ASSUME NEW E, NEW f, IsFun(f), NEW t \in DOMAIN f, IsTable(f[t]),
         NEW names, IsTuple(names), Distinct(names),
         \A name \in RangeOf(names) : \E ix \in f[t].indexes : ix[1] = name,
         \A s \in DOMAIN f \ {t} : \A fk \in f[s].fks : fk[2] # t
  PROVE  Leads(NoIndexes(t, names) \o <<DropTable(t)>>, Cat(E, f), Cat(E, Less(f, t)))
<1> DEFINE x == Unindexing(f[t], RangeOf(names))
           h == With(f, t, x)
           o == DropTable(t)
<1>1. Leads(NoIndexes(t, names), Cat(E, f), Cat(E, h))
  BY NoIndexesLead
<1>2. /\ DOMAIN h = DOMAIN f /\ Less(h, t) = Less(f, t)
      /\ \A s \in DOMAIN f \ {t} : h[s] = f[s]
  <2> HIDE DEF x
  <2>1. DOMAIN h = DOMAIN f
    BY DEF With
  <2>2. \A s \in DOMAIN f \ {t} : h[s] = f[s]
    BY DEF With
  <2>3. Less(h, t) = Less(f, t)
    BY <2>1, <2>2 DEF Less
  <2> QED  BY <2>1, <2>2, <2>3
<1>3. IsOp(o)
  BY DEF IsOp, Kinds, DropTable
<1> HIDE DEF h, x
<1>4. Step(Cat(E, h), o) = Cat(E, Less(f, t))
  BY <1>2, DropStep
<1> HIDE DEF o
<1>5. Leads(<<o>>, Cat(E, h), Cat(E, Less(f, t)))
  BY <1>3, <1>4, OneLeads
<1>6. Leads(NoIndexes(t, names) \o <<o>>, Cat(E, f), Cat(E, Less(f, t)))
  BY <1>1, <1>5, ThenLeads
<1> QED  BY <1>6 DEF o

-----------------------------------------------------------------------------
(***************************************************************************)
(* The tables.                                                             *)
(***************************************************************************)
\* The tables in the order the scripts make them.
Order ==
  <<"users", "refresh_tokens", "cars", "mileage_readings", "reviews",
    "content_pages", "notifications", "devices", "service_centers", "mechanics",
    "services", "service_items", "service_transitions", "condition_images", "trips",
    "trip_points", "sos_providers", "sos_requests", "fuel_stations",
    "insurance_tariffs", "insurance_policies", "subscription_plans", "payments",
    "insurance_companies", "stories", "audit_logs">>

First(k) == {Order[i] : i \in 1 .. k}

Tables(B, k) == [t \in First(k) |-> B[t]]

Place ==
  [users |-> 1, refresh_tokens |-> 2, cars |-> 3, mileage_readings |-> 4, reviews
   |-> 5, content_pages |-> 6, notifications |-> 7, devices |-> 8, service_centers
   |-> 9, mechanics |-> 10, services |-> 11, service_items |-> 12,
   service_transitions |-> 13, condition_images |-> 14, trips |-> 15, trip_points
   |-> 16, sos_providers |-> 17, sos_requests |-> 18, fuel_stations |-> 19,
   insurance_tariffs |-> 20, insurance_policies |-> 21, subscription_plans |-> 22,
   payments |-> 23, insurance_companies |-> 24, stories |-> 25, audit_logs |-> 26]

\* No table is made twice.
LEMMA Places ==
  /\ DOMAIN Order = 1 .. 26
  /\ \A i \in 1 .. 26 : Place[Order[i]] = i
  /\ \A i, j \in 1 .. 26 : Order[i] = Order[j] => i = j
<1>1. DOMAIN Order = 1 .. 26
  BY DEF Order
<1>2. /\ Order[1] = "users" /\ Place["users"] = 1
      /\ Order[2] = "refresh_tokens" /\ Place["refresh_tokens"] = 2
      /\ Order[3] = "cars" /\ Place["cars"] = 3
      /\ Order[4] = "mileage_readings" /\ Place["mileage_readings"] = 4
      /\ Order[5] = "reviews" /\ Place["reviews"] = 5
      /\ Order[6] = "content_pages" /\ Place["content_pages"] = 6
      /\ Order[7] = "notifications" /\ Place["notifications"] = 7
      /\ Order[8] = "devices" /\ Place["devices"] = 8
      /\ Order[9] = "service_centers" /\ Place["service_centers"] = 9
      /\ Order[10] = "mechanics" /\ Place["mechanics"] = 10
      /\ Order[11] = "services" /\ Place["services"] = 11
      /\ Order[12] = "service_items" /\ Place["service_items"] = 12
      /\ Order[13] = "service_transitions" /\ Place["service_transitions"] = 13
  BY DEF Order, Place
<1>3. /\ Order[14] = "condition_images" /\ Place["condition_images"] = 14
      /\ Order[15] = "trips" /\ Place["trips"] = 15
      /\ Order[16] = "trip_points" /\ Place["trip_points"] = 16
      /\ Order[17] = "sos_providers" /\ Place["sos_providers"] = 17
      /\ Order[18] = "sos_requests" /\ Place["sos_requests"] = 18
      /\ Order[19] = "fuel_stations" /\ Place["fuel_stations"] = 19
      /\ Order[20] = "insurance_tariffs" /\ Place["insurance_tariffs"] = 20
      /\ Order[21] = "insurance_policies" /\ Place["insurance_policies"] = 21
      /\ Order[22] = "subscription_plans" /\ Place["subscription_plans"] = 22
      /\ Order[23] = "payments" /\ Place["payments"] = 23
      /\ Order[24] = "insurance_companies" /\ Place["insurance_companies"] = 24
      /\ Order[25] = "stories" /\ Place["stories"] = 25
      /\ Order[26] = "audit_logs" /\ Place["audit_logs"] = 26
  BY DEF Order, Place
<1>4. \A i \in 1 .. 26 : Place[Order[i]] = i
  <2> TAKE i \in 1 .. 26
  <2>1. i \in 1 .. 13 \/ i \in 14 .. 26
    OBVIOUS
  <2>2. i \in 1 .. 13 => Place[Order[i]] = i
    BY <1>2
  <2>3. i \in 14 .. 26 => Place[Order[i]] = i
    BY <1>3
  <2> QED  BY <2>1, <2>2, <2>3
<1> QED  BY <1>1, <1>4

\* The names of the tables, by number.
LEMMA OrderIs ==
  /\ Order[1] = "users" /\ Order[2] = "refresh_tokens" /\ Order[3] = "cars"
  /\ Order[4] = "mileage_readings" /\ Order[5] = "reviews" /\ Order[6] = "content_pages"
  /\ Order[7] = "notifications" /\ Order[8] = "devices" /\ Order[9] = "service_centers"
  /\ Order[10] = "mechanics" /\ Order[11] = "services" /\ Order[12] = "service_items"
  /\ Order[13] = "service_transitions" /\ Order[14] = "condition_images" /\ Order[15] = "trips"
  /\ Order[16] = "trip_points" /\ Order[17] = "sos_providers" /\ Order[18] = "sos_requests"
  /\ Order[19] = "fuel_stations" /\ Order[20] = "insurance_tariffs"
  /\ Order[21] = "insurance_policies"
  /\ Order[22] = "subscription_plans" /\ Order[23] = "payments"
  /\ Order[24] = "insurance_companies"
  /\ Order[25] = "stories" /\ Order[26] = "audit_logs"
BY DEF Order

\* The declaration a table has is the one of its module.
LEMMA DeclaredIs ==
  /\ DOMAIN Metadata = First(26)
  /\ Metadata["users"] = DeclaredByUsers.users
  /\ Metadata["refresh_tokens"] = DeclaredByAuth.refresh_tokens
  /\ Metadata["cars"] = DeclaredByCars.cars
  /\ Metadata["mileage_readings"] = DeclaredByCars.mileage_readings
  /\ Metadata["reviews"] = DeclaredByReviews.reviews
  /\ Metadata["content_pages"] = DeclaredByContent.content_pages
  /\ Metadata["notifications"] = DeclaredByNotifications.notifications
  /\ Metadata["devices"] = DeclaredByNotifications.devices
  /\ Metadata["service_centers"] = DeclaredByCenters.service_centers
  /\ Metadata["mechanics"] = DeclaredByMechanics.mechanics
  /\ Metadata["services"] = DeclaredByServices.services
  /\ Metadata["service_items"] = DeclaredByServices.service_items
  /\ Metadata["service_transitions"] = DeclaredByServices.service_transitions
  /\ Metadata["condition_images"] = DeclaredByServices.condition_images
  /\ Metadata["trips"] = DeclaredByTrips.trips
  /\ Metadata["trip_points"] = DeclaredByTrips.trip_points
  /\ Metadata["sos_providers"] = DeclaredBySos.sos_providers
  /\ Metadata["sos_requests"] = DeclaredBySos.sos_requests
  /\ Metadata["fuel_stations"] = DeclaredByFuelStations.fuel_stations
  /\ Metadata["insurance_tariffs"] = DeclaredByInsurance.insurance_tariffs
  /\ Metadata["insurance_policies"] = DeclaredByInsurance.insurance_policies
  /\ Metadata["subscription_plans"] = DeclaredByBilling.subscription_plans
  /\ Metadata["payments"] = DeclaredByBilling.payments
  /\ Metadata["insurance_companies"] = DeclaredByInsurance.insurance_companies
  /\ Metadata["stories"] = DeclaredByStories.stories
  /\ Metadata["audit_logs"] = DeclaredByAudit.audit_logs
<1> DEFINE all ==
             <<DeclaredByUsers, DeclaredByAuth, DeclaredByAudit, DeclaredByCars,
               DeclaredByReviews, DeclaredByContent, DeclaredByStories,
               DeclaredByNotifications, DeclaredByCenters, DeclaredByMechanics,
               DeclaredByServices, DeclaredByTrips, DeclaredBySos,
               DeclaredByFuelStations, DeclaredByInsurance, DeclaredByBilling>>
           owner(t) == CHOOSE i \in DOMAIN all : t \in DOMAIN all[i]
<1>1. Metadata = [t \in UNION {DOMAIN all[i] : i \in DOMAIN all} |-> all[owner(t)][t]]
  BY DEF Metadata
<1>2. DOMAIN all = 1 .. 16
  OBVIOUS
<1>3. /\ all[1] = DeclaredByUsers
      /\ all[2] = DeclaredByAuth
      /\ all[3] = DeclaredByAudit
      /\ all[4] = DeclaredByCars
      /\ all[5] = DeclaredByReviews
      /\ all[6] = DeclaredByContent
      /\ all[7] = DeclaredByStories
      /\ all[8] = DeclaredByNotifications
  OBVIOUS
<1>4. /\ all[9] = DeclaredByCenters
      /\ all[10] = DeclaredByMechanics
      /\ all[11] = DeclaredByServices
      /\ all[12] = DeclaredByTrips
      /\ all[13] = DeclaredBySos
      /\ all[14] = DeclaredByFuelStations
      /\ all[15] = DeclaredByInsurance
      /\ all[16] = DeclaredByBilling
  OBVIOUS
<1> HIDE DEF all
<1>5. /\ DOMAIN all[1] = {"users"}
      /\ DOMAIN all[2] = {"refresh_tokens"}
      /\ DOMAIN all[3] = {"audit_logs"}
      /\ DOMAIN all[4] = {"cars", "mileage_readings"}
      /\ DOMAIN all[5] = {"reviews"}
      /\ DOMAIN all[6] = {"content_pages"}
      /\ DOMAIN all[7] = {"stories"}
      /\ DOMAIN all[8] = {"notifications", "devices"}
  BY <1>3 DEF DeclaredByUsers, DeclaredByAuth, DeclaredByAudit, DeclaredByCars,
              DeclaredByReviews, DeclaredByContent, DeclaredByStories,
              DeclaredByNotifications
<1>6. /\ DOMAIN all[9] = {"service_centers"}
      /\ DOMAIN all[10] = {"mechanics"}
      /\ DOMAIN all[11] = {"services", "service_items", "service_transitions", "condition_images"}
      /\ DOMAIN all[12] = {"trips", "trip_points"}
      /\ DOMAIN all[13] = {"sos_providers", "sos_requests"}
      /\ DOMAIN all[14] = {"fuel_stations"}
      /\ DOMAIN all[15] = {"insurance_companies", "insurance_tariffs", "insurance_policies"}
      /\ DOMAIN all[16] = {"subscription_plans", "payments"}
  BY <1>4 DEF DeclaredByCenters, DeclaredByMechanics, DeclaredByServices,
              DeclaredByTrips, DeclaredBySos, DeclaredByFuelStations,
              DeclaredByInsurance, DeclaredByBilling
<1>7. ASSUME NEW i \in 1 .. 16, NEW t \in DOMAIN all[i],
             \A j \in 1 .. 16 : t \in DOMAIN all[j] => j = i
      PROVE  t \in DOMAIN Metadata /\ Metadata[t] = all[i][t]
  <2>1. owner(t) = i
    BY <1>2, <1>7
  <2>2. t \in UNION {DOMAIN all[j] : j \in DOMAIN all}
    BY <1>2
  <2> HIDE DEF owner
  <2> QED  BY <1>1, <2>1, <2>2
<1> DEFINE Own == 
             [users |-> 1, refresh_tokens |-> 2, cars |-> 4, mileage_readings |-> 4,
              reviews |-> 5, content_pages |-> 6, notifications |-> 8, devices |->
              8, service_centers |-> 9, mechanics |-> 10, services |-> 11,
              service_items |-> 11, service_transitions |-> 11, condition_images |->
              11, trips |-> 12, trip_points |-> 12, sos_providers |-> 13,
              sos_requests |-> 13, fuel_stations |-> 14, insurance_tariffs |-> 15,
              insurance_policies |-> 15, subscription_plans |-> 16, payments |-> 16,
              insurance_companies |-> 15, stories |-> 7, audit_logs |-> 3]
<1>8. /\ \A t \in DOMAIN all[1] : Own[t] = 1
      /\ \A t \in DOMAIN all[2] : Own[t] = 2
      /\ \A t \in DOMAIN all[3] : Own[t] = 3
      /\ \A t \in DOMAIN all[4] : Own[t] = 4
      /\ \A t \in DOMAIN all[5] : Own[t] = 5
      /\ \A t \in DOMAIN all[6] : Own[t] = 6
      /\ \A t \in DOMAIN all[7] : Own[t] = 7
      /\ \A t \in DOMAIN all[8] : Own[t] = 8
  BY <1>5
<1>9. /\ \A t \in DOMAIN all[9] : Own[t] = 9
      /\ \A t \in DOMAIN all[10] : Own[t] = 10
      /\ \A t \in DOMAIN all[11] : Own[t] = 11
      /\ \A t \in DOMAIN all[12] : Own[t] = 12
      /\ \A t \in DOMAIN all[13] : Own[t] = 13
      /\ \A t \in DOMAIN all[14] : Own[t] = 14
      /\ \A t \in DOMAIN all[15] : Own[t] = 15
      /\ \A t \in DOMAIN all[16] : Own[t] = 16
  BY <1>6
<1> HIDE DEF Own
<1>10. \A i \in 1 .. 16 : \A t \in DOMAIN all[i] : Own[t] = i
  <2> TAKE i \in 1 .. 16
  <2>1. i \in 1 .. 8 \/ i \in 9 .. 16
    OBVIOUS
  <2>2. i \in 1 .. 8 => \A t \in DOMAIN all[i] : Own[t] = i
    BY <1>8
  <2>3. i \in 9 .. 16 => \A t \in DOMAIN all[i] : Own[t] = i
    BY <1>9
  <2> QED  BY <2>1, <2>2, <2>3
<1>11. ASSUME NEW i \in 1 .. 16, NEW t \in DOMAIN all[i]
       PROVE  t \in DOMAIN Metadata /\ Metadata[t] = all[i][t]
  BY <1>7, <1>10
<1>12. /\ "users" \in DOMAIN Metadata
       /\ Metadata["users"] = DeclaredByUsers.users
  BY <1>3, <1>5, <1>11
<1>13. /\ "refresh_tokens" \in DOMAIN Metadata
       /\ Metadata["refresh_tokens"] = DeclaredByAuth.refresh_tokens
  BY <1>3, <1>5, <1>11
<1>14. /\ "audit_logs" \in DOMAIN Metadata
       /\ Metadata["audit_logs"] = DeclaredByAudit.audit_logs
  BY <1>3, <1>5, <1>11
<1>15. /\ "cars" \in DOMAIN Metadata
       /\ Metadata["cars"] = DeclaredByCars.cars
       /\ "mileage_readings" \in DOMAIN Metadata
       /\ Metadata["mileage_readings"] = DeclaredByCars.mileage_readings
  BY <1>3, <1>5, <1>11
<1>16. /\ "reviews" \in DOMAIN Metadata
       /\ Metadata["reviews"] = DeclaredByReviews.reviews
  BY <1>3, <1>5, <1>11
<1>17. /\ "content_pages" \in DOMAIN Metadata
       /\ Metadata["content_pages"] = DeclaredByContent.content_pages
  BY <1>3, <1>5, <1>11
<1>18. /\ "stories" \in DOMAIN Metadata
       /\ Metadata["stories"] = DeclaredByStories.stories
  BY <1>3, <1>5, <1>11
<1>19. /\ "notifications" \in DOMAIN Metadata
       /\ Metadata["notifications"] = DeclaredByNotifications.notifications
       /\ "devices" \in DOMAIN Metadata
       /\ Metadata["devices"] = DeclaredByNotifications.devices
  BY <1>3, <1>5, <1>11
<1>20. /\ "service_centers" \in DOMAIN Metadata
       /\ Metadata["service_centers"] = DeclaredByCenters.service_centers
  BY <1>4, <1>6, <1>11
<1>21. /\ "mechanics" \in DOMAIN Metadata
       /\ Metadata["mechanics"] = DeclaredByMechanics.mechanics
  BY <1>4, <1>6, <1>11
<1>22. /\ "services" \in DOMAIN Metadata
       /\ Metadata["services"] = DeclaredByServices.services
       /\ "service_items" \in DOMAIN Metadata
       /\ Metadata["service_items"] = DeclaredByServices.service_items
       /\ "service_transitions" \in DOMAIN Metadata
       /\ Metadata["service_transitions"] = DeclaredByServices.service_transitions
       /\ "condition_images" \in DOMAIN Metadata
       /\ Metadata["condition_images"] = DeclaredByServices.condition_images
  BY <1>4, <1>6, <1>11
<1>23. /\ "trips" \in DOMAIN Metadata
       /\ Metadata["trips"] = DeclaredByTrips.trips
       /\ "trip_points" \in DOMAIN Metadata
       /\ Metadata["trip_points"] = DeclaredByTrips.trip_points
  BY <1>4, <1>6, <1>11
<1>24. /\ "sos_providers" \in DOMAIN Metadata
       /\ Metadata["sos_providers"] = DeclaredBySos.sos_providers
       /\ "sos_requests" \in DOMAIN Metadata
       /\ Metadata["sos_requests"] = DeclaredBySos.sos_requests
  BY <1>4, <1>6, <1>11
<1>25. /\ "fuel_stations" \in DOMAIN Metadata
       /\ Metadata["fuel_stations"] = DeclaredByFuelStations.fuel_stations
  BY <1>4, <1>6, <1>11
<1>26. /\ "insurance_companies" \in DOMAIN Metadata
       /\ Metadata["insurance_companies"] = DeclaredByInsurance.insurance_companies
       /\ "insurance_tariffs" \in DOMAIN Metadata
       /\ Metadata["insurance_tariffs"] = DeclaredByInsurance.insurance_tariffs
       /\ "insurance_policies" \in DOMAIN Metadata
       /\ Metadata["insurance_policies"] = DeclaredByInsurance.insurance_policies
  BY <1>4, <1>6, <1>11
<1>27. /\ "subscription_plans" \in DOMAIN Metadata
       /\ Metadata["subscription_plans"] = DeclaredByBilling.subscription_plans
       /\ "payments" \in DOMAIN Metadata
       /\ Metadata["payments"] = DeclaredByBilling.payments
  BY <1>4, <1>6, <1>11
<1>28. First(26) \subseteq DOMAIN Metadata
  <2> SUFFICES ASSUME NEW i \in 1 .. 26  PROVE Order[i] \in DOMAIN Metadata
    BY DEF First
  <2>1. i \in 1 .. 13 => Order[i] \in DOMAIN Metadata
    BY OrderIs, <1>12, <1>13, <1>14, <1>15, <1>16, <1>17, <1>18, <1>19, <1>20,
       <1>21, <1>22, <1>23, <1>24, <1>25, <1>26, <1>27
  <2>2. i \in 14 .. 26 => Order[i] \in DOMAIN Metadata
    BY OrderIs, <1>12, <1>13, <1>14, <1>15, <1>16, <1>17, <1>18, <1>19, <1>20,
       <1>21, <1>22, <1>23, <1>24, <1>25, <1>26, <1>27
  <2> QED  BY <2>1, <2>2
<1>29. DOMAIN Metadata \subseteq First(26)
  <2>1. \A t : t \in DOMAIN Metadata => \E i \in 1 .. 16 : t \in DOMAIN all[i]
    BY <1>1, <1>2
  <2>2. \A k \in 1 .. 26 : Order[k] \in First(26)
    BY DEF First
  <2>3. \A i \in 1 .. 8 : DOMAIN all[i] \subseteq First(26)
    BY <1>5, <2>2, OrderIs
  <2>4. \A i \in 9 .. 16 : DOMAIN all[i] \subseteq First(26)
    BY <1>6, <2>2, OrderIs
  <2> QED  BY <2>1, <2>3, <2>4
<1> QED  BY <1>12, <1>13, <1>14, <1>15, <1>16, <1>17, <1>18, <1>19, <1>20, <1>21,
            <1>22, <1>23, <1>24, <1>25, <1>26, <1>27, <1>28, <1>29

\* The k tables first made, and t the next one.
GrowsBy(B, k, n, t) ==
  /\ IsFun(Tables(B, k)) /\ DOMAIN Tables(B, k) = First(k)
  /\ IsFun(Tables(B, n)) /\ DOMAIN Tables(B, n) = First(n) /\ Tables(B, n)[t] = B[t]
  /\ t \notin First(k) /\ First(n) = First(k) \cup {t}
  /\ Put(Tables(B, k), t, B[t]) = Tables(B, n)
  /\ Less(Tables(B, n), t) = Tables(B, k)

\* One table more, or less.
LEMMA NextTable ==
  ASSUME NEW B, NEW k \in 0 .. 25, NEW n, n = k + 1, NEW t, t = Order[n]
  PROVE  GrowsBy(B, k, n, t)
<1>1. t \notin First(k)
  BY Places DEF First
<1>2. First(n) = First(k) \cup {t}
  <2>1. \A i : i \in 1 .. n <=> i \in 1 .. k \/ i = n
    OBVIOUS
  <2> QED  BY <2>1 DEF First
<1>3. /\ IsFun(Tables(B, k)) /\ DOMAIN Tables(B, k) = First(k)
      /\ IsFun(Tables(B, n)) /\ DOMAIN Tables(B, n) = First(n)
  BY DEF Tables, IsFun
<1>4. Put(Tables(B, k), t, B[t]) = Tables(B, n) /\ Tables(B, n)[t] = B[t]
  BY <1>2 DEF Tables, Put
<1>5. Less(Tables(B, n), t) = Tables(B, k)
  BY <1>1, <1>2 DEF Tables, Less
<1> QED  BY <1>1, <1>2, <1>3, <1>4, <1>5 DEF GrowsBy

\* What is among them.
LEMMA InFirst ==
  \A k \in 0 .. 26 : \A i \in 1 .. 26 : Order[i] \in First(k) <=> i <= k
  BY Places DEF First

\* More of the lists of names in the scripts.
LEMMA Lists ==
  /\ \A a : IsTuple(<<a>>) /\ RangeOf(<<a>>) = {a} /\ Distinct(<<a>>)
  /\ \A a, b : /\ IsTuple(<<a, b>>) /\ RangeOf(<<a, b>>) = {a, b}
               /\ a # b => Distinct(<<a, b>>)
  /\ \A a, b, d : /\ IsTuple(<<a, b, d>>) /\ RangeOf(<<a, b, d>>) = {a, b, d}
                  /\ a # b /\ a # d /\ b # d => Distinct(<<a, b, d>>)
  /\ \A a, b, d, e : /\ IsTuple(<<a, b, d, e>>) /\ RangeOf(<<a, b, d, e>>) = {a, b, d, e}
                     /\ a # b /\ a # d /\ a # e /\ b # d /\ b # e /\ d # e
                          => Distinct(<<a, b, d, e>>)
  /\ \A a, b, d, e, f :
       /\ IsTuple(<<a, b, d, e, f>>) /\ RangeOf(<<a, b, d, e, f>>) = {a, b, d, e, f}
       /\ a # b /\ a # d /\ a # e /\ a # f /\ b # d /\ b # e /\ b # f
            /\ d # e /\ d # f /\ e # f => Distinct(<<a, b, d, e, f>>)
BY DEF IsTuple, RangeOf, Distinct

\* One sequence after another.
IsJoin(V, a, b, c) ==
  /\ c \in Seq(V) /\ Len(c) = Len(a) + Len(b)
  /\ \A i \in 1 .. Len(a) + Len(b) : c[i] = IF i <= Len(a) THEN a[i] ELSE b[i - Len(a)]

\* What concatenation returns, by its elements.
LEMMA Joined ==
  ASSUME NEW V, NEW a \in Seq(V), NEW b \in Seq(V)  PROVE IsJoin(V, a, b, a \o b)
  BY DEF IsJoin

\* Scripts can be grouped as one likes.
Regroups(a, b, d) == a \o b \o d = a \o (b \o d)

\* Concatenation of scripts is associative.
LEMMA Regroup ==
  ASSUME NEW a, NEW b, NEW d, IsScript(a), IsScript(b), IsScript(d)
  PROVE  Regroups(a, b, d)
<1> DEFINE V == Ops(a) \cup Ops(b) \cup Ops(d)
           k == Len(a)
           m == Len(b)
           n == Len(d)
           p == a \o b
           q == b \o d
           x == p \o d
           y == a \o q
<1>1. a \in Seq(V) /\ b \in Seq(V) /\ d \in Seq(V)
  BY DEF IsScript
<1> HIDE DEF V
<1>2. k \in Nat /\ m \in Nat /\ n \in Nat
  BY <1>1
<1>3. /\ p \in Seq(V) /\ Len(p) = k + m
      /\ \A i \in 1 .. k + m : p[i] = IF i <= k THEN a[i] ELSE b[i - k]
  BY <1>1, Joined DEF IsJoin
<1>4. /\ q \in Seq(V) /\ Len(q) = m + n
      /\ \A i \in 1 .. m + n : q[i] = IF i <= m THEN b[i] ELSE d[i - m]
  BY <1>1, Joined DEF IsJoin
<1> HIDE DEF p, q
<1>5. /\ x \in Seq(V) /\ Len(x) = (k + m) + n
      /\ \A i \in 1 .. (k + m) + n : x[i] = IF i <= k + m THEN p[i] ELSE d[i - (k + m)]
  <2> DEFINE h == Len(p)
  <2>1. p \in Seq(V) /\ h = k + m
    BY <1>3
  <2>2. IsJoin(V, p, d, x)
    BY <1>1, <2>1, Joined
  <2>3. /\ x \in Seq(V) /\ Len(x) = h + n
        /\ \A i \in 1 .. h + n : x[i] = IF i <= h THEN p[i] ELSE d[i - h]
    BY <2>2 DEF IsJoin
  <2> HIDE DEF h, x, k, m, n
  <2> QED  BY <2>1, <2>3
<1>6. /\ y \in Seq(V) /\ Len(y) = k + (m + n)
      /\ \A i \in 1 .. k + (m + n) : y[i] = IF i <= k THEN a[i] ELSE q[i - k]
  <2> DEFINE h == Len(q)
  <2>1. q \in Seq(V) /\ h = m + n
    BY <1>4
  <2>2. IsJoin(V, a, q, y)
    BY <1>1, <2>1, Joined
  <2>3. /\ y \in Seq(V) /\ Len(y) = k + h
        /\ \A i \in 1 .. k + h : y[i] = IF i <= k THEN a[i] ELSE q[i - k]
    BY <2>2 DEF IsJoin
  <2> HIDE DEF h, y, k, m, n
  <2> QED  BY <2>1, <2>3
<1> HIDE DEF x, y, k, m, n
<1>7. ASSUME NEW i \in 1 .. (k + m) + n  PROVE x[i] = y[i]
  <2>1. i \in 1 .. k + (m + n)
    BY <1>2
  <2>2. CASE i <= k
    BY <1>2, <1>3, <1>5, <1>6, <2>1, <2>2
  <2>3. CASE i > k /\ i <= k + m
    <3>1. i \in 1 .. k + m /\ i - k \in 1 .. m + n /\ i - k <= m /\ ~(i <= k)
      BY <1>2, <2>3
    <3> QED  BY <1>3, <1>4, <1>5, <1>6, <2>1, <2>3, <3>1
  <2>4. CASE i > k + m
    <3>1. /\ i - k \in 1 .. m + n /\ ~(i - k <= m) /\ ~(i <= k) /\ ~(i <= k + m)
          /\ i - (k + m) = (i - k) - m
      BY <1>2, <2>4
    <3>2. x[i] = d[i - (k + m)]
      BY <1>5, <3>1
    <3>3. y[i] = q[i - k] /\ q[i - k] = d[(i - k) - m]
      BY <1>4, <1>6, <2>1, <3>1
    <3> QED  BY <3>1, <3>2, <3>3
  <2> QED  BY <1>2, <2>2, <2>3, <2>4
<1>8. Len(x) = Len(y)
  BY <1>2, <1>5, <1>6
<1>9. x = y
  BY <1>5, <1>6, <1>7, <1>8
<1> QED  BY <1>9 DEF Regroups, x, y, p, q

\* A block of two parts after a script.
LEMMA BlockLeads ==
  ASSUME NEW a, NEW b, NEW d, NEW c, NEW x, NEW e,
         Leads(a, c, x), IsScript(b), IsScript(d), Leads(b \o d, x, e)
  PROVE  Leads(a \o b \o d, c, e)
<1>1. a \o b \o d = a \o (b \o d)
  BY Regroup DEF Leads, Regroups
<1> DEFINE y == b \o d
<1> HIDE DEF y
<1>2. Leads(a \o y, c, e)
  BY ThenLeads DEF y
<1> QED  BY <1>1, <1>2 DEF y

-----------------------------------------------------------------------------
(***************************************************************************)
(* The tables as the scripts make them.  The sixth revision changes eight  *)
(* of them to what the models declare; the third gives users and reviews   *)
(* references that it takes away again.                                    *)
(***************************************************************************)
MadeLater == {"users", "refresh_tokens", "mileage_readings", "notifications",
              "mechanics", "services", "service_transitions", "insurance_policies"}

Made ==
  [t \in First(26) |->
     CASE t = "users" ->
            Model({"user_role"}, {}, {<<"phone">>}, {"email", "role", "center_id"})
       [] t = "refresh_tokens" ->
            Model({}, OfUser, {<<"token_hash">>}, {"user_id", "expires_at"})
       [] t = "mileage_readings" ->
            Indexing(Model({"mileage_source"}, {<<"car_id", "cars", "CASCADE">>}, {},
            {"car_id"}), {<<"recorded_at", <<"car_id", "recorded_at">>>>})
       [] t = "notifications" ->
            Indexing(Model({}, OfUser, {}, {"user_id", "kind"}), {<<"read_at",
            <<"user_id", "read_at">>>>})
       [] t = "mechanics" ->
            Indexing(Model({}, {OfCenter("CASCADE")}, {<<"login">>}, {"center_id"}),
            {<<"center_active", <<"center_id", "deleted_at IS NULL">>>>})
       [] t = "services" ->
            Indexing(Model({"service_status"}, {<<"car_id", "cars", "RESTRICT">>,
            OfCenter("RESTRICT"), <<"mechanic_id", "mechanics", "SET NULL">>}, {},
            {"car_id", "center_id", "mechanic_id"}), {<<"center_status",
            <<"center_id", "status">>>>})
       [] t = "service_transitions" ->
            Indexing(Model({"service_status"}, {OfService, <<"by_user_id", "users",
            "SET NULL">>}, {}, {}), {<<"service_at", <<"service_id", "at DESC">>>>})
       [] t = "insurance_policies" ->
            Model({"payment_status"}, OfUser \cup {<<"car_id", "cars", "RESTRICT">>,
            <<"tariff_id", "insurance_tariffs", "RESTRICT">>}, {}, {"user_id"})
       [] OTHER -> Metadata[t]]

Filled ==
  With(With(Made, "users", Linking(Made["users"], OfCenter("SET NULL"))), "reviews",
       Linking(Linking(Made["reviews"], OfCenter("CASCADE")),
               <<"service_id", "services", "SET NULL">>))

\* The tables as they are made, one by one.
LEMMA MadeIs ==
  /\ Made["users"] =
       Model({"user_role"}, {}, {<<"phone">>}, {"email", "role", "center_id"})
  /\ Made["refresh_tokens"] =
       Model({}, OfUser, {<<"token_hash">>}, {"user_id", "expires_at"})
  /\ Made["cars"] =
       Model({"plate_type"}, {<<"owner_id", "users", "CASCADE">>}, {<<"plate">>,
       <<"vin">>}, {"owner_id"})
  /\ Made["mileage_readings"] =
       Indexing(Model({"mileage_source"}, {<<"car_id", "cars", "CASCADE">>}, {},
       {"car_id"}), {<<"recorded_at", <<"car_id", "recorded_at">>>>})
  /\ Made["reviews"] =
       Model({}, OfUser, {}, {"user_id", "center_id"})
  /\ Made["content_pages"] =
       Model({"content_kind"}, {}, {<<"kind", "lang", "slug">>}, {"kind"})
  /\ Made["notifications"] =
       Indexing(Model({}, OfUser, {}, {"user_id", "kind"}), {<<"read_at", <<"user_id",
       "read_at">>>>})
  /\ Made["devices"] =
       Model({"device_platform"}, OfUser, {<<"user_id", "token">>}, {"user_id"})
  /\ Made["service_centers"] =
       Model({}, {<<"owner_user_id", "users", "CASCADE">>}, {}, {"owner_user_id"})
  /\ Made["mechanics"] =
       Indexing(Model({}, {OfCenter("CASCADE")}, {<<"login">>}, {"center_id"}),
       {<<"center_active", <<"center_id", "deleted_at IS NULL">>>>})
  /\ Made["services"] =
       Indexing(Model({"service_status"}, {<<"car_id", "cars", "RESTRICT">>,
       OfCenter("RESTRICT"), <<"mechanic_id", "mechanics", "SET NULL">>}, {},
       {"car_id", "center_id", "mechanic_id"}), {<<"center_status", <<"center_id",
       "status">>>>})
  /\ Made["service_items"] =
       Model({}, {OfService}, {}, {"service_id"})
  /\ Made["service_transitions"] =
       Indexing(Model({"service_status"}, {OfService, <<"by_user_id", "users",
       "SET NULL">>}, {}, {}), {<<"service_at", <<"service_id", "at DESC">>>>})
  /\ Made["condition_images"] =
       Model({"condition_image_stage"}, {OfService, <<"uploaded_by", "users",
       "SET NULL">>}, {}, {"service_id"})
  /\ Made["trips"] =
       Model({}, OfUser \cup {<<"car_id", "cars", "SET NULL">>}, {}, {"user_id",
       "car_id"})
  /\ Made["trip_points"] =
       Model({}, {<<"trip_id", "trips", "CASCADE">>}, {}, {"trip_id"})
  /\ Made["sos_providers"] =
       Model({"sos_category"}, {}, {}, {"category", "city"})
  /\ Made["sos_requests"] =
       Model({"sos_request_status"}, OfUser \cup {<<"provider_id", "sos_providers",
       "SET NULL">>}, {}, {"user_id"})
  /\ Made["fuel_stations"] =
       Model({}, {}, {}, {})
  /\ Made["insurance_tariffs"] =
       Model({}, {}, {<<"code">>}, {})
  /\ Made["insurance_policies"] =
       Model({"payment_status"}, OfUser \cup {<<"car_id", "cars", "RESTRICT">>,
       <<"tariff_id", "insurance_tariffs", "RESTRICT">>}, {}, {"user_id"})
  /\ Made["subscription_plans"] =
       Model({}, {}, {<<"code">>}, {})
  /\ Made["payments"] =
       Model({"payment_kind", "payment_provider", "payment_status"}, OfUser \cup
       {<<"plan_id", "subscription_plans", "SET NULL">>}, {<<"external_ref">>},
       {"user_id", "target_id"})
  /\ Made["insurance_companies"] =
       Model({}, {}, {}, {})
  /\ Made["stories"] =
       Model({}, {OfCenter("CASCADE")}, {}, {})
  /\ Made["audit_logs"] =
       Model({}, {<<"actor_user_id", "users", "SET NULL">>}, {}, {"actor_user_id",
       "action", "entity_type", "entity_id", "at"})
<1> USE DEF Made
<1>1. \A i \in 1 .. 26 : Order[i] \in First(26)
  BY InFirst
<1>2. /\ "users" \in First(26)
      /\ "refresh_tokens" \in First(26)
      /\ "cars" \in First(26)
      /\ "mileage_readings" \in First(26)
      /\ "reviews" \in First(26)
      /\ "content_pages" \in First(26)
      /\ "notifications" \in First(26)
      /\ "devices" \in First(26)
      /\ "service_centers" \in First(26)
  BY <1>1, OrderIs
<1>3. /\ "mechanics" \in First(26)
      /\ "services" \in First(26)
      /\ "service_items" \in First(26)
      /\ "service_transitions" \in First(26)
      /\ "condition_images" \in First(26)
      /\ "trips" \in First(26)
      /\ "trip_points" \in First(26)
      /\ "sos_providers" \in First(26)
      /\ "sos_requests" \in First(26)
  BY <1>1, OrderIs
<1>4. /\ "fuel_stations" \in First(26)
      /\ "insurance_tariffs" \in First(26)
      /\ "insurance_policies" \in First(26)
      /\ "subscription_plans" \in First(26)
      /\ "payments" \in First(26)
      /\ "insurance_companies" \in First(26)
      /\ "stories" \in First(26)
      /\ "audit_logs" \in First(26)
  BY <1>1, OrderIs
<1> DEFINE rest(t) == t \in First(26) /\ t \notin MadeLater
<1>5. \A t : rest(t) => Made[t] = Metadata[t]
  BY DEF MadeLater
<1>6. \A t \in First(26) :
      /\ t = "users" => Made[t] =
           Model({"user_role"}, {}, {<<"phone">>}, {"email", "role", "center_id"})
      /\ t = "refresh_tokens" => Made[t] =
           Model({}, OfUser, {<<"token_hash">>}, {"user_id", "expires_at"})
      /\ t = "mileage_readings" => Made[t] =
           Indexing(Model({"mileage_source"}, {<<"car_id", "cars", "CASCADE">>}, {},
           {"car_id"}), {<<"recorded_at", <<"car_id", "recorded_at">>>>})
      /\ t = "notifications" => Made[t] =
           Indexing(Model({}, OfUser, {}, {"user_id", "kind"}), {<<"read_at",
           <<"user_id", "read_at">>>>})
      /\ t = "mechanics" => Made[t] =
           Indexing(Model({}, {OfCenter("CASCADE")}, {<<"login">>}, {"center_id"}),
           {<<"center_active", <<"center_id", "deleted_at IS NULL">>>>})
      /\ t = "services" => Made[t] =
           Indexing(Model({"service_status"}, {<<"car_id", "cars", "RESTRICT">>,
           OfCenter("RESTRICT"), <<"mechanic_id", "mechanics", "SET NULL">>}, {},
           {"car_id", "center_id", "mechanic_id"}), {<<"center_status", <<"center_id",
           "status">>>>})
      /\ t = "service_transitions" => Made[t] =
           Indexing(Model({"service_status"}, {OfService, <<"by_user_id", "users",
           "SET NULL">>}, {}, {}), {<<"service_at", <<"service_id", "at DESC">>>>})
      /\ t = "insurance_policies" => Made[t] =
           Model({"payment_status"}, OfUser \cup {<<"car_id", "cars", "RESTRICT">>,
           <<"tariff_id", "insurance_tariffs", "RESTRICT">>}, {}, {"user_id"})
  <2>1. \A t \in First(26) :
        t = "users" => Made[t] =
           Model({"user_role"}, {}, {<<"phone">>}, {"email", "role", "center_id"})
    OBVIOUS
  <2>2. \A t \in First(26) :
        t = "refresh_tokens" => Made[t] =
           Model({}, OfUser, {<<"token_hash">>}, {"user_id", "expires_at"})
    OBVIOUS
  <2>3. \A t \in First(26) :
        t = "mileage_readings" => Made[t] =
           Indexing(Model({"mileage_source"}, {<<"car_id", "cars", "CASCADE">>}, {},
           {"car_id"}), {<<"recorded_at", <<"car_id", "recorded_at">>>>})
    OBVIOUS
  <2>4. \A t \in First(26) :
        t = "notifications" => Made[t] =
           Indexing(Model({}, OfUser, {}, {"user_id", "kind"}), {<<"read_at",
           <<"user_id", "read_at">>>>})
    OBVIOUS
  <2>5. \A t \in First(26) :
        t = "mechanics" => Made[t] =
           Indexing(Model({}, {OfCenter("CASCADE")}, {<<"login">>}, {"center_id"}),
           {<<"center_active", <<"center_id", "deleted_at IS NULL">>>>})
    OBVIOUS
  <2>6. \A t \in First(26) :
        t = "services" => Made[t] =
           Indexing(Model({"service_status"}, {<<"car_id", "cars", "RESTRICT">>,
           OfCenter("RESTRICT"), <<"mechanic_id", "mechanics", "SET NULL">>}, {},
           {"car_id", "center_id", "mechanic_id"}), {<<"center_status", <<"center_id",
           "status">>>>})
    OBVIOUS
  <2>7. \A t \in First(26) :
        t = "service_transitions" => Made[t] =
           Indexing(Model({"service_status"}, {OfService, <<"by_user_id", "users",
           "SET NULL">>}, {}, {}), {<<"service_at", <<"service_id", "at DESC">>>>})
    OBVIOUS
  <2>8. \A t \in First(26) :
        t = "insurance_policies" => Made[t] =
           Model({"payment_status"}, OfUser \cup {<<"car_id", "cars", "RESTRICT">>,
           <<"tariff_id", "insurance_tariffs", "RESTRICT">>}, {}, {"user_id"})
    OBVIOUS
  <2> HIDE DEF Made
  <2> QED  BY <2>1, <2>2, <2>3, <2>4, <2>5, <2>6, <2>7, <2>8
<1> HIDE DEF Made
<1>7. Made["users"] =
       Model({"user_role"}, {}, {<<"phone">>}, {"email", "role", "center_id"})
  BY <1>2, <1>6
<1>8. Made["refresh_tokens"] =
       Model({}, OfUser, {<<"token_hash">>}, {"user_id", "expires_at"})
  BY <1>2, <1>6
<1>9. Made["cars"] =
       Model({"plate_type"}, {<<"owner_id", "users", "CASCADE">>}, {<<"plate">>,
       <<"vin">>}, {"owner_id"})
  <2>1. Made["cars"] = DeclaredByCars.cars
    BY <1>2, <1>5, DeclaredIs DEF MadeLater
  <2> QED  BY <2>1 DEF DeclaredByCars
<1>10. Made["mileage_readings"] =
       Indexing(Model({"mileage_source"}, {<<"car_id", "cars", "CASCADE">>}, {},
       {"car_id"}), {<<"recorded_at", <<"car_id", "recorded_at">>>>})
  BY <1>2, <1>6
<1>11. Made["reviews"] =
       Model({}, OfUser, {}, {"user_id", "center_id"})
  <2>1. Made["reviews"] = DeclaredByReviews.reviews
    BY <1>2, <1>5, DeclaredIs DEF MadeLater
  <2> QED  BY <2>1 DEF DeclaredByReviews
<1>12. Made["content_pages"] =
       Model({"content_kind"}, {}, {<<"kind", "lang", "slug">>}, {"kind"})
  <2>1. Made["content_pages"] = DeclaredByContent.content_pages
    BY <1>2, <1>5, DeclaredIs DEF MadeLater
  <2> QED  BY <2>1 DEF DeclaredByContent
<1>13. Made["notifications"] =
       Indexing(Model({}, OfUser, {}, {"user_id", "kind"}), {<<"read_at", <<"user_id",
       "read_at">>>>})
  BY <1>2, <1>6
<1>14. Made["devices"] =
       Model({"device_platform"}, OfUser, {<<"user_id", "token">>}, {"user_id"})
  <2>1. Made["devices"] = DeclaredByNotifications.devices
    BY <1>2, <1>5, DeclaredIs DEF MadeLater
  <2> QED  BY <2>1 DEF DeclaredByNotifications
<1>15. Made["service_centers"] =
       Model({}, {<<"owner_user_id", "users", "CASCADE">>}, {}, {"owner_user_id"})
  <2>1. Made["service_centers"] = DeclaredByCenters.service_centers
    BY <1>2, <1>5, DeclaredIs DEF MadeLater
  <2> QED  BY <2>1 DEF DeclaredByCenters
<1>16. Made["mechanics"] =
       Indexing(Model({}, {OfCenter("CASCADE")}, {<<"login">>}, {"center_id"}),
       {<<"center_active", <<"center_id", "deleted_at IS NULL">>>>})
  BY <1>3, <1>6
<1>17. Made["services"] =
       Indexing(Model({"service_status"}, {<<"car_id", "cars", "RESTRICT">>,
       OfCenter("RESTRICT"), <<"mechanic_id", "mechanics", "SET NULL">>}, {},
       {"car_id", "center_id", "mechanic_id"}), {<<"center_status", <<"center_id",
       "status">>>>})
  BY <1>3, <1>6
<1>18. Made["service_items"] =
       Model({}, {OfService}, {}, {"service_id"})
  <2>1. Made["service_items"] = DeclaredByServices.service_items
    BY <1>3, <1>5, DeclaredIs DEF MadeLater
  <2> QED  BY <2>1 DEF DeclaredByServices
<1>19. Made["service_transitions"] =
       Indexing(Model({"service_status"}, {OfService, <<"by_user_id", "users",
       "SET NULL">>}, {}, {}), {<<"service_at", <<"service_id", "at DESC">>>>})
  BY <1>3, <1>6
<1>20. Made["condition_images"] =
       Model({"condition_image_stage"}, {OfService, <<"uploaded_by", "users",
       "SET NULL">>}, {}, {"service_id"})
  <2>1. Made["condition_images"] = DeclaredByServices.condition_images
    BY <1>3, <1>5, DeclaredIs DEF MadeLater
  <2> QED  BY <2>1 DEF DeclaredByServices
<1>21. Made["trips"] =
       Model({}, OfUser \cup {<<"car_id", "cars", "SET NULL">>}, {}, {"user_id",
       "car_id"})
  <2>1. Made["trips"] = DeclaredByTrips.trips
    BY <1>3, <1>5, DeclaredIs DEF MadeLater
  <2> QED  BY <2>1 DEF DeclaredByTrips
<1>22. Made["trip_points"] =
       Model({}, {<<"trip_id", "trips", "CASCADE">>}, {}, {"trip_id"})
  <2>1. Made["trip_points"] = DeclaredByTrips.trip_points
    BY <1>3, <1>5, DeclaredIs DEF MadeLater
  <2> QED  BY <2>1 DEF DeclaredByTrips
<1>23. Made["sos_providers"] =
       Model({"sos_category"}, {}, {}, {"category", "city"})
  <2>1. Made["sos_providers"] = DeclaredBySos.sos_providers
    BY <1>3, <1>5, DeclaredIs DEF MadeLater
  <2> QED  BY <2>1 DEF DeclaredBySos
<1>24. Made["sos_requests"] =
       Model({"sos_request_status"}, OfUser \cup {<<"provider_id", "sos_providers",
       "SET NULL">>}, {}, {"user_id"})
  <2>1. Made["sos_requests"] = DeclaredBySos.sos_requests
    BY <1>3, <1>5, DeclaredIs DEF MadeLater
  <2> QED  BY <2>1 DEF DeclaredBySos
<1>25. Made["fuel_stations"] =
       Model({}, {}, {}, {})
  <2>1. Made["fuel_stations"] = DeclaredByFuelStations.fuel_stations
    BY <1>4, <1>5, DeclaredIs DEF MadeLater
  <2> QED  BY <2>1 DEF DeclaredByFuelStations
<1>26. Made["insurance_tariffs"] =
       Model({}, {}, {<<"code">>}, {})
  <2>1. Made["insurance_tariffs"] = DeclaredByInsurance.insurance_tariffs
    BY <1>4, <1>5, DeclaredIs DEF MadeLater
  <2> QED  BY <2>1 DEF DeclaredByInsurance
<1>27. Made["insurance_policies"] =
       Model({"payment_status"}, OfUser \cup {<<"car_id", "cars", "RESTRICT">>,
       <<"tariff_id", "insurance_tariffs", "RESTRICT">>}, {}, {"user_id"})
  BY <1>4, <1>6
<1>28. Made["subscription_plans"] =
       Model({}, {}, {<<"code">>}, {})
  <2>1. Made["subscription_plans"] = DeclaredByBilling.subscription_plans
    BY <1>4, <1>5, DeclaredIs DEF MadeLater
  <2> QED  BY <2>1 DEF DeclaredByBilling
<1>29. Made["payments"] =
       Model({"payment_kind", "payment_provider", "payment_status"}, OfUser \cup
       {<<"plan_id", "subscription_plans", "SET NULL">>}, {<<"external_ref">>},
       {"user_id", "target_id"})
  <2>1. Made["payments"] = DeclaredByBilling.payments
    BY <1>4, <1>5, DeclaredIs DEF MadeLater
  <2> QED  BY <2>1 DEF DeclaredByBilling
<1>30. Made["insurance_companies"] =
       Model({}, {}, {}, {})
  <2>1. Made["insurance_companies"] = DeclaredByInsurance.insurance_companies
    BY <1>4, <1>5, DeclaredIs DEF MadeLater
  <2> QED  BY <2>1 DEF DeclaredByInsurance
<1>31. Made["stories"] =
       Model({}, {OfCenter("CASCADE")}, {}, {})
  <2>1. Made["stories"] = DeclaredByStories.stories
    BY <1>4, <1>5, DeclaredIs DEF MadeLater
  <2> QED  BY <2>1 DEF DeclaredByStories
<1>32. Made["audit_logs"] =
       Model({}, {<<"actor_user_id", "users", "SET NULL">>}, {}, {"actor_user_id",
       "action", "entity_type", "entity_id", "at"})
  <2>1. Made["audit_logs"] = DeclaredByAudit.audit_logs
    BY <1>4, <1>5, DeclaredIs DEF MadeLater
  <2> QED  BY <2>1 DEF DeclaredByAudit
<1> QED  BY <1>7, <1>8, <1>9, <1>10, <1>11, <1>12, <1>13, <1>14, <1>15, <1>16,
            <1>17, <1>18, <1>19, <1>20, <1>21, <1>22, <1>23, <1>24, <1>25, <1>26,
            <1>27, <1>28, <1>29, <1>30, <1>31, <1>32

-----------------------------------------------------------------------------
\* A body and its parts.
LEMMA ModelIs ==
  ASSUME NEW enums, NEW fks, NEW keys, NEW cols
  PROVE  LET b == Model(enums, fks, keys, cols) IN
         /\ IsTable(b) /\ b.enums = enums /\ b.fks = fks /\ b.indexes = Cols(cols)
         /\ b.keys = keys
         /\ \A X : /\ IsTable(Indexing(b, X)) /\ Indexing(b, X).enums = enums
                   /\ Indexing(b, X).fks = fks /\ Indexing(b, X).indexes = Cols(cols) \cup X
<1> DEFINE b == Model(enums, fks, keys, cols)
<1>1. /\ IsTable(b) /\ b.enums = enums /\ b.fks = fks /\ b.indexes = Cols(cols)
      /\ b.keys = keys
  BY DEF Model, Table, IsTable, Cols
<1> HIDE DEF b
<1>2. ASSUME NEW X
      PROVE  /\ IsTable(Indexing(b, X)) /\ Indexing(b, X).enums = enums
             /\ Indexing(b, X).fks = fks /\ Indexing(b, X).indexes = Cols(cols) \cup X
  <2> DEFINE e == Indexing(b, X)
             I == b.indexes \cup X
             d == [enums |-> enums, fks |-> fks, keys |-> keys, indexes |-> I]
             Parts == {"enums", "fks", "keys", "indexes"}
  <2>1. e = [b EXCEPT !.indexes = I]
    BY DEF Indexing
  <2>2. DOMAIN b = Parts
    BY <1>1 DEF IsTable
  <2> HIDE DEF I, e
  <2>3. e = [p \in Parts |-> e[p]] /\ d = [p \in Parts |-> d[p]]
    BY <2>1, <2>2
  <2>4. /\ e["enums"] = d["enums"] /\ e["fks"] = d["fks"] /\ e["keys"] = d["keys"]
        /\ e["indexes"] = d["indexes"]
    BY <1>1, <2>1, <2>2
  <2>5. IsTable(d) /\ d.enums = enums /\ d.fks = fks /\ d.indexes = I
    BY DEF IsTable
  <2> HIDE DEF d
  <2>6. e = d
    BY <2>3, <2>4
  <2> QED  BY <1>1, <2>5, <2>6 DEF e, I
<1> QED  BY <1>1, <1>2 DEF b

\* A table declared without indexes is as create_table makes it.
LEMMA ModelBare ==
  ASSUME NEW enums, NEW fks, NEW keys
  PROVE  Model(enums, fks, keys, {}) = Table(enums, fks, keys)
<1>1. {<<c, <<c>>>> : c \in {}} = {}
  OBVIOUS
<1> DEFINE a == Model(enums, fks, keys, {})
           b == Table(enums, fks, keys)
           Parts == {"enums", "fks", "keys", "indexes"}
<1>2. a = [p \in Parts |-> a[p]] /\ b = [p \in Parts |-> b[p]]
  BY DEF Model, Table
<1>3. /\ a["enums"] = b["enums"] /\ a["fks"] = b["fks"] /\ a["keys"] = b["keys"]
      /\ a["indexes"] = b["indexes"]
  BY <1>1 DEF Model, Table
<1> HIDE DEF a, b
<1> QED  BY <1>2, <1>3 DEF a, b

\* Two bodies with the same parts are one.
LEMMA SameTable ==
  ASSUME NEW a, NEW b, IsTable(a), IsTable(b), a.enums = b.enums, a.fks = b.fks,
         a.keys = b.keys, a.indexes = b.indexes
  PROVE  a = b
<1> DEFINE Parts == {"enums", "fks", "keys", "indexes"}
<1>1. a = [p \in Parts |-> a[p]] /\ b = [p \in Parts |-> b[p]]
  BY DEF IsTable
<1>2. a["enums"] = b["enums"] /\ a["fks"] = b["fks"] /\ a["keys"] = b["keys"]
      /\ a["indexes"] = b["indexes"]
  OBVIOUS
<1>3. \A p \in Parts : a[p] = b[p]
  BY <1>2
<1> QED  BY <1>1, <1>3

\* The parts a change of a body touches.
LEMMA ChangesAre ==
  ASSUME NEW b, IsTable(b)
  PROVE  /\ \A fk : LET a == Linking(b, fk) IN
              /\ IsTable(a) /\ a.enums = b.enums /\ a.keys = b.keys
              /\ a.indexes = b.indexes /\ a.fks = b.fks \cup {fk}
         /\ \A col : LET a == Unlinking(b, col) IN
              /\ IsTable(a) /\ a.enums = b.enums /\ a.keys = b.keys
              /\ a.indexes = b.indexes /\ a.fks = {fk \in b.fks : fk[1] # col}
         /\ \A X : LET a == Indexing(b, X) IN
              /\ IsTable(a) /\ a.enums = b.enums /\ a.keys = b.keys
              /\ a.indexes = b.indexes \cup X /\ a.fks = b.fks
         /\ \A X : LET a == Unindexing(b, X) IN
              /\ IsTable(a) /\ a.enums = b.enums /\ a.keys = b.keys
              /\ a.indexes = {ix \in b.indexes : ix[1] \notin X} /\ a.fks = b.fks
<1> DEFINE Body(F, I) == [enums |-> b.enums, fks |-> F, keys |-> b.keys, indexes |-> I]
           Parts == {"enums", "fks", "keys", "indexes"}
<1>1. \A F, I : /\ IsTable(Body(F, I)) /\ Body(F, I).enums = b.enums
                /\ Body(F, I).keys = b.keys /\ Body(F, I).fks = F /\ Body(F, I).indexes = I
  BY DEF IsTable
<1>2. ASSUME NEW F  PROVE [b EXCEPT !.fks = F] = Body(F, b.indexes)
  <2> DEFINE x == [b EXCEPT !.fks = F]
             y == Body(F, b.indexes)
  <2>1. x = [p \in Parts |-> x[p]] /\ y = [p \in Parts |-> y[p]]
    BY DEF IsTable
  <2>2. x["enums"] = y["enums"] /\ x["fks"] = y["fks"] /\ x["keys"] = y["keys"]
        /\ x["indexes"] = y["indexes"]
    BY DEF IsTable
  <2> HIDE DEF x, y
  <2>3. x = y
    BY <2>1, <2>2
  <2> QED  BY <2>3 DEF x, y
<1>3. ASSUME NEW I  PROVE [b EXCEPT !.indexes = I] = Body(b.fks, I)
  <2> DEFINE x == [b EXCEPT !.indexes = I]
             y == Body(b.fks, I)
  <2>1. x = [p \in Parts |-> x[p]] /\ y = [p \in Parts |-> y[p]]
    BY DEF IsTable
  <2>2. x["enums"] = y["enums"] /\ x["fks"] = y["fks"] /\ x["keys"] = y["keys"]
        /\ x["indexes"] = y["indexes"]
    BY DEF IsTable
  <2> HIDE DEF x, y
  <2>3. x = y
    BY <2>1, <2>2
  <2> QED  BY <2>3 DEF x, y
<1> HIDE DEF Body
<1>4. ASSUME NEW fk
      PROVE  LET a == Linking(b, fk) IN
              /\ IsTable(a) /\ a.enums = b.enums /\ a.keys = b.keys
              /\ a.indexes = b.indexes /\ a.fks = b.fks \cup {fk}
  <2> DEFINE F == b.fks \cup {fk}
             I == b.indexes
             a == Linking(b, fk)
  <2>1. a = Body(F, I)
    BY <1>2, <1>3 DEF Linking
  <2> HIDE DEF F, I, a
  <2>2. /\ IsTable(a) /\ a.enums = b.enums /\ a.keys = b.keys
        /\ a.indexes = I /\ a.fks = F
    BY <1>1, <2>1
  <2> QED  BY <2>2 DEF F, I, a
<1>5. ASSUME NEW col
      PROVE  LET a == Unlinking(b, col) IN
              /\ IsTable(a) /\ a.enums = b.enums /\ a.keys = b.keys
              /\ a.indexes = b.indexes /\ a.fks = {fk \in b.fks : fk[1] # col}
  <2> DEFINE F == {fk \in b.fks : fk[1] # col}
             I == b.indexes
             a == Unlinking(b, col)
  <2>1. a = Body(F, I)
    BY <1>2, <1>3 DEF Unlinking
  <2> HIDE DEF F, I, a
  <2>2. /\ IsTable(a) /\ a.enums = b.enums /\ a.keys = b.keys
        /\ a.indexes = I /\ a.fks = F
    BY <1>1, <2>1
  <2> QED  BY <2>2 DEF F, I, a
<1>6. ASSUME NEW X
      PROVE  LET a == Indexing(b, X) IN
              /\ IsTable(a) /\ a.enums = b.enums /\ a.keys = b.keys
              /\ a.indexes = b.indexes \cup X /\ a.fks = b.fks
  <2> DEFINE F == b.fks
             I == b.indexes \cup X
             a == Indexing(b, X)
  <2>1. a = Body(F, I)
    BY <1>2, <1>3 DEF Indexing
  <2> HIDE DEF F, I, a
  <2>2. /\ IsTable(a) /\ a.enums = b.enums /\ a.keys = b.keys
        /\ a.indexes = I /\ a.fks = F
    BY <1>1, <2>1
  <2> QED  BY <2>2 DEF F, I, a
<1>7. ASSUME NEW X
      PROVE  LET a == Unindexing(b, X) IN
              /\ IsTable(a) /\ a.enums = b.enums /\ a.keys = b.keys
              /\ a.indexes = {ix \in b.indexes : ix[1] \notin X} /\ a.fks = b.fks
  <2> DEFINE F == b.fks
             I == {ix \in b.indexes : ix[1] \notin X}
             a == Unindexing(b, X)
  <2>1. a = Body(F, I)
    BY <1>2, <1>3 DEF Unindexing
  <2> HIDE DEF F, I, a
  <2>2. /\ IsTable(a) /\ a.enums = b.enums /\ a.keys = b.keys
        /\ a.indexes = I /\ a.fks = F
    BY <1>1, <2>1
  <2> QED  BY <2>2 DEF F, I, a
<1> QED  BY <1>4, <1>5, <1>6, <1>7

\* A body as the scripts make it has an index for each of its columns.
HasParts(b, enums, fks, cols) ==
  /\ IsTable(b) /\ b.enums = enums /\ b.fks = fks
  /\ \A c \in cols : \E ix \in b.indexes : ix[1] = c

\* A declared table has an index for each of its columns.
LEMMA BodyIs ==
  ASSUME NEW enums, NEW fks, NEW keys, NEW cols
  PROVE  HasParts(Model(enums, fks, keys, cols), enums, fks, cols)
<1> DEFINE b == Model(enums, fks, keys, cols)
<1>1. IsTable(b) /\ b.enums = enums /\ b.fks = fks /\ b.indexes = Cols(cols)
  BY ModelIs
<1>2. \A c \in cols : <<c, <<c>>>> \in Cols(cols) /\ <<c, <<c>>>>[1] = c
  BY DEF Cols
<1> HIDE DEF b
<1>3. ASSUME NEW c \in cols  PROVE \E ix \in b.indexes : ix[1] = c
  BY <1>1, <1>2
<1>4. HasParts(b, enums, fks, cols)
  BY <1>1, <1>3 DEF HasParts
<1> QED  BY <1>4 DEF b

\* ... and, with one index more, one for that name too.
LEMMA IndexedIs ==
  ASSUME NEW enums, NEW fks, NEW keys, NEW cols, NEW ix, NEW names,
         names = cols \cup {ix[1]}
  PROVE  HasParts(Indexing(Model(enums, fks, keys, cols), {ix}), enums, fks, names)
<1> DEFINE b == Model(enums, fks, keys, cols)
           a == Indexing(b, {ix})
<1>1. /\ IsTable(b) /\ b.enums = enums /\ b.fks = fks
      /\ \A c \in cols : \E x \in b.indexes : x[1] = c
  BY BodyIs DEF HasParts
<1> HIDE DEF b
<1>2. IsTable(a) /\ a.enums = enums /\ a.fks = fks /\ a.indexes = b.indexes \cup {ix}
  BY <1>1, ChangesAre
<1> HIDE DEF a
<1>3. \A c \in names : \E x \in a.indexes : x[1] = c
  BY <1>1, <1>2
<1>4. HasParts(a, enums, fks, names)
  BY <1>2, <1>3 DEF HasParts
<1> QED  BY <1>4 DEF a, b

\* From when on a table is there that others refer to.
LEMMA Known ==
  \A k \in 0 .. 26 :
    /\ k >= 1 => "users" \in First(k)
    /\ k >= 3 => "cars" \in First(k)
    /\ k >= 9 => "service_centers" \in First(k)
    /\ k >= 10 => "mechanics" \in First(k)
    /\ k >= 11 => "services" \in First(k)
    /\ k >= 15 => "trips" \in First(k)
    /\ k >= 17 => "sos_providers" \in First(k)
    /\ k >= 20 => "insurance_tariffs" \in First(k)
    /\ k >= 22 => "subscription_plans" \in First(k)
    /\ k >= 24 => "insurance_companies" \in First(k)
BY InFirst, OrderIs

-----------------------------------------------------------------------------
(***************************************************************************)
(* The bodies: the types they use are those of the revisions so far, and   *)
(* the tables they refer to are there before them, or among the first m.   *)
(***************************************************************************)
TypesTo(i) ==
  AuthTypes \cup (IF i > 2 THEN CustomerTypes ELSE {}) \cup (IF i > 8 THEN ErpTypes ELSE {})
  \cup (IF i > 14 THEN SecondaryTypes ELSE {}) \cup (IF i > 21 THEN BillingTypes ELSE {})

Fits(b, i, m) ==
  /\ IsTable(b) /\ b.enums \subseteq TypesTo(i)
  /\ \A fk \in b.fks : fk[2] \in First(i - 1) \cup First(m)

\* Each of the tables as they are made.
LEMMA MadeFits == \A i \in 1 .. 26 : Fits(Made[Order[i]], i, 0)
<1>1. Fits(Made["users"], 1, 0)
  <2> DEFINE e == {"user_role"}
             f == {}
             b == Made["users"]
             k == {<<"phone">>}
             c == {"email", "role", "center_id"}
  <2>1. b = Model(e, f, k, c)
    BY MadeIs
  <2> HIDE DEF e, f, k, c, b
  <2>2. HasParts(b, e, f, c)
    BY <2>1, BodyIs
  <2>3. e \subseteq TypesTo(1)
    BY DEF e, TypesTo, AuthTypes, CustomerTypes, ErpTypes, SecondaryTypes,
        BillingTypes
  <2>4. \A fk \in f : fk[2] \in First(0)
    BY DEF f
  <2>5. Fits(b, 1, 0)
    BY <2>2, <2>3, <2>4 DEF Fits, HasParts
  <2> QED  BY <2>5 DEF b
<1>2. Fits(Made["refresh_tokens"], 2, 0)
  <2> DEFINE e == {}
             f == OfUser
             b == Made["refresh_tokens"]
             k == {<<"token_hash">>}
             c == {"user_id", "expires_at"}
  <2>1. b = Model(e, f, k, c)
    BY MadeIs
  <2> HIDE DEF e, f, k, c, b
  <2>2. HasParts(b, e, f, c)
    BY <2>1, BodyIs
  <2>3. e \subseteq TypesTo(2)
    BY DEF e, TypesTo, AuthTypes, CustomerTypes, ErpTypes, SecondaryTypes,
        BillingTypes
  <2>4. \A fk \in f : fk[2] \in First(1)
    <3>1. "users" \in First(1)
      BY Known
    <3> QED  BY <3>1 DEF f, OfUser
  <2>5. Fits(b, 2, 0)
    BY <2>2, <2>3, <2>4 DEF Fits, HasParts
  <2> QED  BY <2>5 DEF b
<1>3. Fits(Made["cars"], 3, 0)
  <2> DEFINE e == {"plate_type"}
             f == {<<"owner_id", "users", "CASCADE">>}
             b == Made["cars"]
             k == {<<"plate">>, <<"vin">>}
             c == {"owner_id"}
  <2>1. b = Model(e, f, k, c)
    BY MadeIs
  <2> HIDE DEF e, f, k, c, b
  <2>2. HasParts(b, e, f, c)
    BY <2>1, BodyIs
  <2>3. e \subseteq TypesTo(3)
    BY DEF e, TypesTo, AuthTypes, CustomerTypes, ErpTypes, SecondaryTypes,
        BillingTypes
  <2>4. \A fk \in f : fk[2] \in First(2)
    <3>1. "users" \in First(2)
      BY Known
    <3> DEFINE p == <<"owner_id", "users", "CASCADE">>
    <3>2. f = {p}
      BY DEF f
    <3>3. p[2] = "users"
      OBVIOUS
    <3> HIDE DEF p
    <3> QED  BY <3>1, <3>2, <3>3
  <2>5. Fits(b, 3, 0)
    BY <2>2, <2>3, <2>4 DEF Fits, HasParts
  <2> QED  BY <2>5 DEF b
<1>4. Fits(Made["mileage_readings"], 4, 0)
  <2> DEFINE e == {"mileage_source"}
             f == {<<"car_id", "cars", "CASCADE">>}
             b == Made["mileage_readings"]
             k == {}
             c == {"car_id"}
             x == <<"recorded_at", <<"car_id", "recorded_at">>>>
             names == c \cup {x[1]}
  <2>1. b = Indexing(Model(e, f, k, c), {x})
    BY MadeIs
  <2> HIDE DEF e, f, k, c, b, x, names
  <2>2. HasParts(b, e, f, names)
    BY <2>1, IndexedIs DEF names
  <2>3. e \subseteq TypesTo(4)
    BY DEF e, TypesTo, AuthTypes, CustomerTypes, ErpTypes, SecondaryTypes,
        BillingTypes
  <2>4. \A fk \in f : fk[2] \in First(3)
    <3>1. "cars" \in First(3)
      BY Known
    <3> DEFINE p == <<"car_id", "cars", "CASCADE">>
    <3>2. f = {p}
      BY DEF f
    <3>3. p[2] = "cars"
      OBVIOUS
    <3> HIDE DEF p
    <3> QED  BY <3>1, <3>2, <3>3
  <2>5. Fits(b, 4, 0)
    BY <2>2, <2>3, <2>4 DEF Fits, HasParts
  <2> QED  BY <2>5 DEF b
<1>5. Fits(Made["reviews"], 5, 0)
  <2> DEFINE e == {}
             f == OfUser
             b == Made["reviews"]
             k == {}
             c == {"user_id", "center_id"}
  <2>1. b = Model(e, f, k, c)
    BY MadeIs
  <2> HIDE DEF e, f, k, c, b
  <2>2. HasParts(b, e, f, c)
    BY <2>1, BodyIs
  <2>3. e \subseteq TypesTo(5)
    BY DEF e, TypesTo, AuthTypes, CustomerTypes, ErpTypes, SecondaryTypes,
        BillingTypes
  <2>4. \A fk \in f : fk[2] \in First(4)
    <3>1. "users" \in First(4)
      BY Known
    <3> QED  BY <3>1 DEF f, OfUser
  <2>5. Fits(b, 5, 0)
    BY <2>2, <2>3, <2>4 DEF Fits, HasParts
  <2> QED  BY <2>5 DEF b
<1>6. Fits(Made["content_pages"], 6, 0)
  <2> DEFINE e == {"content_kind"}
             f == {}
             b == Made["content_pages"]
             k == {<<"kind", "lang", "slug">>}
             c == {"kind"}
  <2>1. b = Model(e, f, k, c)
    BY MadeIs
  <2> HIDE DEF e, f, k, c, b
  <2>2. HasParts(b, e, f, c)
    BY <2>1, BodyIs
  <2>3. e \subseteq TypesTo(6)
    BY DEF e, TypesTo, AuthTypes, CustomerTypes, ErpTypes, SecondaryTypes,
        BillingTypes
  <2>4. \A fk \in f : fk[2] \in First(5)
    BY DEF f
  <2>5. Fits(b, 6, 0)
    BY <2>2, <2>3, <2>4 DEF Fits, HasParts
  <2> QED  BY <2>5 DEF b
<1>7. Fits(Made["notifications"], 7, 0)
  <2> DEFINE e == {}
             f == OfUser
             b == Made["notifications"]
             k == {}
             c == {"user_id", "kind"}
             x == <<"read_at", <<"user_id", "read_at">>>>
             names == c \cup {x[1]}
  <2>1. b = Indexing(Model(e, f, k, c), {x})
    BY MadeIs
  <2> HIDE DEF e, f, k, c, b, x, names
  <2>2. HasParts(b, e, f, names)
    BY <2>1, IndexedIs DEF names
  <2>3. e \subseteq TypesTo(7)
    BY DEF e, TypesTo, AuthTypes, CustomerTypes, ErpTypes, SecondaryTypes,
        BillingTypes
  <2>4. \A fk \in f : fk[2] \in First(6)
    <3>1. "users" \in First(6)
      BY Known
    <3> QED  BY <3>1 DEF f, OfUser
  <2>5. Fits(b, 7, 0)
    BY <2>2, <2>3, <2>4 DEF Fits, HasParts
  <2> QED  BY <2>5 DEF b
<1>8. Fits(Made["devices"], 8, 0)
  <2> DEFINE e == {"device_platform"}
             f == OfUser
             b == Made["devices"]
             k == {<<"user_id", "token">>}
             c == {"user_id"}
  <2>1. b = Model(e, f, k, c)
    BY MadeIs
  <2> HIDE DEF e, f, k, c, b
  <2>2. HasParts(b, e, f, c)
    BY <2>1, BodyIs
  <2>3. e \subseteq TypesTo(8)
    BY DEF e, TypesTo, AuthTypes, CustomerTypes, ErpTypes, SecondaryTypes,
        BillingTypes
  <2>4. \A fk \in f : fk[2] \in First(7)
    <3>1. "users" \in First(7)
      BY Known
    <3> QED  BY <3>1 DEF f, OfUser
  <2>5. Fits(b, 8, 0)
    BY <2>2, <2>3, <2>4 DEF Fits, HasParts
  <2> QED  BY <2>5 DEF b
<1>9. Fits(Made["service_centers"], 9, 0)
  <2> DEFINE e == {}
             f == {<<"owner_user_id", "users", "CASCADE">>}
             b == Made["service_centers"]
             k == {}
             c == {"owner_user_id"}
  <2>1. b = Model(e, f, k, c)
    BY MadeIs
  <2> HIDE DEF e, f, k, c, b
  <2>2. HasParts(b, e, f, c)
    BY <2>1, BodyIs
  <2>3. e \subseteq TypesTo(9)
    BY DEF e, TypesTo, AuthTypes, CustomerTypes, ErpTypes, SecondaryTypes,
        BillingTypes
  <2>4. \A fk \in f : fk[2] \in First(8)
    <3>1. "users" \in First(8)
      BY Known
    <3> DEFINE p == <<"owner_user_id", "users", "CASCADE">>
    <3>2. f = {p}
      BY DEF f
    <3>3. p[2] = "users"
      OBVIOUS
    <3> HIDE DEF p
    <3> QED  BY <3>1, <3>2, <3>3
  <2>5. Fits(b, 9, 0)
    BY <2>2, <2>3, <2>4 DEF Fits, HasParts
  <2> QED  BY <2>5 DEF b
<1>10. Fits(Made["mechanics"], 10, 0)
  <2> DEFINE e == {}
             f == {OfCenter("CASCADE")}
             b == Made["mechanics"]
             k == {<<"login">>}
             c == {"center_id"}
             x == <<"center_active", <<"center_id", "deleted_at IS NULL">>>>
             names == c \cup {x[1]}
  <2>1. b = Indexing(Model(e, f, k, c), {x})
    BY MadeIs
  <2> HIDE DEF e, f, k, c, b, x, names
  <2>2. HasParts(b, e, f, names)
    BY <2>1, IndexedIs DEF names
  <2>3. e \subseteq TypesTo(10)
    BY DEF e, TypesTo, AuthTypes, CustomerTypes, ErpTypes, SecondaryTypes,
        BillingTypes
  <2>4. \A fk \in f : fk[2] \in First(9)
    <3>1. "service_centers" \in First(9)
      BY Known
    <3> DEFINE p == OfCenter("CASCADE")
    <3>2. f = {p}
      BY DEF f
    <3>3. p[2] = "service_centers"
      BY DEF OfCenter
    <3> HIDE DEF p
    <3> QED  BY <3>1, <3>2, <3>3
  <2>5. Fits(b, 10, 0)
    BY <2>2, <2>3, <2>4 DEF Fits, HasParts
  <2> QED  BY <2>5 DEF b
<1>11. Fits(Made["services"], 11, 0)
  <2> DEFINE e == {"service_status"}
             f == {<<"car_id", "cars", "RESTRICT">>, OfCenter("RESTRICT"),
                  <<"mechanic_id", "mechanics", "SET NULL">>}
             b == Made["services"]
             k == {}
             c == {"car_id", "center_id", "mechanic_id"}
             x == <<"center_status", <<"center_id", "status">>>>
             names == c \cup {x[1]}
  <2>1. b = Indexing(Model(e, f, k, c), {x})
    BY MadeIs
  <2> HIDE DEF e, f, k, c, b, x, names
  <2>2. HasParts(b, e, f, names)
    BY <2>1, IndexedIs DEF names
  <2>3. e \subseteq TypesTo(11)
    BY DEF e, TypesTo, AuthTypes, CustomerTypes, ErpTypes, SecondaryTypes,
        BillingTypes
  <2>4. \A fk \in f : fk[2] \in First(10)
    <3>1. "cars" \in First(10) /\ "service_centers" \in First(10) /\ "mechanics" \in First(10)
      BY Known
    <3> DEFINE p == <<"car_id", "cars", "RESTRICT">>
               q == OfCenter("RESTRICT")
               r == <<"mechanic_id", "mechanics", "SET NULL">>
    <3>2. f = {p, q, r}
      BY DEF f
    <3>3. p[2] = "cars" /\ q[2] = "service_centers" /\ r[2] = "mechanics"
      BY DEF OfCenter
    <3> HIDE DEF p, q, r
    <3> QED  BY <3>1, <3>2, <3>3
  <2>5. Fits(b, 11, 0)
    BY <2>2, <2>3, <2>4 DEF Fits, HasParts
  <2> QED  BY <2>5 DEF b
<1>12. Fits(Made["service_items"], 12, 0)
  <2> DEFINE e == {}
             f == {OfService}
             b == Made["service_items"]
             k == {}
             c == {"service_id"}
  <2>1. b = Model(e, f, k, c)
    BY MadeIs
  <2> HIDE DEF e, f, k, c, b
  <2>2. HasParts(b, e, f, c)
    BY <2>1, BodyIs
  <2>3. e \subseteq TypesTo(12)
    BY DEF e, TypesTo, AuthTypes, CustomerTypes, ErpTypes, SecondaryTypes,
        BillingTypes
  <2>4. \A fk \in f : fk[2] \in First(11)
    <3>1. "services" \in First(11)
      BY Known
    <3> DEFINE p == OfService
    <3>2. f = {p}
      BY DEF f
    <3>3. p[2] = "services"
      BY DEF OfService
    <3> HIDE DEF p
    <3> QED  BY <3>1, <3>2, <3>3
  <2>5. Fits(b, 12, 0)
    BY <2>2, <2>3, <2>4 DEF Fits, HasParts
  <2> QED  BY <2>5 DEF b
<1>13. Fits(Made["service_transitions"], 13, 0)
  <2> DEFINE e == {"service_status"}
             f == {OfService, <<"by_user_id", "users", "SET NULL">>}
             b == Made["service_transitions"]
             k == {}
             c == {}
             x == <<"service_at", <<"service_id", "at DESC">>>>
             names == c \cup {x[1]}
  <2>1. b = Indexing(Model(e, f, k, c), {x})
    BY MadeIs
  <2> HIDE DEF e, f, k, c, b, x, names
  <2>2. HasParts(b, e, f, names)
    BY <2>1, IndexedIs DEF names
  <2>3. e \subseteq TypesTo(13)
    BY DEF e, TypesTo, AuthTypes, CustomerTypes, ErpTypes, SecondaryTypes,
        BillingTypes
  <2>4. \A fk \in f : fk[2] \in First(12)
    <3>1. "users" \in First(12) /\ "services" \in First(12)
      BY Known
    <3> DEFINE p == OfService
               q == <<"by_user_id", "users", "SET NULL">>
    <3>2. f = {p, q}
      BY DEF f
    <3>3. p[2] = "services" /\ q[2] = "users"
      BY DEF OfService
    <3> HIDE DEF p, q
    <3> QED  BY <3>1, <3>2, <3>3
  <2>5. Fits(b, 13, 0)
    BY <2>2, <2>3, <2>4 DEF Fits, HasParts
  <2> QED  BY <2>5 DEF b
<1>14. Fits(Made["condition_images"], 14, 0)
  <2> DEFINE e == {"condition_image_stage"}
             f == {OfService, <<"uploaded_by", "users", "SET NULL">>}
             b == Made["condition_images"]
             k == {}
             c == {"service_id"}
  <2>1. b = Model(e, f, k, c)
    BY MadeIs
  <2> HIDE DEF e, f, k, c, b
  <2>2. HasParts(b, e, f, c)
    BY <2>1, BodyIs
  <2>3. e \subseteq TypesTo(14)
    BY DEF e, TypesTo, AuthTypes, CustomerTypes, ErpTypes, SecondaryTypes,
        BillingTypes
  <2>4. \A fk \in f : fk[2] \in First(13)
    <3>1. "users" \in First(13) /\ "services" \in First(13)
      BY Known
    <3> DEFINE p == OfService
               q == <<"uploaded_by", "users", "SET NULL">>
    <3>2. f = {p, q}
      BY DEF f
    <3>3. p[2] = "services" /\ q[2] = "users"
      BY DEF OfService
    <3> HIDE DEF p, q
    <3> QED  BY <3>1, <3>2, <3>3
  <2>5. Fits(b, 14, 0)
    BY <2>2, <2>3, <2>4 DEF Fits, HasParts
  <2> QED  BY <2>5 DEF b
<1>15. Fits(Made["trips"], 15, 0)
  <2> DEFINE e == {}
             f == OfUser \cup {<<"car_id", "cars", "SET NULL">>}
             b == Made["trips"]
             k == {}
             c == {"user_id", "car_id"}
  <2>1. b = Model(e, f, k, c)
    BY MadeIs
  <2> HIDE DEF e, f, k, c, b
  <2>2. HasParts(b, e, f, c)
    BY <2>1, BodyIs
  <2>3. e \subseteq TypesTo(15)
    BY DEF e, TypesTo, AuthTypes, CustomerTypes, ErpTypes, SecondaryTypes,
        BillingTypes
  <2>4. \A fk \in f : fk[2] \in First(14)
    <3>1. "users" \in First(14) /\ "cars" \in First(14)
      BY Known
    <3> DEFINE p == <<"user_id", "users", "CASCADE">>
               q == <<"car_id", "cars", "SET NULL">>
    <3>2. f = {p, q}
      BY DEF f, OfUser
    <3>3. p[2] = "users" /\ q[2] = "cars"
      OBVIOUS
    <3> HIDE DEF p, q
    <3> QED  BY <3>1, <3>2, <3>3
  <2>5. Fits(b, 15, 0)
    BY <2>2, <2>3, <2>4 DEF Fits, HasParts
  <2> QED  BY <2>5 DEF b
<1>16. Fits(Made["trip_points"], 16, 0)
  <2> DEFINE e == {}
             f == {<<"trip_id", "trips", "CASCADE">>}
             b == Made["trip_points"]
             k == {}
             c == {"trip_id"}
  <2>1. b = Model(e, f, k, c)
    BY MadeIs
  <2> HIDE DEF e, f, k, c, b
  <2>2. HasParts(b, e, f, c)
    BY <2>1, BodyIs
  <2>3. e \subseteq TypesTo(16)
    BY DEF e, TypesTo, AuthTypes, CustomerTypes, ErpTypes, SecondaryTypes,
        BillingTypes
  <2>4. \A fk \in f : fk[2] \in First(15)
    <3>1. "trips" \in First(15)
      BY Known
    <3> DEFINE p == <<"trip_id", "trips", "CASCADE">>
    <3>2. f = {p}
      BY DEF f
    <3>3. p[2] = "trips"
      OBVIOUS
    <3> HIDE DEF p
    <3> QED  BY <3>1, <3>2, <3>3
  <2>5. Fits(b, 16, 0)
    BY <2>2, <2>3, <2>4 DEF Fits, HasParts
  <2> QED  BY <2>5 DEF b
<1>17. Fits(Made["sos_providers"], 17, 0)
  <2> DEFINE e == {"sos_category"}
             f == {}
             b == Made["sos_providers"]
             k == {}
             c == {"category", "city"}
  <2>1. b = Model(e, f, k, c)
    BY MadeIs
  <2> HIDE DEF e, f, k, c, b
  <2>2. HasParts(b, e, f, c)
    BY <2>1, BodyIs
  <2>3. e \subseteq TypesTo(17)
    BY DEF e, TypesTo, AuthTypes, CustomerTypes, ErpTypes, SecondaryTypes,
        BillingTypes
  <2>4. \A fk \in f : fk[2] \in First(16)
    BY DEF f
  <2>5. Fits(b, 17, 0)
    BY <2>2, <2>3, <2>4 DEF Fits, HasParts
  <2> QED  BY <2>5 DEF b
<1>18. Fits(Made["sos_requests"], 18, 0)
  <2> DEFINE e == {"sos_request_status"}
             f == OfUser \cup {<<"provider_id", "sos_providers", "SET NULL">>}
             b == Made["sos_requests"]
             k == {}
             c == {"user_id"}
  <2>1. b = Model(e, f, k, c)
    BY MadeIs
  <2> HIDE DEF e, f, k, c, b
  <2>2. HasParts(b, e, f, c)
    BY <2>1, BodyIs
  <2>3. e \subseteq TypesTo(18)
    BY DEF e, TypesTo, AuthTypes, CustomerTypes, ErpTypes, SecondaryTypes,
        BillingTypes
  <2>4. \A fk \in f : fk[2] \in First(17)
    <3>1. "users" \in First(17) /\ "sos_providers" \in First(17)
      BY Known
    <3> DEFINE p == <<"user_id", "users", "CASCADE">>
               q == <<"provider_id", "sos_providers", "SET NULL">>
    <3>2. f = {p, q}
      BY DEF f, OfUser
    <3>3. p[2] = "users" /\ q[2] = "sos_providers"
      OBVIOUS
    <3> HIDE DEF p, q
    <3> QED  BY <3>1, <3>2, <3>3
  <2>5. Fits(b, 18, 0)
    BY <2>2, <2>3, <2>4 DEF Fits, HasParts
  <2> QED  BY <2>5 DEF b
<1>19. Fits(Made["fuel_stations"], 19, 0)
  <2> DEFINE e == {}
             f == {}
             b == Made["fuel_stations"]
             k == {}
             c == {}
  <2>1. b = Model(e, f, k, c)
    BY MadeIs
  <2> HIDE DEF e, f, k, c, b
  <2>2. HasParts(b, e, f, c)
    BY <2>1, BodyIs
  <2>3. e \subseteq TypesTo(19)
    BY DEF e, TypesTo, AuthTypes, CustomerTypes, ErpTypes, SecondaryTypes,
        BillingTypes
  <2>4. \A fk \in f : fk[2] \in First(18)
    BY DEF f
  <2>5. Fits(b, 19, 0)
    BY <2>2, <2>3, <2>4 DEF Fits, HasParts
  <2> QED  BY <2>5 DEF b
<1>20. Fits(Made["insurance_tariffs"], 20, 0)
  <2> DEFINE e == {}
             f == {}
             b == Made["insurance_tariffs"]
             k == {<<"code">>}
             c == {}
  <2>1. b = Model(e, f, k, c)
    BY MadeIs
  <2> HIDE DEF e, f, k, c, b
  <2>2. HasParts(b, e, f, c)
    BY <2>1, BodyIs
  <2>3. e \subseteq TypesTo(20)
    BY DEF e, TypesTo, AuthTypes, CustomerTypes, ErpTypes, SecondaryTypes,
        BillingTypes
  <2>4. \A fk \in f : fk[2] \in First(19)
    BY DEF f
  <2>5. Fits(b, 20, 0)
    BY <2>2, <2>3, <2>4 DEF Fits, HasParts
  <2> QED  BY <2>5 DEF b
<1>21. Fits(Made["insurance_policies"], 21, 0)
  <2> DEFINE e == {"payment_status"}
             f == OfUser \cup {<<"car_id", "cars", "RESTRICT">>, <<"tariff_id",
                  "insurance_tariffs", "RESTRICT">>}
             b == Made["insurance_policies"]
             k == {}
             c == {"user_id"}
  <2>1. b = Model(e, f, k, c)
    BY MadeIs
  <2> HIDE DEF e, f, k, c, b
  <2>2. HasParts(b, e, f, c)
    BY <2>1, BodyIs
  <2>3. e \subseteq TypesTo(21)
    BY DEF e, TypesTo, AuthTypes, CustomerTypes, ErpTypes, SecondaryTypes,
        BillingTypes
  <2>4. \A fk \in f : fk[2] \in First(20)
    <3>1. "users" \in First(20) /\ "cars" \in First(20) /\ "insurance_tariffs" \in First(20)
      BY Known
    <3> DEFINE p == <<"user_id", "users", "CASCADE">>
               q == <<"car_id", "cars", "RESTRICT">>
               r == <<"tariff_id", "insurance_tariffs", "RESTRICT">>
    <3>2. f = {p, q, r}
      BY DEF f, OfUser
    <3>3. p[2] = "users" /\ q[2] = "cars" /\ r[2] = "insurance_tariffs"
      OBVIOUS
    <3> HIDE DEF p, q, r
    <3> QED  BY <3>1, <3>2, <3>3
  <2>5. Fits(b, 21, 0)
    BY <2>2, <2>3, <2>4 DEF Fits, HasParts
  <2> QED  BY <2>5 DEF b
<1>22. Fits(Made["subscription_plans"], 22, 0)
  <2> DEFINE e == {}
             f == {}
             b == Made["subscription_plans"]
             k == {<<"code">>}
             c == {}
  <2>1. b = Model(e, f, k, c)
    BY MadeIs
  <2> HIDE DEF e, f, k, c, b
  <2>2. HasParts(b, e, f, c)
    BY <2>1, BodyIs
  <2>3. e \subseteq TypesTo(22)
    BY DEF e, TypesTo, AuthTypes, CustomerTypes, ErpTypes, SecondaryTypes,
        BillingTypes
  <2>4. \A fk \in f : fk[2] \in First(21)
    BY DEF f
  <2>5. Fits(b, 22, 0)
    BY <2>2, <2>3, <2>4 DEF Fits, HasParts
  <2> QED  BY <2>5 DEF b
<1>23. Fits(Made["payments"], 23, 0)
  <2> DEFINE e == {"payment_kind", "payment_provider", "payment_status"}
             f == OfUser \cup {<<"plan_id", "subscription_plans", "SET NULL">>}
             b == Made["payments"]
             k == {<<"external_ref">>}
             c == {"user_id", "target_id"}
  <2>1. b = Model(e, f, k, c)
    BY MadeIs
  <2> HIDE DEF e, f, k, c, b
  <2>2. HasParts(b, e, f, c)
    BY <2>1, BodyIs
  <2>3. e \subseteq TypesTo(23)
    BY DEF e, TypesTo, AuthTypes, CustomerTypes, ErpTypes, SecondaryTypes,
        BillingTypes
  <2>4. \A fk \in f : fk[2] \in First(22)
    <3>1. "users" \in First(22) /\ "subscription_plans" \in First(22)
      BY Known
    <3> DEFINE p == <<"user_id", "users", "CASCADE">>
               q == <<"plan_id", "subscription_plans", "SET NULL">>
    <3>2. f = {p, q}
      BY DEF f, OfUser
    <3>3. p[2] = "users" /\ q[2] = "subscription_plans"
      OBVIOUS
    <3> HIDE DEF p, q
    <3> QED  BY <3>1, <3>2, <3>3
  <2>5. Fits(b, 23, 0)
    BY <2>2, <2>3, <2>4 DEF Fits, HasParts
  <2> QED  BY <2>5 DEF b
<1>24. Fits(Made["insurance_companies"], 24, 0)
  <2> DEFINE e == {}
             f == {}
             b == Made["insurance_companies"]
             k == {}
             c == {}
  <2>1. b = Model(e, f, k, c)
    BY MadeIs
  <2> HIDE DEF e, f, k, c, b
  <2>2. HasParts(b, e, f, c)
    BY <2>1, BodyIs
  <2>3. e \subseteq TypesTo(24)
    BY DEF e, TypesTo, AuthTypes, CustomerTypes, ErpTypes, SecondaryTypes,
        BillingTypes
  <2>4. \A fk \in f : fk[2] \in First(23)
    BY DEF f
  <2>5. Fits(b, 24, 0)
    BY <2>2, <2>3, <2>4 DEF Fits, HasParts
  <2> QED  BY <2>5 DEF b
<1>25. Fits(Made["stories"], 25, 0)
  <2> DEFINE e == {}
             f == {OfCenter("CASCADE")}
             b == Made["stories"]
             k == {}
             c == {}
  <2>1. b = Model(e, f, k, c)
    BY MadeIs
  <2> HIDE DEF e, f, k, c, b
  <2>2. HasParts(b, e, f, c)
    BY <2>1, BodyIs
  <2>3. e \subseteq TypesTo(25)
    BY DEF e, TypesTo, AuthTypes, CustomerTypes, ErpTypes, SecondaryTypes,
        BillingTypes
  <2>4. \A fk \in f : fk[2] \in First(24)
    <3>1. "service_centers" \in First(24)
      BY Known
    <3> DEFINE p == OfCenter("CASCADE")
    <3>2. f = {p}
      BY DEF f
    <3>3. p[2] = "service_centers"
      BY DEF OfCenter
    <3> HIDE DEF p
    <3> QED  BY <3>1, <3>2, <3>3
  <2>5. Fits(b, 25, 0)
    BY <2>2, <2>3, <2>4 DEF Fits, HasParts
  <2> QED  BY <2>5 DEF b
<1>26. Fits(Made["audit_logs"], 26, 0)
  <2> DEFINE e == {}
             f == {<<"actor_user_id", "users", "SET NULL">>}
             b == Made["audit_logs"]
             k == {}
             c == {"actor_user_id", "action", "entity_type", "entity_id", "at"}
  <2>1. b = Model(e, f, k, c)
    BY MadeIs
  <2> HIDE DEF e, f, k, c, b
  <2>2. HasParts(b, e, f, c)
    BY <2>1, BodyIs
  <2>3. e \subseteq TypesTo(26)
    BY DEF e, TypesTo, AuthTypes, CustomerTypes, ErpTypes, SecondaryTypes,
        BillingTypes
  <2>4. \A fk \in f : fk[2] \in First(25)
    <3>1. "users" \in First(25)
      BY Known
    <3> DEFINE p == <<"actor_user_id", "users", "SET NULL">>
    <3>2. f = {p}
      BY DEF f
    <3>3. p[2] = "users"
      OBVIOUS
    <3> HIDE DEF p
    <3> QED  BY <3>1, <3>2, <3>3
  <2>5. Fits(b, 26, 0)
    BY <2>2, <2>3, <2>4 DEF Fits, HasParts
  <2> QED  BY <2>5 DEF b
<1>27. \A i \in 1 .. 26 :
         i \in {1, 2, 3, 4, 5, 6, 7, 8, 9, 10, 11, 12, 13,
                14, 15, 16, 17, 18, 19, 20, 21, 22, 23, 24, 25, 26}
  OBVIOUS
<1> QED  BY <1>1, <1>2, <1>3, <1>4, <1>5, <1>6, <1>7, <1>8, <1>9, <1>10, <1>11, <1>12, <1>13,
            <1>14, <1>15, <1>16, <1>17, <1>18, <1>19, <1>20, <1>21, <1>22, <1>23,
            <1>24, <1>25, <1>26, <1>27, OrderIs

-----------------------------------------------------------------------------
(***************************************************************************)
(* The next table is made: its types are there, and the tables it refers   *)
(* to.                                                                     *)
(***************************************************************************)
\* What a body that fits needs is there.
LEMMA FitsIs ==
  ASSUME NEW b, NEW k \in 0 .. 25, NEW n, n = k + 1, NEW m \in 0 .. k, Fits(b, n, m),
         NEW enums, NEW fks, NEW cols, HasParts(b, enums, fks, cols),
         NEW E, TypesTo(n) \subseteq E
  PROVE  enums \subseteq E /\ \A fk \in fks : fk[2] \in First(k)
<1>1. enums \subseteq TypesTo(n) /\ \A fk \in fks : fk[2] \in First(n - 1) \cup First(m)
  BY DEF Fits, HasParts
<1>2. n - 1 = k
  OBVIOUS
<1>3. First(m) \subseteq First(k)
  <2>1. \A i \in 1 .. m : i \in 1 .. k
    OBVIOUS
  <2> QED  BY <2>1 DEF First
<1>4. First(n - 1) = First(k)
  BY <1>2
<1> QED  BY <1>1, <1>3, <1>4

\* The next table is made, bare ...
LEMMA MakesBare ==
  ASSUME NEW B, NEW k \in 0 .. 25, NEW n, n = k + 1, NEW t, t = Order[n],
         NEW enums, NEW fks, NEW keys, B[t] = Model(enums, fks, keys, {}),
         NEW m \in 0 .. k, Fits(B[t], n, m), NEW E, TypesTo(n) \subseteq E
  PROVE  Leads(<<CreateTable(t, Table(enums, fks, keys))>>,
               Cat(E, Tables(B, k)), Cat(E, Tables(B, n)))
<1> DEFINE f == Tables(B, k)
           b == Table(enums, fks, keys)
           o == CreateTable(t, b)
<1>1. enums \subseteq E /\ \A fk \in fks : fk[2] \in First(k)
  <2> DEFINE v == B[t]
             names == {}
  <2>1. HasParts(v, enums, fks, names) /\ Fits(v, n, m)
    BY BodyIs
  <2> HIDE DEF v, names
  <2> QED  BY <2>1, FitsIs
<1>2. GrowsBy(B, k, n, t)
  BY NextTable
<1>3. t \notin DOMAIN f /\ DOMAIN f = First(k) /\ Put(f, t, b) = Tables(B, n)
  <2>1. B[t] = b
    BY ModelBare
  <2> HIDE DEF b
  <2> QED  BY <1>2, <2>1 DEF GrowsBy
<1>4. IsTable(b) /\ b.enums = enums /\ b.fks = fks
  BY DEF Table, IsTable
<1>5. IsOp(o)
  BY <1>4 DEF IsOp, Kinds, CreateTable
<1> HIDE DEF f, b
<1>6. Step(Cat(E, f), o) = Cat(E, Put(f, t, b))
  BY <1>1, <1>3, <1>4, CreateStep
<1> HIDE DEF o
<1>7. Leads(<<o>>, Cat(E, f), Cat(E, Tables(B, n)))
  BY <1>3, <1>5, <1>6, OneLeads
<1> QED  BY <1>7 DEF o, f, b

\* ... with an index on each of some columns ...
LEMMA MakesWith ==
  ASSUME NEW B, NEW k \in 0 .. 25, NEW n, n = k + 1, NEW t, t = Order[n],
         NEW enums, NEW fks, NEW keys, NEW cols, IsTuple(cols), Distinct(cols),
         B[t] = Model(enums, fks, keys, RangeOf(cols)),
         NEW m \in 0 .. k, Fits(B[t], n, m), NEW E, TypesTo(n) \subseteq E
  PROVE  Leads(<<CreateTable(t, Table(enums, fks, keys))>> \o Indexes(t, cols),
               Cat(E, Tables(B, k)), Cat(E, Tables(B, n)))
<1> DEFINE f == Tables(B, k)
           b == Model(enums, fks, keys, RangeOf(cols))
<1>1. enums \subseteq E /\ \A fk \in fks : fk[2] \in First(k)
  <2> DEFINE v == B[t]
             names == RangeOf(cols)
  <2>1. HasParts(v, enums, fks, names) /\ Fits(v, n, m)
    BY BodyIs
  <2> HIDE DEF v, names
  <2> QED  BY <2>1, FitsIs
<1>2. GrowsBy(B, k, n, t)
  BY NextTable
<1>3. IsFun(f) /\ t \notin DOMAIN f /\ DOMAIN f = First(k)
  BY <1>2 DEF GrowsBy
<1>4. Put(f, t, b) = Tables(B, n)
  <2> HIDE DEF b
  <2> QED  BY <1>2 DEF GrowsBy, b
<1> HIDE DEF f
<1>5. Leads(<<CreateTable(t, Table(enums, fks, keys))>> \o Indexes(t, cols),
            Cat(E, f), Cat(E, Put(f, t, b)))
  BY <1>1, <1>3, TableLeads
<1> HIDE DEF b
<1> QED  BY <1>4, <1>5 DEF f

\* ... and with one more index.
LEMMA MakesAlso ==
  ASSUME NEW B, NEW k \in 0 .. 25, NEW n, n = k + 1, NEW t, t = Order[n],
         NEW enums, NEW fks, NEW keys, NEW cols, IsTuple(cols), Distinct(cols),
         NEW ix, ix[1] \notin RangeOf(cols),
         B[t] = Indexing(Model(enums, fks, keys, RangeOf(cols)), {ix}),
         NEW m \in 0 .. k, Fits(B[t], n, m), NEW E, TypesTo(n) \subseteq E
  PROVE  Leads(<<CreateTable(t, Table(enums, fks, keys))>> \o Indexes(t, cols)
               \o <<AddIndex(t, ix)>>,
               Cat(E, Tables(B, k)), Cat(E, Tables(B, n)))
<1> DEFINE f == Tables(B, k)
           b == Model(enums, fks, keys, RangeOf(cols))
           h == Put(f, t, b)
           o == AddIndex(t, ix)
           make == <<CreateTable(t, Table(enums, fks, keys))>> \o Indexes(t, cols)
<1>1. enums \subseteq E /\ \A fk \in fks : fk[2] \in First(k)
  <2> DEFINE v == B[t]
             names == RangeOf(cols) \cup {ix[1]}
  <2>1. HasParts(v, enums, fks, names) /\ Fits(v, n, m)
    BY IndexedIs
  <2> HIDE DEF v, names
  <2> QED  BY <2>1, FitsIs
<1>2. GrowsBy(B, k, n, t)
  BY NextTable
<1>3. IsFun(f) /\ t \notin DOMAIN f /\ DOMAIN f = First(k)
  BY <1>2 DEF GrowsBy
<1>4. Put(f, t, Indexing(b, {ix})) = Tables(B, n)
  BY <1>2 DEF GrowsBy
<1>5. b.indexes = Cols(RangeOf(cols))
  BY ModelIs
<1>6. IsOp(o)
  BY DEF IsOp, Kinds, AddIndex
<1> HIDE DEF f
<1>7. Leads(make, Cat(E, f), Cat(E, h))
  BY <1>1, <1>3, TableLeads
<1>8. /\ IsFun(h) /\ t \in DOMAIN h /\ h[t] = b
      /\ With(h, t, Indexing(b, {ix})) = Put(f, t, Indexing(b, {ix}))
  <2> HIDE DEF b
  <2>1. IsFun(h) /\ h[t] = b
    BY DEF Put, IsFun
  <2>2. t \in DOMAIN h
    BY DEF Put
  <2> QED  BY <2>1, <2>2, WithTwice
<1> HIDE DEF b, h, make
<1>9. \A x \in h[t].indexes : x[1] # ix[1]
  BY <1>5, <1>8 DEF Cols
<1>10. Step(Cat(E, h), o) = Cat(E, Tables(B, n))
  BY <1>4, <1>8, <1>9, IndexSteps
<1> HIDE DEF o
<1>11. Leads(<<o>>, Cat(E, h), Cat(E, Tables(B, n)))
  BY <1>6, <1>10, OneLeads
<1>12. Leads(make \o <<o>>, Cat(E, f), Cat(E, Tables(B, n)))
  BY <1>7, <1>11, ThenLeads
<1> QED  BY <1>12 DEF make, o, f

\* ... or with that one only.
LEMMA MakesOnly ==
  ASSUME NEW B, NEW k \in 0 .. 25, NEW n, n = k + 1, NEW t, t = Order[n],
         NEW enums, NEW fks, NEW keys, NEW ix,
         B[t] = Indexing(Model(enums, fks, keys, {}), {ix}),
         NEW m \in 0 .. k, Fits(B[t], n, m), NEW E, TypesTo(n) \subseteq E
  PROVE  Leads(<<CreateTable(t, Table(enums, fks, keys)), AddIndex(t, ix)>>,
               Cat(E, Tables(B, k)), Cat(E, Tables(B, n)))
<1> DEFINE f == Tables(B, k)
           b == Table(enums, fks, keys)
           h == Put(f, t, b)
           o == CreateTable(t, b)
           p == AddIndex(t, ix)
<1>1. enums \subseteq E /\ \A fk \in fks : fk[2] \in First(k)
  <2> DEFINE v == B[t]
             names == {} \cup {ix[1]}
  <2>1. HasParts(v, enums, fks, names) /\ Fits(v, n, m)
    BY IndexedIs
  <2> HIDE DEF v, names
  <2> QED  BY <2>1, FitsIs
<1>2. GrowsBy(B, k, n, t)
  BY NextTable
<1>3. t \notin DOMAIN f /\ DOMAIN f = First(k)
  BY <1>2 DEF GrowsBy
<1>4. Put(f, t, Indexing(b, {ix})) = Tables(B, n)
  BY <1>2, ModelBare DEF GrowsBy
<1>5. IsTable(b) /\ b.enums = enums /\ b.fks = fks /\ b.indexes = {}
  BY DEF Table, IsTable
<1>6. IsOp(o) /\ IsOp(p)
  BY <1>5 DEF IsOp, Kinds, CreateTable, AddIndex
<1> HIDE DEF f, b
<1>7. Step(Cat(E, f), o) = Cat(E, h)
  BY <1>1, <1>3, <1>5, CreateStep
<1>8. IsFun(h) /\ h[t] = b
  BY DEF Put, IsFun
<1>9. t \in DOMAIN h
  BY DEF Put
<1>10. With(h, t, Indexing(b, {ix})) = Put(f, t, Indexing(b, {ix}))
  BY WithTwice
<1> HIDE DEF h
<1>11. Step(Cat(E, h), p) = Cat(E, Tables(B, n))
  <2>1. \A x \in h[t].indexes : x[1] # ix[1]
    BY <1>5, <1>8
  <2>2. Step(Cat(E, h), p) = Cat(E, With(h, t, Indexing(h[t], {ix})))
    BY <2>1, <1>5, <1>8, <1>9, IndexSteps
  <2> QED  BY <2>2, <1>4, <1>8, <1>10
<1> HIDE DEF o, p
<1>12. Leads(<<o>>, Cat(E, f), Cat(E, h)) /\ Leads(<<p>>, Cat(E, h), Cat(E, Tables(B, n)))
  BY <1>6, <1>7, <1>11, OneLeads
<1> DEFINE x == <<o>>
           y == <<p>>
<1>13. <<o, p>> = x \o y
  BY Pair
<1> HIDE DEF x, y
<1>14. Leads(x \o y, Cat(E, f), Cat(E, Tables(B, n)))
  BY <1>12, ThenLeads DEF x, y
<1> QED  BY <1>13, <1>14 DEF o, p, f, b

-----------------------------------------------------------------------------
(***************************************************************************)
(* The tables once the third revision has filled the references in.        *)
(***************************************************************************)
\* Which tables 0003 gives references.
LEMMA FilledIs ==
  /\ Filled["users"] = Linking(Made["users"], OfCenter("SET NULL"))
  /\ Filled["reviews"] = Linking(Linking(Made["reviews"], OfCenter("CASCADE")),
                                 <<"service_id", "services", "SET NULL">>)
  /\ \A t \in First(26) : t # "users" /\ t # "reviews" => Filled[t] = Made[t]
  /\ DOMAIN Made = First(26) /\ DOMAIN Filled = First(26)
<1> DEFINE u == Linking(Made["users"], OfCenter("SET NULL"))
           r == Linking(Linking(Made["reviews"], OfCenter("CASCADE")),
                        <<"service_id", "services", "SET NULL">>)
           h == With(Made, "users", u)
<1>1. DOMAIN Made = First(26)
  BY DEF Made
<1>2. "users" \in First(26) /\ "reviews" \in First(26)
  BY InFirst, OrderIs
<1>3. Filled = With(h, "reviews", r)
  BY DEF Filled
<1> HIDE DEF u, r
<1>4. h["users"] = u /\ DOMAIN h = First(26) /\ \A t \in First(26) \ {"users"} : h[t] = Made[t]
  BY <1>1, <1>2, WithIs
<1> HIDE DEF h
<1>5. /\ Filled["reviews"] = r /\ DOMAIN Filled = First(26)
      /\ \A t \in First(26) \ {"reviews"} : Filled[t] = h[t]
  BY <1>2, <1>3, <1>4, WithIs
<1>6. Filled["users"] = u
  BY <1>2, <1>4, <1>5
<1>7. \A t \in First(26) : t # "users" /\ t # "reviews" => Filled[t] = Made[t]
  BY <1>4, <1>5
<1> QED  BY <1>1, <1>5, <1>6, <1>7 DEF u, r

\* What fits with fewer tables there fits with more.
LEMMA FitsMore ==
  ASSUME NEW b, NEW i \in 1 .. 26, Fits(b, i, 0), NEW m  PROVE Fits(b, i, m)
<1>1. First(0) = {}
  BY DEF First
<1> QED  BY <1>1 DEF Fits

\* Each of the tables as 0003 leaves them.
LEMMA FilledFits == \A i \in 1 .. 26 : Fits(Filled[Order[i]], i, 11)
<1>1. "service_centers" \in First(11) /\ "services" \in First(11)
  BY Known
<1>2. Order[1] = "users" /\ Order[5] = "reviews"
  BY OrderIs
<1>3. Fits(Made["users"], 1, 11) /\ Fits(Made["reviews"], 5, 11)
  BY <1>2, MadeFits, FitsMore
<1>4. ASSUME NEW b, NEW i \in 1 .. 26, Fits(b, i, 11), NEW fk, fk[2] \in First(11)
      PROVE  Fits(Linking(b, fk), i, 11)
  <2> DEFINE a == Linking(b, fk)
  <2>1. IsTable(b) /\ b.enums \subseteq TypesTo(i)
        /\ \A x \in b.fks : x[2] \in First(i - 1) \cup First(11)
    BY <1>4 DEF Fits
  <2>2. IsTable(a) /\ a.enums = b.enums /\ a.fks = b.fks \cup {fk}
    BY <2>1, ChangesAre
  <2> HIDE DEF a
  <2>3. Fits(a, i, 11)
    BY <1>4, <2>1, <2>2 DEF Fits
  <2> QED  BY <2>3 DEF a
<1> DEFINE p == OfCenter("SET NULL")
           q == OfCenter("CASCADE")
           s == <<"service_id", "services", "SET NULL">>
<1>5. p[2] = "service_centers" /\ q[2] = "service_centers" /\ s[2] = "services"
  BY DEF OfCenter
<1> HIDE DEF p, q, s
<1>6. Fits(Linking(Made["users"], p), 1, 11)
  BY <1>1, <1>3, <1>4, <1>5
<1>7. Fits(Linking(Linking(Made["reviews"], q), s), 5, 11)
  <2>1. Fits(Linking(Made["reviews"], q), 5, 11)
    BY <1>1, <1>3, <1>4, <1>5
  <2> QED  BY <1>1, <1>4, <1>5, <2>1
<1>8. ASSUME NEW i \in 1 .. 26  PROVE Fits(Filled[Order[i]], i, 11)
  <2>1. CASE i = 1
    BY <1>2, <1>6, <2>1, FilledIs DEF p
  <2>2. CASE i = 5
    BY <1>2, <1>7, <2>2, FilledIs DEF q, s
  <2>3. CASE i # 1 /\ i # 5
    <3>1. Order[i] \in First(26) /\ Order[i] # "users" /\ Order[i] # "reviews"
      BY <1>2, <2>3, InFirst, Places
    <3> QED  BY <3>1, MadeFits, FitsMore, FilledIs
  <2> QED  BY <2>1, <2>2, <2>3
<1> QED  BY <1>8

\* A change of one of the tables there are.
Alters(E, B, k, o, t, b) == Step(Cat(E, Tables(B, k)), o) = Cat(E, Tables(With(B, t, b), k))

\* A table changed among the first k.
LEMMA TablesWith ==
  ASSUME NEW B, DOMAIN B = First(26), NEW k \in 0 .. 26, NEW t \in First(k), NEW b
  PROVE  With(Tables(B, k), t, b) = Tables(With(B, t, b), k)
<1>1. First(k) \subseteq DOMAIN B
  <2>1. \A i \in 1 .. k : i \in 1 .. 26
    OBVIOUS
  <2> QED  BY <2>1 DEF First
<1> QED  BY <1>1 DEF With, Tables

\* What the operations on a table do to one of the first k: a reference more ...
LEMMA AddsFk ==
  ASSUME NEW B, DOMAIN B = First(26), NEW k \in 0 .. 26, NEW t, t \in First(k), NEW E,
         NEW fk, fk[2] \in First(k)
  PROVE  Alters(E, B, k, AddFk(t, fk), t, Linking(B[t], fk))
<1> DEFINE f == Tables(B, k)
           b == Linking(B[t], fk)
           o == AddFk(t, fk)
<1>1. IsFun(f) /\ DOMAIN f = First(k) /\ f[t] = B[t]
  BY DEF Tables, IsFun
<1>2. With(f, t, b) = Tables(With(B, t, b), k)
  BY TablesWith
<1> HIDE DEF f
<1>3. Step(Cat(E, f), o) = Cat(E, With(f, t, b))
  <2>1. Step(Cat(E, f), o) = Cat(E, With(f, t, Linking(f[t], fk)))
    BY <1>1, LinkSteps
  <2> QED  BY <1>1, <2>1
<1> HIDE DEF b, o
<1>4. Alters(E, B, k, o, t, b)
  BY <1>2, <1>3 DEF Alters, f
<1> QED  BY <1>4 DEF b, o

\* ... a reference less ...
LEMMA DropsFk ==
  ASSUME NEW B, DOMAIN B = First(26), NEW k \in 0 .. 26, NEW t, t \in First(k), NEW E,
         NEW col, col # Unnamed, \E fk \in B[t].fks : fk[1] = col
  PROVE  Alters(E, B, k, DropFk(t, col), t, Unlinking(B[t], col))
<1> DEFINE f == Tables(B, k)
           b == Unlinking(B[t], col)
           o == DropFk(t, col)
<1>1. IsFun(f) /\ DOMAIN f = First(k) /\ f[t] = B[t]
  BY DEF Tables, IsFun
<1>2. With(f, t, b) = Tables(With(B, t, b), k)
  BY TablesWith
<1> HIDE DEF f
<1>3. Step(Cat(E, f), o) = Cat(E, With(f, t, b))
  <2>1. Step(Cat(E, f), o) = Cat(E, With(f, t, Unlinking(f[t], col)))
    BY <1>1, LinkSteps
  <2> QED  BY <1>1, <2>1
<1> HIDE DEF b, o
<1>4. Alters(E, B, k, o, t, b)
  BY <1>2, <1>3 DEF Alters, f
<1> QED  BY <1>4 DEF b, o

\* ... an index more ...
LEMMA AddsIndex ==
  ASSUME NEW B, DOMAIN B = First(26), NEW k \in 0 .. 26, NEW t, t \in First(k), NEW E,
         NEW ix, \A x \in B[t].indexes : x[1] # ix[1]
  PROVE  Alters(E, B, k, AddIndex(t, ix), t, Indexing(B[t], {ix}))
<1> DEFINE f == Tables(B, k)
           b == Indexing(B[t], {ix})
           o == AddIndex(t, ix)
<1>1. IsFun(f) /\ DOMAIN f = First(k) /\ f[t] = B[t]
  BY DEF Tables, IsFun
<1>2. With(f, t, b) = Tables(With(B, t, b), k)
  BY TablesWith
<1> HIDE DEF f
<1>3. Step(Cat(E, f), o) = Cat(E, With(f, t, b))
  <2>1. Step(Cat(E, f), o) = Cat(E, With(f, t, Indexing(f[t], {ix})))
    BY <1>1, IndexSteps
  <2> QED  BY <1>1, <2>1
<1> HIDE DEF b, o
<1>4. Alters(E, B, k, o, t, b)
  BY <1>2, <1>3 DEF Alters, f
<1> QED  BY <1>4 DEF b, o

\* ... an index less ...
LEMMA DropsIndex ==
  ASSUME NEW B, DOMAIN B = First(26), NEW k \in 0 .. 26, NEW t, t \in First(k), NEW E,
         NEW name, \E ix \in B[t].indexes : ix[1] = name
  PROVE  Alters(E, B, k, DropIndex(t, name), t, Unindexing(B[t], {name}))
<1> DEFINE f == Tables(B, k)
           b == Unindexing(B[t], {name})
           o == DropIndex(t, name)
<1>1. IsFun(f) /\ DOMAIN f = First(k) /\ f[t] = B[t]
  BY DEF Tables, IsFun
<1>2. With(f, t, b) = Tables(With(B, t, b), k)
  BY TablesWith
<1> HIDE DEF f
<1>3. Step(Cat(E, f), o) = Cat(E, With(f, t, b))
  <2>1. Step(Cat(E, f), o) = Cat(E, With(f, t, Unindexing(f[t], {name})))
    BY <1>1, IndexSteps
  <2> QED  BY <1>1, <2>1
<1> HIDE DEF b, o
<1>4. Alters(E, B, k, o, t, b)
  BY <1>2, <1>3 DEF Alters, f
<1> QED  BY <1>4 DEF b, o

\* ... which need not be there.
LEMMA DropsIndexIfExists ==
  ASSUME NEW B, DOMAIN B = First(26), NEW k \in 0 .. 26, NEW t, t \in First(k), NEW E,
         NEW name
  PROVE  Alters(E, B, k, DropIndexIfExists(t, name), t, Unindexing(B[t], {name}))
<1> DEFINE f == Tables(B, k)
           b == Unindexing(B[t], {name})
           o == DropIndexIfExists(t, name)
<1>1. IsFun(f) /\ DOMAIN f = First(k) /\ f[t] = B[t]
  BY DEF Tables, IsFun
<1>2. With(f, t, b) = Tables(With(B, t, b), k)
  BY TablesWith
<1> HIDE DEF f
<1>3. Step(Cat(E, f), o) = Cat(E, With(f, t, b))
  <2>1. Step(Cat(E, f), o) = Cat(E, With(f, t, Unindexing(f[t], {name})))
    BY <1>1, IndexSteps
  <2> QED  BY <1>1, <2>1
<1> HIDE DEF b, o
<1>4. Alters(E, B, k, o, t, b)
  BY <1>2, <1>3 DEF Alters, f
<1> QED  BY <1>4 DEF b, o

\* The references that wait for the third revision.
LEMMA FillsIn ==
  ASSUME NEW E
  PROVE  Leads(BackFillReferences, Cat(E, Tables(Made, 14)), Cat(E, Tables(Filled, 14)))
<1> DEFINE p == OfCenter("SET NULL")
           q == OfCenter("CASCADE")
           s == <<"service_id", "services", "SET NULL">>
           u == Linking(Made["users"], p)
           v == Linking(Made["reviews"], q)
           w == Linking(v, s)
           f == With(Made, "users", u)
           g == With(f, "reviews", v)
           h == With(g, "reviews", w)
           a == AddFk("users", p)
           b == AddFk("reviews", q)
           d == AddFk("reviews", s)
<1>1. /\ "users" \in First(14) /\ "reviews" \in First(14)
      /\ "service_centers" \in First(14) /\ "services" \in First(14)
      /\ "users" \in First(26) /\ "reviews" \in First(26) /\ "users" # "reviews"
  BY InFirst, OrderIs
<1>2. p[2] = "service_centers" /\ q[2] = "service_centers" /\ s[2] = "services"
  BY DEF OfCenter
<1>3. h = Filled
  <2> HIDE DEF f, v, w
  <2>1. h = With(f, "reviews", w)
    BY WithTwice
  <2> QED  BY <2>1 DEF Filled, f, v, w
<1>4. IsOp(a) /\ IsOp(b) /\ IsOp(d)
  BY DEF IsOp, Kinds, AddFk
<1>5. BackFillReferences = <<a, b, d>>
  BY DEF BackFillReferences
<1>6. <<a, b, d>> = <<a>> \o <<b>> \o <<d>>
  <2> HIDE DEF a, b, d
  <2> QED  BY Triple
<1> HIDE DEF p, q, s
<1>7. DOMAIN Made = First(26)
  BY FilledIs
<1>8. DOMAIN f = First(26) /\ f["reviews"] = Made["reviews"]
  <2> HIDE DEF u
  <2> QED  BY <1>1, <1>7, WithIs
<1>9. Alters(E, Made, 14, a, "users", u)
  <2>1. 14 \in 0 .. 26 /\ p[2] \in First(14)
    BY <1>1, <1>2
  <2> QED  BY <1>1, <1>7, <2>1, AddsFk
<1> HIDE DEF f
<1>10. DOMAIN g = First(26) /\ g["reviews"] = v
  <2> HIDE DEF v
  <2> QED  BY <1>1, <1>8, WithIs
<1>11. Alters(E, f, 14, b, "reviews", v)
  <2>1. 14 \in 0 .. 26 /\ q[2] \in First(14)
    BY <1>1, <1>2
  <2> QED  BY <1>1, <1>8, <2>1, AddsFk
<1> HIDE DEF g, v
<1>12. Alters(E, g, 14, d, "reviews", w)
  <2>1. 14 \in 0 .. 26 /\ s[2] \in First(14)
    BY <1>1, <1>2
  <2> QED  BY <1>1, <1>10, <2>1, AddsFk
<1> HIDE DEF a, b, d, u, w
<1>13. /\ Step(Cat(E, Tables(Made, 14)), a) = Cat(E, Tables(f, 14))
       /\ Step(Cat(E, Tables(f, 14)), b) = Cat(E, Tables(g, 14))
       /\ Step(Cat(E, Tables(g, 14)), d) = Cat(E, Tables(h, 14))
  BY <1>9, <1>11, <1>12 DEF Alters, f, g
<1> HIDE DEF h
<1> DEFINE x == <<a>>
           y == <<b>>
           z == <<d>>
<1>14. /\ Leads(x, Cat(E, Tables(Made, 14)), Cat(E, Tables(f, 14)))
       /\ Leads(y, Cat(E, Tables(f, 14)), Cat(E, Tables(g, 14)))
       /\ Leads(z, Cat(E, Tables(g, 14)), Cat(E, Tables(h, 14)))
  BY <1>4, <1>13, OneLeads
<1>15. BackFillReferences = x \o y \o z
  BY <1>5, <1>6
<1> HIDE DEF x, y, z
<1>16. Leads(x \o y, Cat(E, Tables(Made, 14)), Cat(E, Tables(g, 14)))
  BY <1>14, ThenLeads
<1>17. Leads(x \o y \o z, Cat(E, Tables(Made, 14)), Cat(E, Tables(h, 14)))
  BY <1>14, <1>16, ThenLeads
<1> QED  BY <1>3, <1>15, <1>17

-----------------------------------------------------------------------------
(***************************************************************************)
(* The upgrades, table by table.                                           *)
(***************************************************************************)
\* 0001.
LEMMA UpAuth == Leads(Upgrade[1], Cat({}, Tables(Made, 0)), Cat(TypesTo(2), Tables(Made, 2)))
<1> DEFINE T == TypesTo(2)
           a == <<CreateEnum("user_role")>>
           d == <<CreateTable("users", Table({"user_role"}, {}, {<<"phone">>}))>>
           i == Indexes("users", <<"email", "role", "center_id">>)
<1>1. /\ TypesTo(1) \subseteq T
      /\ TypesTo(2) \subseteq T
  BY DEF TypesTo
<1>2. Leads(d \o i, Cat(T, Tables(Made, 0)), Cat(T, Tables(Made, 1)))
  <2> DEFINE e == {"user_role"}
             f == {}
             k == {<<"phone">>}
             c == <<"email", "role", "center_id">>
             C == {"email", "role", "center_id"}
  <2>1. Made["users"] = Model(e, f, k, C)
    BY MadeIs
  <2>2. IsTuple(c) /\ RangeOf(c) = C /\ Distinct(c)
    BY Lists
  <2> HIDE DEF T, e, f, k, c, C
  <2>3. Made["users"] = Model(e, f, k, RangeOf(c))
    BY <2>1, <2>2
  <2>4. /\ "users" = Order[1] /\ 0 \in 0 .. 25 /\ 1 = 0 + 1
       /\ Fits(Made["users"], 1, 0) /\ 0 \in 0 .. 0 /\ TypesTo(1) \subseteq T
    BY <1>1, MadeFits, OrderIs
  <2>5. Leads(<<CreateTable("users", Table(e, f, k))>> \o Indexes("users", c),
              Cat(T, Tables(Made, 0)), Cat(T, Tables(Made, 1)))
    BY <2>2, <2>3, <2>4, MakesWith
  <2> QED  BY <2>5 DEF e, f, k, c, d, i
<1>3. Leads(CreateRefreshTokens, Cat(T, Tables(Made, 1)), Cat(T, Tables(Made, 2)))
  <2> DEFINE e == {}
             f == OfUser
             k == {<<"token_hash">>}
             c == <<"user_id", "expires_at">>
             C == {"user_id", "expires_at"}
  <2>1. Made["refresh_tokens"] = Model(e, f, k, C)
    BY MadeIs
  <2>2. IsTuple(c) /\ RangeOf(c) = C /\ Distinct(c)
    BY Lists
  <2> HIDE DEF T, e, f, k, c, C
  <2>3. Made["refresh_tokens"] = Model(e, f, k, RangeOf(c))
    BY <2>1, <2>2
  <2>4. /\ "refresh_tokens" = Order[2] /\ 1 \in 0 .. 25 /\ 2 = 1 + 1
       /\ Fits(Made["refresh_tokens"], 2, 0) /\ 0 \in 0 .. 1 /\ TypesTo(2) \subseteq T
    BY <1>1, MadeFits, OrderIs
  <2>5. Leads(<<CreateTable("refresh_tokens", Table(e, f, k))>> \o
              Indexes("refresh_tokens", c),
              Cat(T, Tables(Made, 1)), Cat(T, Tables(Made, 2)))
    BY <2>2, <2>3, <2>4, MakesWith
  <2> QED  BY <2>5 DEF e, f, k, c, CreateRefreshTokens
<1>4. Leads(a, Cat({}, Tables(Made, 0)), Cat(T, Tables(Made, 0)))
  <2>1. Step(Cat({}, Tables(Made, 0)), CreateEnum("user_role"))
        = Cat({} \cup {"user_role"}, Tables(Made, 0))
    BY TypeSteps
  <2>2. {} \cup {"user_role"} = T
    BY DEF TypesTo, AuthTypes
  <2>3. IsOp(CreateEnum("user_role"))
    BY DEF IsOp, Kinds, CreateEnum
  <2> HIDE DEF T
  <2> QED  BY <2>1, <2>2, <2>3, OneLeads
<1>5. IsScript(d) /\ IsScript(i)
  <2>1. IsTuple(<<"email", "role", "center_id">>)
    BY Lists
  <2> QED  BY <2>1, ScriptsAre
<1>6. CreateUsers = a \o d \o i
  BY Pair DEF CreateUsers
<1>7. Upgrade[1] = CreateUsers \o CreateRefreshTokens
  BY DEF Upgrade
<1> HIDE DEF T, a, d, i
<1>8. Leads(a \o d \o i, Cat({}, Tables(Made, 0)), Cat(T, Tables(Made, 1)))
  BY <1>2, <1>4, <1>5, BlockLeads
<1> QED  BY <1>3, <1>6, <1>7, <1>8, ThenLeads DEF T

\* 0002.
LEMMA UpCustomer ==
  Leads(Upgrade[2], Cat(TypesTo(2), Tables(Made, 2)), Cat(TypesTo(8), Tables(Made, 8)))
<1> DEFINE T == TypesTo(8)
<1>1. /\ TypesTo(3) \subseteq T
      /\ TypesTo(4) \subseteq T
      /\ TypesTo(5) \subseteq T
      /\ TypesTo(6) \subseteq T
      /\ TypesTo(7) \subseteq T
      /\ TypesTo(8) \subseteq T
  BY DEF TypesTo
<1>2. Leads(CustomerEnums, Cat(TypesTo(2), Tables(Made, 2)), Cat(T, Tables(Made, 2)))
  <2> DEFINE es == <<"plate_type", "mileage_source", "content_kind", "device_platform">>
  <2>1. IsTuple(es) /\ RangeOf(es) = CustomerTypes
    BY Tuples DEF CustomerTypes
  <2>2. T = TypesTo(2) \cup CustomerTypes
    BY DEF TypesTo
  <2> HIDE DEF T, es
  <2>3. Leads(Enums(es), Cat(TypesTo(2), Tables(Made, 2)), Cat(T, Tables(Made, 2)))
    BY <2>1, <2>2, EnumsLead
  <2> QED  BY <2>3 DEF es, CustomerEnums
<1>3. Leads(CreateCars, Cat(T, Tables(Made, 2)), Cat(T, Tables(Made, 3)))
  <2> DEFINE e == {"plate_type"}
             f == {<<"owner_id", "users", "CASCADE">>}
             k == {<<"plate">>, <<"vin">>}
             c == <<"owner_id">>
             C == {"owner_id"}
  <2>1. Made["cars"] = Model(e, f, k, C)
    BY MadeIs
  <2>2. IsTuple(c) /\ RangeOf(c) = C /\ Distinct(c)
    BY Lists
  <2> HIDE DEF T, e, f, k, c, C
  <2>3. Made["cars"] = Model(e, f, k, RangeOf(c))
    BY <2>1, <2>2
  <2>4. /\ "cars" = Order[3] /\ 2 \in 0 .. 25 /\ 3 = 2 + 1
       /\ Fits(Made["cars"], 3, 0) /\ 0 \in 0 .. 2 /\ TypesTo(3) \subseteq T
    BY <1>1, MadeFits, OrderIs
  <2>5. Leads(<<CreateTable("cars", Table(e, f, k))>> \o Indexes("cars", c),
              Cat(T, Tables(Made, 2)), Cat(T, Tables(Made, 3)))
    BY <2>2, <2>3, <2>4, MakesWith
  <2> QED  BY <2>5 DEF e, f, k, c, CreateCars
<1>4. Leads(CreateMileageReadings, Cat(T, Tables(Made, 3)), Cat(T, Tables(Made, 4)))
  <2> DEFINE e == {"mileage_source"}
             f == {<<"car_id", "cars", "CASCADE">>}
             k == {}
             c == <<"car_id">>
             C == {"car_id"}
             x == <<"recorded_at", <<"car_id", "recorded_at">>>>
  <2>1. Made["mileage_readings"] = Indexing(Model(e, f, k, C), {x})
    BY MadeIs
  <2>2. IsTuple(c) /\ RangeOf(c) = C /\ Distinct(c) /\ x[1] \notin C
    BY Lists
  <2> HIDE DEF T, e, f, k, c, C, x
  <2>3. Made["mileage_readings"] = Indexing(Model(e, f, k, RangeOf(c)), {x}) /\ x[1] \notin RangeOf(c)
    BY <2>1, <2>2
  <2>4. /\ "mileage_readings" = Order[4] /\ 3 \in 0 .. 25 /\ 4 = 3 + 1
       /\ Fits(Made["mileage_readings"], 4, 0) /\ 0 \in 0 .. 3 /\ TypesTo(4) \subseteq T
    BY <1>1, MadeFits, OrderIs
  <2>5. Leads(<<CreateTable("mileage_readings", Table(e, f, k))>> \o
              Indexes("mileage_readings", c) \o <<AddIndex("mileage_readings", x)>>,
              Cat(T, Tables(Made, 3)), Cat(T, Tables(Made, 4)))
    BY <2>2, <2>3, <2>4, MakesAlso
  <2> QED  BY <2>5 DEF e, f, k, c, x, CreateMileageReadings
<1>5. Leads(CreateReviews, Cat(T, Tables(Made, 4)), Cat(T, Tables(Made, 5)))
  <2> DEFINE e == {}
             f == OfUser
             k == {}
             c == <<"user_id", "center_id">>
             C == {"user_id", "center_id"}
  <2>1. Made["reviews"] = Model(e, f, k, C)
    BY MadeIs
  <2>2. IsTuple(c) /\ RangeOf(c) = C /\ Distinct(c)
    BY Lists
  <2> HIDE DEF T, e, f, k, c, C
  <2>3. Made["reviews"] = Model(e, f, k, RangeOf(c))
    BY <2>1, <2>2
  <2>4. /\ "reviews" = Order[5] /\ 4 \in 0 .. 25 /\ 5 = 4 + 1
       /\ Fits(Made["reviews"], 5, 0) /\ 0 \in 0 .. 4 /\ TypesTo(5) \subseteq T
    BY <1>1, MadeFits, OrderIs
  <2>5. Leads(<<CreateTable("reviews", Table(e, f, k))>> \o Indexes("reviews", c),
              Cat(T, Tables(Made, 4)), Cat(T, Tables(Made, 5)))
    BY <2>2, <2>3, <2>4, MakesWith
  <2> QED  BY <2>5 DEF e, f, k, c, CreateReviews
<1>6. Leads(CreateContentPages, Cat(T, Tables(Made, 5)), Cat(T, Tables(Made, 6)))
  <2> DEFINE e == {"content_kind"}
             f == {}
             k == {<<"kind", "lang", "slug">>}
             c == <<"kind">>
             C == {"kind"}
  <2>1. Made["content_pages"] = Model(e, f, k, C)
    BY MadeIs
  <2>2. IsTuple(c) /\ RangeOf(c) = C /\ Distinct(c)
    BY Lists
  <2> HIDE DEF T, e, f, k, c, C
  <2>3. Made["content_pages"] = Model(e, f, k, RangeOf(c))
    BY <2>1, <2>2
  <2>4. /\ "content_pages" = Order[6] /\ 5 \in 0 .. 25 /\ 6 = 5 + 1
       /\ Fits(Made["content_pages"], 6, 0) /\ 0 \in 0 .. 5 /\ TypesTo(6) \subseteq T
    BY <1>1, MadeFits, OrderIs
  <2>5. Leads(<<CreateTable("content_pages", Table(e, f, k))>> \o
              Indexes("content_pages", c),
              Cat(T, Tables(Made, 5)), Cat(T, Tables(Made, 6)))
    BY <2>2, <2>3, <2>4, MakesWith
  <2> QED  BY <2>5 DEF e, f, k, c, CreateContentPages
<1>7. Leads(CreateNotifications, Cat(T, Tables(Made, 6)), Cat(T, Tables(Made, 7)))
  <2> DEFINE e == {}
             f == OfUser
             k == {}
             c == <<"user_id", "kind">>
             C == {"user_id", "kind"}
             x == <<"read_at", <<"user_id", "read_at">>>>
  <2>1. Made["notifications"] = Indexing(Model(e, f, k, C), {x})
    BY MadeIs
  <2>2. IsTuple(c) /\ RangeOf(c) = C /\ Distinct(c) /\ x[1] \notin C
    BY Lists
  <2> HIDE DEF T, e, f, k, c, C, x
  <2>3. Made["notifications"] = Indexing(Model(e, f, k, RangeOf(c)), {x}) /\ x[1] \notin RangeOf(c)
    BY <2>1, <2>2
  <2>4. /\ "notifications" = Order[7] /\ 6 \in 0 .. 25 /\ 7 = 6 + 1
       /\ Fits(Made["notifications"], 7, 0) /\ 0 \in 0 .. 6 /\ TypesTo(7) \subseteq T
    BY <1>1, MadeFits, OrderIs
  <2>5. Leads(<<CreateTable("notifications", Table(e, f, k))>> \o
              Indexes("notifications", c) \o <<AddIndex("notifications", x)>>,
              Cat(T, Tables(Made, 6)), Cat(T, Tables(Made, 7)))
    BY <2>2, <2>3, <2>4, MakesAlso
  <2> QED  BY <2>5 DEF e, f, k, c, x, CreateNotifications
<1>8. Leads(CreateDevices, Cat(T, Tables(Made, 7)), Cat(T, Tables(Made, 8)))
  <2> DEFINE e == {"device_platform"}
             f == OfUser
             k == {<<"user_id", "token">>}
             c == <<"user_id">>
             C == {"user_id"}
  <2>1. Made["devices"] = Model(e, f, k, C)
    BY MadeIs
  <2>2. IsTuple(c) /\ RangeOf(c) = C /\ Distinct(c)
    BY Lists
  <2> HIDE DEF T, e, f, k, c, C
  <2>3. Made["devices"] = Model(e, f, k, RangeOf(c))
    BY <2>1, <2>2
  <2>4. /\ "devices" = Order[8] /\ 7 \in 0 .. 25 /\ 8 = 7 + 1
       /\ Fits(Made["devices"], 8, 0) /\ 0 \in 0 .. 7 /\ TypesTo(8) \subseteq T
    BY <1>1, MadeFits, OrderIs
  <2>5. Leads(<<CreateTable("devices", Table(e, f, k))>> \o Indexes("devices", c),
              Cat(T, Tables(Made, 7)), Cat(T, Tables(Made, 8)))
    BY <2>2, <2>3, <2>4, MakesWith
  <2> QED  BY <2>5 DEF e, f, k, c, CreateDevices
<1> HIDE DEF T
<1>9. Leads(CustomerEnums \o CreateCars,
          Cat(TypesTo(2), Tables(Made, 2)), Cat(T, Tables(Made, 3)))
  BY <1>2, <1>3, ThenLeads
<1>10. Leads(CustomerEnums \o CreateCars \o CreateMileageReadings,
          Cat(TypesTo(2), Tables(Made, 2)), Cat(T, Tables(Made, 4)))
  BY <1>9, <1>4, ThenLeads
<1>11. Leads(CustomerEnums \o CreateCars \o CreateMileageReadings \o CreateReviews,
          Cat(TypesTo(2), Tables(Made, 2)), Cat(T, Tables(Made, 5)))
  BY <1>10, <1>5, ThenLeads
<1>12. Leads(CustomerEnums \o CreateCars \o CreateMileageReadings \o CreateReviews \o
              CreateContentPages,
          Cat(TypesTo(2), Tables(Made, 2)), Cat(T, Tables(Made, 6)))
  BY <1>11, <1>6, ThenLeads
<1>13. Leads(CustomerEnums \o CreateCars \o CreateMileageReadings \o CreateReviews \o
              CreateContentPages \o CreateNotifications,
          Cat(TypesTo(2), Tables(Made, 2)), Cat(T, Tables(Made, 7)))
  BY <1>12, <1>7, ThenLeads
<1>14. Leads(CustomerEnums \o CreateCars \o CreateMileageReadings \o CreateReviews \o
              CreateContentPages \o CreateNotifications \o CreateDevices,
          Cat(TypesTo(2), Tables(Made, 2)), Cat(T, Tables(Made, 8)))
  BY <1>13, <1>8, ThenLeads
<1> QED  BY <1>14 DEF Upgrade, T

\* 0003.
LEMMA UpErp ==
  Leads(Upgrade[3], Cat(TypesTo(8), Tables(Made, 8)), Cat(TypesTo(14), Tables(Filled, 14)))
<1> DEFINE T == TypesTo(14)
           a == Enums(<<"service_status", "condition_image_stage">>)
           d == <<CreateTable("service_centers", Table({}, {<<"owner_user_id",
                   "users", "CASCADE">>}, {}))>>
           i == Indexes("service_centers", <<"owner_user_id">>)
<1>1. /\ TypesTo(9) \subseteq T
      /\ TypesTo(10) \subseteq T
      /\ TypesTo(11) \subseteq T
      /\ TypesTo(12) \subseteq T
      /\ TypesTo(13) \subseteq T
      /\ TypesTo(14) \subseteq T
  BY DEF TypesTo
<1>2. Leads(a, Cat(TypesTo(8), Tables(Made, 8)), Cat(T, Tables(Made, 8)))
  <2> DEFINE es == <<"service_status", "condition_image_stage">>
  <2>1. IsTuple(es) /\ RangeOf(es) = ErpTypes
    BY Tuples DEF ErpTypes
  <2>2. T = TypesTo(8) \cup ErpTypes
    BY DEF TypesTo
  <2> HIDE DEF T, es
  <2>3. Leads(Enums(es), Cat(TypesTo(8), Tables(Made, 8)), Cat(T, Tables(Made, 8)))
    BY <2>1, <2>2, EnumsLead
  <2> QED  BY <2>3 DEF es, a
<1>3. Leads(d \o i, Cat(T, Tables(Made, 8)), Cat(T, Tables(Made, 9)))
  <2> DEFINE e == {}
             f == {<<"owner_user_id", "users", "CASCADE">>}
             k == {}
             c == <<"owner_user_id">>
             C == {"owner_user_id"}
  <2>1. Made["service_centers"] = Model(e, f, k, C)
    BY MadeIs
  <2>2. IsTuple(c) /\ RangeOf(c) = C /\ Distinct(c)
    BY Lists
  <2> HIDE DEF T, e, f, k, c, C
  <2>3. Made["service_centers"] = Model(e, f, k, RangeOf(c))
    BY <2>1, <2>2
  <2>4. /\ "service_centers" = Order[9] /\ 8 \in 0 .. 25 /\ 9 = 8 + 1
       /\ Fits(Made["service_centers"], 9, 0) /\ 0 \in 0 .. 8 /\ TypesTo(9) \subseteq T
    BY <1>1, MadeFits, OrderIs
  <2>5. Leads(<<CreateTable("service_centers", Table(e, f, k))>> \o
              Indexes("service_centers", c),
              Cat(T, Tables(Made, 8)), Cat(T, Tables(Made, 9)))
    BY <2>2, <2>3, <2>4, MakesWith
  <2> QED  BY <2>5 DEF e, f, k, c, d, i
<1>4. Leads(CreateMechanics, Cat(T, Tables(Made, 9)), Cat(T, Tables(Made, 10)))
  <2> DEFINE e == {}
             f == {OfCenter("CASCADE")}
             k == {<<"login">>}
             c == <<"center_id">>
             C == {"center_id"}
             x == <<"center_active", <<"center_id", "deleted_at IS NULL">>>>
  <2>1. Made["mechanics"] = Indexing(Model(e, f, k, C), {x})
    BY MadeIs
  <2>2. IsTuple(c) /\ RangeOf(c) = C /\ Distinct(c) /\ x[1] \notin C
    BY Lists
  <2> HIDE DEF T, e, f, k, c, C, x
  <2>3. Made["mechanics"] = Indexing(Model(e, f, k, RangeOf(c)), {x}) /\ x[1] \notin RangeOf(c)
    BY <2>1, <2>2
  <2>4. /\ "mechanics" = Order[10] /\ 9 \in 0 .. 25 /\ 10 = 9 + 1
       /\ Fits(Made["mechanics"], 10, 0) /\ 0 \in 0 .. 9 /\ TypesTo(10) \subseteq T
    BY <1>1, MadeFits, OrderIs
  <2>5. Leads(<<CreateTable("mechanics", Table(e, f, k))>> \o Indexes("mechanics", c)
              \o <<AddIndex("mechanics", x)>>,
              Cat(T, Tables(Made, 9)), Cat(T, Tables(Made, 10)))
    BY <2>2, <2>3, <2>4, MakesAlso
  <2> QED  BY <2>5 DEF e, f, k, c, x, CreateMechanics
<1>5. Leads(CreateServices, Cat(T, Tables(Made, 10)), Cat(T, Tables(Made, 11)))
  <2> DEFINE e == {"service_status"}
             f == {<<"car_id", "cars", "RESTRICT">>, OfCenter("RESTRICT"),
                  <<"mechanic_id", "mechanics", "SET NULL">>}
             k == {}
             c == <<"car_id", "center_id", "mechanic_id">>
             C == {"car_id", "center_id", "mechanic_id"}
             x == <<"center_status", <<"center_id", "status">>>>
  <2>1. Made["services"] = Indexing(Model(e, f, k, C), {x})
    BY MadeIs
  <2>2. IsTuple(c) /\ RangeOf(c) = C /\ Distinct(c) /\ x[1] \notin C
    BY Lists
  <2> HIDE DEF T, e, f, k, c, C, x
  <2>3. Made["services"] = Indexing(Model(e, f, k, RangeOf(c)), {x}) /\ x[1] \notin RangeOf(c)
    BY <2>1, <2>2
  <2>4. /\ "services" = Order[11] /\ 10 \in 0 .. 25 /\ 11 = 10 + 1
       /\ Fits(Made["services"], 11, 0) /\ 0 \in 0 .. 10 /\ TypesTo(11) \subseteq T
    BY <1>1, MadeFits, OrderIs
  <2>5. Leads(<<CreateTable("services", Table(e, f, k))>> \o Indexes("services", c) \o
              <<AddIndex("services", x)>>,
              Cat(T, Tables(Made, 10)), Cat(T, Tables(Made, 11)))
    BY <2>2, <2>3, <2>4, MakesAlso
  <2> QED  BY <2>5 DEF e, f, k, c, x, CreateServices
<1>6. Leads(CreateServiceItems, Cat(T, Tables(Made, 11)), Cat(T, Tables(Made, 12)))
  <2> DEFINE e == {}
             f == {OfService}
             k == {}
             c == <<"service_id">>
             C == {"service_id"}
  <2>1. Made["service_items"] = Model(e, f, k, C)
    BY MadeIs
  <2>2. IsTuple(c) /\ RangeOf(c) = C /\ Distinct(c)
    BY Lists
  <2> HIDE DEF T, e, f, k, c, C
  <2>3. Made["service_items"] = Model(e, f, k, RangeOf(c))
    BY <2>1, <2>2
  <2>4. /\ "service_items" = Order[12] /\ 11 \in 0 .. 25 /\ 12 = 11 + 1
       /\ Fits(Made["service_items"], 12, 0) /\ 0 \in 0 .. 11 /\ TypesTo(12) \subseteq T
    BY <1>1, MadeFits, OrderIs
  <2>5. Leads(<<CreateTable("service_items", Table(e, f, k))>> \o
              Indexes("service_items", c),
              Cat(T, Tables(Made, 11)), Cat(T, Tables(Made, 12)))
    BY <2>2, <2>3, <2>4, MakesWith
  <2> QED  BY <2>5 DEF e, f, k, c, CreateServiceItems
<1>7. Leads(CreateServiceTransitions, Cat(T, Tables(Made, 12)), Cat(T, Tables(Made, 13)))
  <2> DEFINE e == {"service_status"}
             f == {OfService, <<"by_user_id", "users", "SET NULL">>}
             k == {}
             x == <<"service_at", <<"service_id", "at DESC">>>>
  <2>1. Made["service_transitions"] = Indexing(Model(e, f, k, {}), {x})
    BY MadeIs
  <2> HIDE DEF T, e, f, k, x
  <2>2. /\ "service_transitions" = Order[13] /\ 12 \in 0 .. 25 /\ 13 = 12 + 1
       /\ Fits(Made["service_transitions"], 13, 0) /\ 0 \in 0 .. 12 /\ TypesTo(13) \subseteq T
    BY <1>1, MadeFits, OrderIs
  <2>3. Leads(<<CreateTable("service_transitions", Table(e, f, k)),
              AddIndex("service_transitions", x)>>,
              Cat(T, Tables(Made, 12)), Cat(T, Tables(Made, 13)))
    BY <2>1, <2>2, MakesOnly
  <2> QED  BY <2>3 DEF e, f, k, x, CreateServiceTransitions
<1>8. Leads(CreateConditionImages, Cat(T, Tables(Made, 13)), Cat(T, Tables(Made, 14)))
  <2> DEFINE e == {"condition_image_stage"}
             f == {OfService, <<"uploaded_by", "users", "SET NULL">>}
             k == {}
             c == <<"service_id">>
             C == {"service_id"}
  <2>1. Made["condition_images"] = Model(e, f, k, C)
    BY MadeIs
  <2>2. IsTuple(c) /\ RangeOf(c) = C /\ Distinct(c)
    BY Lists
  <2> HIDE DEF T, e, f, k, c, C
  <2>3. Made["condition_images"] = Model(e, f, k, RangeOf(c))
    BY <2>1, <2>2
  <2>4. /\ "condition_images" = Order[14] /\ 13 \in 0 .. 25 /\ 14 = 13 + 1
       /\ Fits(Made["condition_images"], 14, 0) /\ 0 \in 0 .. 13 /\ TypesTo(14) \subseteq T
    BY <1>1, MadeFits, OrderIs
  <2>5. Leads(<<CreateTable("condition_images", Table(e, f, k))>> \o
              Indexes("condition_images", c),
              Cat(T, Tables(Made, 13)), Cat(T, Tables(Made, 14)))
    BY <2>2, <2>3, <2>4, MakesWith
  <2> QED  BY <2>5 DEF e, f, k, c, CreateConditionImages
<1>9. IsScript(d) /\ IsScript(i)
  <2>1. IsTuple(<<"owner_user_id">>)
    BY Lists
  <2> QED  BY <2>1, ScriptsAre
<1>10. CreateServiceCenters = a \o d \o i
  BY DEF CreateServiceCenters
<1> DEFINE c == Cat(TypesTo(8), Tables(Made, 8))
<1> HIDE DEF T, a, d, i
<1>11. Leads(CreateServiceCenters, c, Cat(T, Tables(Made, 9)))
  BY <1>2, <1>3, <1>9, <1>10, BlockLeads
<1>12. Leads(BackFillReferences, Cat(T, Tables(Made, 14)), Cat(T, Tables(Filled, 14)))
  BY FillsIn
<1> HIDE DEF c
<1>13. Leads(CreateServiceCenters \o CreateMechanics,
          c, Cat(T, Tables(Made, 10)))
  BY <1>11, <1>4, ThenLeads
<1>14. Leads(CreateServiceCenters \o CreateMechanics \o CreateServices,
          c, Cat(T, Tables(Made, 11)))
  BY <1>13, <1>5, ThenLeads
<1>15. Leads(CreateServiceCenters \o CreateMechanics \o CreateServices \o
              CreateServiceItems,
          c, Cat(T, Tables(Made, 12)))
  BY <1>14, <1>6, ThenLeads
<1>16. Leads(CreateServiceCenters \o CreateMechanics \o CreateServices \o
              CreateServiceItems \o CreateServiceTransitions,
          c, Cat(T, Tables(Made, 13)))
  BY <1>15, <1>7, ThenLeads
<1>17. Leads(CreateServiceCenters \o CreateMechanics \o CreateServices \o
              CreateServiceItems \o CreateServiceTransitions \o CreateConditionImages,
          c, Cat(T, Tables(Made, 14)))
  BY <1>16, <1>8, ThenLeads
<1>18. Leads(CreateServiceCenters \o CreateMechanics \o CreateServices \o
              CreateServiceItems \o CreateServiceTransitions \o CreateConditionImages
              \o BackFillReferences,
          c, Cat(T, Tables(Filled, 14)))
  BY <1>17, <1>12, ThenLeads
<1> QED  BY <1>18 DEF Upgrade, T, c

\* 0004.
LEMMA UpSecondary ==
  Leads(Upgrade[4], Cat(TypesTo(14), Tables(Filled, 14)), Cat(TypesTo(21), Tables(Filled, 21)))
<1> DEFINE T == TypesTo(21)
           d1 == <<CreateTable("trips", Table({}, OfUser \cup {<<"car_id", "cars",
                    "SET NULL">>}, {}))>>
           i1 == Indexes("trips", <<"user_id", "car_id">>)
           d2 == <<CreateTable("trip_points", Table({}, {<<"trip_id", "trips",
                    "CASCADE">>}, {}))>>
           i2 == Indexes("trip_points", <<"trip_id">>)
           d3 == <<CreateTable("sos_providers", Table({"sos_category"}, {}, {}))>>
           i3 == Indexes("sos_providers", <<"category", "city">>)
           d4 == <<CreateTable("sos_requests", Table({"sos_request_status"}, OfUser
                    \cup {<<"provider_id", "sos_providers", "SET NULL">>}, {}))>>
           i4 == Indexes("sos_requests", <<"user_id">>)
           d5 == <<CreateTable("insurance_policies", Table({"payment_status"}, OfUser
                    \cup {<<"car_id", "cars", "RESTRICT">>, <<"tariff_id",
                    "insurance_tariffs", "RESTRICT">>}, {}))>>
           i5 == Indexes("insurance_policies", <<"user_id">>)
           d6 == <<CreateTable("insurance_tariffs", Table({}, {}, {<<"code">>}))>>
<1>1. /\ TypesTo(15) \subseteq T
      /\ TypesTo(16) \subseteq T
      /\ TypesTo(17) \subseteq T
      /\ TypesTo(18) \subseteq T
      /\ TypesTo(19) \subseteq T
      /\ TypesTo(20) \subseteq T
      /\ TypesTo(21) \subseteq T
  BY DEF TypesTo
<1>2. /\ Filled["trips"] = Made["trips"]
      /\ Filled["trip_points"] = Made["trip_points"]
      /\ Filled["sos_providers"] = Made["sos_providers"]
      /\ Filled["sos_requests"] = Made["sos_requests"]
      /\ Filled["fuel_stations"] = Made["fuel_stations"]
      /\ Filled["insurance_tariffs"] = Made["insurance_tariffs"]
      /\ Filled["insurance_policies"] = Made["insurance_policies"]
  <2>1. /\ "trips" \in First(26)
        /\ "trip_points" \in First(26)
        /\ "sos_providers" \in First(26)
        /\ "sos_requests" \in First(26)
        /\ "fuel_stations" \in First(26)
        /\ "insurance_tariffs" \in First(26)
        /\ "insurance_policies" \in First(26)
    BY InFirst, OrderIs
  <2> QED  BY <2>1, FilledIs
<1>3. Leads(SecondaryEnums, Cat(TypesTo(14), Tables(Filled, 14)), Cat(T, Tables(Filled, 14)))
  <2> DEFINE es == <<"sos_category", "sos_request_status", "payment_status">>
  <2>1. IsTuple(es) /\ RangeOf(es) = SecondaryTypes
    BY Tuples DEF SecondaryTypes
  <2>2. T = TypesTo(14) \cup SecondaryTypes
    BY DEF TypesTo
  <2> HIDE DEF T, es
  <2>3. Leads(Enums(es), Cat(TypesTo(14), Tables(Filled, 14)), Cat(T, Tables(Filled, 14)))
    BY <2>1, <2>2, EnumsLead
  <2> QED  BY <2>3 DEF es, SecondaryEnums
<1>4. Leads(d1 \o i1, Cat(T, Tables(Filled, 14)), Cat(T, Tables(Filled, 15)))
  <2> DEFINE e == {}
             f == OfUser \cup {<<"car_id", "cars", "SET NULL">>}
             k == {}
             c == <<"user_id", "car_id">>
             C == {"user_id", "car_id"}
  <2>1. Filled["trips"] = Model(e, f, k, C)
    BY MadeIs, <1>2
  <2>2. IsTuple(c) /\ RangeOf(c) = C /\ Distinct(c)
    BY Lists
  <2> HIDE DEF T, e, f, k, c, C
  <2>3. Filled["trips"] = Model(e, f, k, RangeOf(c))
    BY <2>1, <2>2
  <2>4. /\ "trips" = Order[15] /\ 14 \in 0 .. 25 /\ 15 = 14 + 1
       /\ Fits(Filled["trips"], 15, 11) /\ 11 \in 0 .. 14 /\ TypesTo(15) \subseteq T
    BY <1>1, FilledFits, OrderIs
  <2>5. Leads(<<CreateTable("trips", Table(e, f, k))>> \o Indexes("trips", c),
              Cat(T, Tables(Filled, 14)), Cat(T, Tables(Filled, 15)))
    BY <2>2, <2>3, <2>4, MakesWith
  <2> QED  BY <2>5 DEF e, f, k, c, d1, i1
<1>5. Leads(d2 \o i2, Cat(T, Tables(Filled, 15)), Cat(T, Tables(Filled, 16)))
  <2> DEFINE e == {}
             f == {<<"trip_id", "trips", "CASCADE">>}
             k == {}
             c == <<"trip_id">>
             C == {"trip_id"}
  <2>1. Filled["trip_points"] = Model(e, f, k, C)
    BY MadeIs, <1>2
  <2>2. IsTuple(c) /\ RangeOf(c) = C /\ Distinct(c)
    BY Lists
  <2> HIDE DEF T, e, f, k, c, C
  <2>3. Filled["trip_points"] = Model(e, f, k, RangeOf(c))
    BY <2>1, <2>2
  <2>4. /\ "trip_points" = Order[16] /\ 15 \in 0 .. 25 /\ 16 = 15 + 1
       /\ Fits(Filled["trip_points"], 16, 11) /\ 11 \in 0 .. 15 /\ TypesTo(16) \subseteq T
    BY <1>1, FilledFits, OrderIs
  <2>5. Leads(<<CreateTable("trip_points", Table(e, f, k))>> \o Indexes("trip_points",
              c),
              Cat(T, Tables(Filled, 15)), Cat(T, Tables(Filled, 16)))
    BY <2>2, <2>3, <2>4, MakesWith
  <2> QED  BY <2>5 DEF e, f, k, c, d2, i2
<1>6. Leads(d3 \o i3, Cat(T, Tables(Filled, 16)), Cat(T, Tables(Filled, 17)))
  <2> DEFINE e == {"sos_category"}
             f == {}
             k == {}
             c == <<"category", "city">>
             C == {"category", "city"}
  <2>1. Filled["sos_providers"] = Model(e, f, k, C)
    BY MadeIs, <1>2
  <2>2. IsTuple(c) /\ RangeOf(c) = C /\ Distinct(c)
    BY Lists
  <2> HIDE DEF T, e, f, k, c, C
  <2>3. Filled["sos_providers"] = Model(e, f, k, RangeOf(c))
    BY <2>1, <2>2
  <2>4. /\ "sos_providers" = Order[17] /\ 16 \in 0 .. 25 /\ 17 = 16 + 1
       /\ Fits(Filled["sos_providers"], 17, 11) /\ 11 \in 0 .. 16 /\ TypesTo(17) \subseteq T
    BY <1>1, FilledFits, OrderIs
  <2>5. Leads(<<CreateTable("sos_providers", Table(e, f, k))>> \o
              Indexes("sos_providers", c),
              Cat(T, Tables(Filled, 16)), Cat(T, Tables(Filled, 17)))
    BY <2>2, <2>3, <2>4, MakesWith
  <2> QED  BY <2>5 DEF e, f, k, c, d3, i3
<1>7. Leads(d4 \o i4, Cat(T, Tables(Filled, 17)), Cat(T, Tables(Filled, 18)))
  <2> DEFINE e == {"sos_request_status"}
             f == OfUser \cup {<<"provider_id", "sos_providers", "SET NULL">>}
             k == {}
             c == <<"user_id">>
             C == {"user_id"}
  <2>1. Filled["sos_requests"] = Model(e, f, k, C)
    BY MadeIs, <1>2
  <2>2. IsTuple(c) /\ RangeOf(c) = C /\ Distinct(c)
    BY Lists
  <2> HIDE DEF T, e, f, k, c, C
  <2>3. Filled["sos_requests"] = Model(e, f, k, RangeOf(c))
    BY <2>1, <2>2
  <2>4. /\ "sos_requests" = Order[18] /\ 17 \in 0 .. 25 /\ 18 = 17 + 1
       /\ Fits(Filled["sos_requests"], 18, 11) /\ 11 \in 0 .. 17 /\ TypesTo(18) \subseteq T
    BY <1>1, FilledFits, OrderIs
  <2>5. Leads(<<CreateTable("sos_requests", Table(e, f, k))>> \o
              Indexes("sos_requests", c),
              Cat(T, Tables(Filled, 17)), Cat(T, Tables(Filled, 18)))
    BY <2>2, <2>3, <2>4, MakesWith
  <2> QED  BY <2>5 DEF e, f, k, c, d4, i4
<1>8. Leads(CreateFuelStations, Cat(T, Tables(Filled, 18)), Cat(T, Tables(Filled, 19)))
  <2> DEFINE e == {}
             f == {}
             k == {}
  <2>1. Filled["fuel_stations"] = Model(e, f, k, {})
    BY MadeIs, <1>2
  <2> HIDE DEF T, e, f, k
  <2>2. /\ "fuel_stations" = Order[19] /\ 18 \in 0 .. 25 /\ 19 = 18 + 1
       /\ Fits(Filled["fuel_stations"], 19, 11) /\ 11 \in 0 .. 18 /\ TypesTo(19) \subseteq T
    BY <1>1, FilledFits, OrderIs
  <2>3. Leads(<<CreateTable("fuel_stations", Table(e, f, k))>>,
              Cat(T, Tables(Filled, 18)), Cat(T, Tables(Filled, 19)))
    BY <2>1, <2>2, MakesBare
  <2> QED  BY <2>3 DEF e, f, k, CreateFuelStations
<1>9. Leads(d6, Cat(T, Tables(Filled, 19)), Cat(T, Tables(Filled, 20)))
  <2> DEFINE e == {}
             f == {}
             k == {<<"code">>}
  <2>1. Filled["insurance_tariffs"] = Model(e, f, k, {})
    BY MadeIs, <1>2
  <2> HIDE DEF T, e, f, k
  <2>2. /\ "insurance_tariffs" = Order[20] /\ 19 \in 0 .. 25 /\ 20 = 19 + 1
       /\ Fits(Filled["insurance_tariffs"], 20, 11) /\ 11 \in 0 .. 19 /\ TypesTo(20) \subseteq T
    BY <1>1, FilledFits, OrderIs
  <2>3. Leads(<<CreateTable("insurance_tariffs", Table(e, f, k))>>,
              Cat(T, Tables(Filled, 19)), Cat(T, Tables(Filled, 20)))
    BY <2>1, <2>2, MakesBare
  <2> QED  BY <2>3 DEF e, f, k, d6
<1>10. Leads(d5 \o i5, Cat(T, Tables(Filled, 20)), Cat(T, Tables(Filled, 21)))
  <2> DEFINE e == {"payment_status"}
             f == OfUser \cup {<<"car_id", "cars", "RESTRICT">>, <<"tariff_id",
                  "insurance_tariffs", "RESTRICT">>}
             k == {}
             c == <<"user_id">>
             C == {"user_id"}
  <2>1. Filled["insurance_policies"] = Model(e, f, k, C)
    BY MadeIs, <1>2
  <2>2. IsTuple(c) /\ RangeOf(c) = C /\ Distinct(c)
    BY Lists
  <2> HIDE DEF T, e, f, k, c, C
  <2>3. Filled["insurance_policies"] = Model(e, f, k, RangeOf(c))
    BY <2>1, <2>2
  <2>4. /\ "insurance_policies" = Order[21] /\ 20 \in 0 .. 25 /\ 21 = 20 + 1
       /\ Fits(Filled["insurance_policies"], 21, 11) /\ 11 \in 0 .. 20 /\ TypesTo(21) \subseteq T
    BY <1>1, FilledFits, OrderIs
  <2>5. Leads(<<CreateTable("insurance_policies", Table(e, f, k))>> \o
              Indexes("insurance_policies", c),
              Cat(T, Tables(Filled, 20)), Cat(T, Tables(Filled, 21)))
    BY <2>2, <2>3, <2>4, MakesWith
  <2> QED  BY <2>5 DEF e, f, k, c, d5, i5
<1>11. /\ IsScript(d2) /\ IsScript(i2) /\ IsScript(d4) /\ IsScript(i4)
       /\ IsScript(d5) /\ IsScript(i5)
  <2>1. \A a : IsTuple(<<a>>)
    BY Lists
  <2> QED  BY <2>1, ScriptsAre
<1>12. /\ CreateTrips = d1 \o i1 \o d2 \o i2 /\ CreateSos = d3 \o i3 \o d4 \o i4
       /\ CreateInsurance = d6 \o d5 \o i5
  <2>1. CreateTrips = d1 \o i1 \o d2 \o i2 /\ CreateSos = d3 \o i3 \o d4 \o i4
    BY DEF CreateTrips, CreateSos
  <2>2. CreateInsurance = d6 \o d5 \o i5
    BY Pair DEF CreateInsurance
  <2> QED  BY <2>1, <2>2
<1> HIDE DEF T, d1, i1, d2, i2, d3, i3, d4, i4, d5, i5, d6
<1>13. Leads(CreateTrips, Cat(T, Tables(Filled, 14)), Cat(T, Tables(Filled, 16)))
  <2> DEFINE a == d1 \o i1
  <2>1. Leads(a, Cat(T, Tables(Filled, 14)), Cat(T, Tables(Filled, 15)))
    BY <1>4
  <2> HIDE DEF a
  <2>2. Leads(a \o d2 \o i2, Cat(T, Tables(Filled, 14)), Cat(T, Tables(Filled, 16)))
    BY <1>5, <1>11, <2>1, BlockLeads
  <2> QED  BY <1>12, <2>2 DEF a
<1>14. Leads(CreateSos, Cat(T, Tables(Filled, 16)), Cat(T, Tables(Filled, 18)))
  <2> DEFINE a == d3 \o i3
  <2>1. Leads(a, Cat(T, Tables(Filled, 16)), Cat(T, Tables(Filled, 17)))
    BY <1>6
  <2> HIDE DEF a
  <2>2. Leads(a \o d4 \o i4, Cat(T, Tables(Filled, 16)), Cat(T, Tables(Filled, 18)))
    BY <1>7, <1>11, <2>1, BlockLeads
  <2> QED  BY <1>12, <2>2 DEF a
<1>15. Leads(CreateInsurance, Cat(T, Tables(Filled, 19)), Cat(T, Tables(Filled, 21)))
  BY <1>9, <1>10, <1>11, <1>12, BlockLeads
<1> DEFINE c == Cat(TypesTo(14), Tables(Filled, 14))
<1>16. Leads(SecondaryEnums, c, Cat(T, Tables(Filled, 14)))
  BY <1>3
<1> HIDE DEF c
<1>17. Leads(SecondaryEnums \o CreateTrips,
          c, Cat(T, Tables(Filled, 16)))
  BY <1>16, <1>13, ThenLeads
<1>18. Leads(SecondaryEnums \o CreateTrips \o CreateSos,
          c, Cat(T, Tables(Filled, 18)))
  BY <1>17, <1>14, ThenLeads
<1>19. Leads(SecondaryEnums \o CreateTrips \o CreateSos \o CreateFuelStations,
          c, Cat(T, Tables(Filled, 19)))
  BY <1>18, <1>8, ThenLeads
<1>20. Leads(SecondaryEnums \o CreateTrips \o CreateSos \o CreateFuelStations \o
              CreateInsurance,
          c, Cat(T, Tables(Filled, 21)))
  BY <1>19, <1>15, ThenLeads
<1> QED  BY <1>20 DEF Upgrade, T, c

\* 0005.
LEMMA UpBilling ==
  Leads(Upgrade[5], Cat(TypesTo(21), Tables(Filled, 21)), Cat(TypesTo(23), Tables(Filled, 23)))
<1> DEFINE T == TypesTo(23)
           a == Enums(<<"payment_provider", "payment_kind">>)
           d1 == <<CreateTable("subscription_plans", Table({}, {}, {<<"code">>}))>>
           d2 == <<CreateTable("payments", Table({"payment_kind", "payment_provider",
                    "payment_status"}, OfUser \cup {<<"plan_id", "subscription_plans",
                    "SET NULL">>}, {<<"external_ref">>}))>>
           i2 == Indexes("payments", <<"user_id", "target_id">>)
<1>1. /\ TypesTo(22) \subseteq T
      /\ TypesTo(23) \subseteq T
  BY DEF TypesTo
<1>2. /\ Filled["subscription_plans"] = Made["subscription_plans"]
      /\ Filled["payments"] = Made["payments"]
  <2>1. /\ "subscription_plans" \in First(26)
        /\ "payments" \in First(26)
    BY InFirst, OrderIs
  <2> QED  BY <2>1, FilledIs
<1>3. Leads(a, Cat(TypesTo(21), Tables(Filled, 21)), Cat(T, Tables(Filled, 21)))
  <2> DEFINE es == <<"payment_provider", "payment_kind">>
  <2>1. IsTuple(es) /\ RangeOf(es) = BillingTypes
    BY Tuples DEF BillingTypes
  <2>2. T = TypesTo(21) \cup BillingTypes
    BY DEF TypesTo
  <2> HIDE DEF T, es
  <2>3. Leads(Enums(es), Cat(TypesTo(21), Tables(Filled, 21)), Cat(T, Tables(Filled, 21)))
    BY <2>1, <2>2, EnumsLead
  <2> QED  BY <2>3 DEF es, a
<1>4. Leads(d1, Cat(T, Tables(Filled, 21)), Cat(T, Tables(Filled, 22)))
  <2> DEFINE e == {}
             f == {}
             k == {<<"code">>}
  <2>1. Filled["subscription_plans"] = Model(e, f, k, {})
    BY MadeIs, <1>2
  <2> HIDE DEF T, e, f, k
  <2>2. /\ "subscription_plans" = Order[22] /\ 21 \in 0 .. 25 /\ 22 = 21 + 1
       /\ Fits(Filled["subscription_plans"], 22, 11) /\ 11 \in 0 .. 21 /\ TypesTo(22) \subseteq T
    BY <1>1, FilledFits, OrderIs
  <2>3. Leads(<<CreateTable("subscription_plans", Table(e, f, k))>>,
              Cat(T, Tables(Filled, 21)), Cat(T, Tables(Filled, 22)))
    BY <2>1, <2>2, MakesBare
  <2> QED  BY <2>3 DEF e, f, k, d1
<1>5. Leads(d2 \o i2, Cat(T, Tables(Filled, 22)), Cat(T, Tables(Filled, 23)))
  <2> DEFINE e == {"payment_kind", "payment_provider", "payment_status"}
             f == OfUser \cup {<<"plan_id", "subscription_plans", "SET NULL">>}
             k == {<<"external_ref">>}
             c == <<"user_id", "target_id">>
             C == {"user_id", "target_id"}
  <2>1. Filled["payments"] = Model(e, f, k, C)
    BY MadeIs, <1>2
  <2>2. IsTuple(c) /\ RangeOf(c) = C /\ Distinct(c)
    BY Lists
  <2> HIDE DEF T, e, f, k, c, C
  <2>3. Filled["payments"] = Model(e, f, k, RangeOf(c))
    BY <2>1, <2>2
  <2>4. /\ "payments" = Order[23] /\ 22 \in 0 .. 25 /\ 23 = 22 + 1
       /\ Fits(Filled["payments"], 23, 11) /\ 11 \in 0 .. 22 /\ TypesTo(23) \subseteq T
    BY <1>1, FilledFits, OrderIs
  <2>5. Leads(<<CreateTable("payments", Table(e, f, k))>> \o Indexes("payments", c),
              Cat(T, Tables(Filled, 22)), Cat(T, Tables(Filled, 23)))
    BY <2>2, <2>3, <2>4, MakesWith
  <2> QED  BY <2>5 DEF e, f, k, c, d2, i2
<1>6. IsScript(a) /\ IsScript(d1) /\ IsScript(d2) /\ IsScript(i2)
  <2>1. IsScript(d1) /\ IsScript(d2)
    BY ScriptsAre
  <2>2. IsTuple(<<"user_id", "target_id">>)
    BY Lists
  <2>3. IsScript(i2)
    BY <2>2, ScriptsAre
  <2>4. IsScript(a)
    BY <1>3 DEF Leads
  <2> QED  BY <2>1, <2>3, <2>4
<1>7. CreateBilling = a \o (d1 \o d2) \o i2
  BY Pair DEF CreateBilling
<1> DEFINE c == Cat(TypesTo(21), Tables(Filled, 21))
<1> HIDE DEF T, a, d1, d2, i2
<1>8. a \o (d1 \o d2) = a \o d1 \o d2
  BY <1>6, Regroup DEF Regroups
<1> DEFINE b == a \o d1
<1>9. Leads(b, c, Cat(T, Tables(Filled, 22)))
  BY <1>3, <1>4, ThenLeads
<1> HIDE DEF b, c
<1>10. Leads(b \o d2 \o i2, c, Cat(T, Tables(Filled, 23)))
  BY <1>5, <1>6, <1>9, BlockLeads
<1>11. Upgrade[5] = b \o d2 \o i2
  BY <1>7, <1>8 DEF Upgrade, b
<1> QED  BY <1>10, <1>11 DEF T, c

-----------------------------------------------------------------------------
(***************************************************************************)
(* The sixth revision.  It brings the tables S to what the models declare. *)
(***************************************************************************)
\* A body whose indexes are on single columns stays one.
LEMMA ModelParts ==
  ASSUME NEW b, IsTable(b), NEW cols, b.indexes = Cols(cols)
  PROVE  b = Model(b.enums, b.fks, b.keys, cols)
<1> DEFINE a == Model(b.enums, b.fks, b.keys, cols)
<1>1. /\ IsTable(a) /\ a.enums = b.enums /\ a.fks = b.fks /\ a.indexes = Cols(cols)
      /\ a.keys = b.keys
  BY ModelIs
<1> HIDE DEF a
<1>2. a = b
  BY <1>1, SameTable
<1> QED  BY <1>2 DEF a

\* The indexes of columns, with one column more or less.
LEMMA ColumnsAre ==
  ASSUME NEW cols
  PROVE  /\ \A c : {ix \in Cols(cols) : ix[1] \notin {c}} = Cols(cols \ {c})
         /\ \A c : Cols(cols) \cup {<<c, <<c>>>>} = Cols(cols \cup {c})
         /\ \A c \in cols : \E ix \in Cols(cols) : ix[1] = c
         /\ \A ix \in Cols(cols) : ix[1] \in cols
         /\ \A x : x[1] \notin cols =>
              {ix \in Cols(cols) \cup {x} : ix[1] \notin {x[1]}} = Cols(cols)
<1>1. \A c : {ix \in Cols(cols) : ix[1] \notin {c}} = Cols(cols \ {c})
  BY DEF Cols
<1>2. \A c : Cols(cols) \cup {<<c, <<c>>>>} = Cols(cols \cup {c})
  BY DEF Cols
<1>3. \A c \in cols : <<c, <<c>>>> \in Cols(cols) /\ <<c, <<c>>>>[1] = c
  BY DEF Cols
<1>4. \A ix \in Cols(cols) : ix[1] \in cols
  BY DEF Cols
<1>5. ASSUME NEW x, x[1] \notin cols
      PROVE  {ix \in Cols(cols) \cup {x} : ix[1] \notin {x[1]}} = Cols(cols)
  BY <1>4, <1>5
<1> QED  BY <1>1, <1>2, <1>3, <1>4, <1>5

\* What the operations of the sixth do to such a body: an index on a column goes ...
LEMMA DropsColumn ==
  ASSUME NEW B, DOMAIN B = First(26), NEW k \in 0 .. 26, NEW t, t \in First(k), NEW E,
         NEW enums, NEW fks, NEW keys, NEW cols,
         B[t] = Model(enums, fks, keys, cols), NEW c \in cols
  PROVE  Alters(E, B, k, DropIndex(t, c), t, Model(enums, fks, keys, cols \ {c}))
<1> DEFINE b == B[t]
           a == Unindexing(b, {c})
<1>1. /\ IsTable(b) /\ b.enums = enums /\ b.fks = fks /\ b.keys = keys
      /\ b.indexes = Cols(cols)
  BY ModelIs
<1> HIDE DEF b
<1>2. /\ IsTable(a) /\ a.enums = enums /\ a.keys = keys /\ a.fks = fks
      /\ a.indexes = {ix \in Cols(cols) : ix[1] \notin {c}}
  BY <1>1, ChangesAre
<1>3. \E ix \in b.indexes : ix[1] = c
  BY <1>1, ColumnsAre
<1>4. Alters(E, B, k, DropIndex(t, c), t, a)
  BY <1>3, DropsIndex DEF b
<1> HIDE DEF a
<1> DEFINE new == cols \ {c}
           F == fks
<1>5. a.indexes = Cols(new)
  BY <1>2, ColumnsAre
<1>6. a.enums = enums /\ a.fks = F /\ a.keys = keys
  BY <1>2
<1> HIDE DEF new, F
<1>7. a = Model(a.enums, a.fks, a.keys, new)
  BY <1>2, <1>5, ModelParts
<1>8. a = Model(enums, F, keys, new)
  BY <1>6, <1>7
<1> QED  BY <1>4, <1>8 DEF new, F

\* ... an index that is not on a column alone goes ...
LEMMA DropsExtra ==
  ASSUME NEW B, DOMAIN B = First(26), NEW k \in 0 .. 26, NEW t, t \in First(k), NEW E,
         NEW enums, NEW fks, NEW keys, NEW cols,
         NEW x, x[1] \notin cols, B[t] = Indexing(Model(enums, fks, keys, cols), {x}),
         NEW c, c = x[1]
  PROVE  Alters(E, B, k, DropIndex(t, c), t, Model(enums, fks, keys, cols))
<1> DEFINE b == B[t]
           a == Unindexing(b, {c})
<1>1. /\ IsTable(b) /\ b.enums = enums /\ b.fks = fks /\ b.keys = keys
      /\ b.indexes = Cols(cols) \cup {x}
  <2> DEFINE d == Model(enums, fks, keys, cols)
  <2>1. /\ IsTable(d) /\ d.enums = enums /\ d.fks = fks /\ d.keys = keys
        /\ d.indexes = Cols(cols) /\ b = Indexing(d, {x})
    BY ModelIs
  <2> HIDE DEF d, b
  <2> QED  BY <2>1, ChangesAre
<1> HIDE DEF b
<1>2. /\ IsTable(a) /\ a.enums = enums /\ a.keys = keys /\ a.fks = fks
      /\ a.indexes = {ix \in Cols(cols) \cup {x} : ix[1] \notin {c}}
  BY <1>1, ChangesAre
<1>3. \E ix \in b.indexes : ix[1] = c
  BY <1>1, ColumnsAre
<1>4. Alters(E, B, k, DropIndex(t, c), t, a)
  BY <1>3, DropsIndex DEF b
<1> HIDE DEF a
<1> DEFINE new == cols
           F == fks
<1>5. a.indexes = Cols(new)
  BY <1>2, ColumnsAre
<1>6. a.enums = enums /\ a.fks = F /\ a.keys = keys
  BY <1>2
<1> HIDE DEF new, F
<1>7. a = Model(a.enums, a.fks, a.keys, new)
  BY <1>2, <1>5, ModelParts
<1>8. a = Model(enums, F, keys, new)
  BY <1>6, <1>7
<1> QED  BY <1>4, <1>8 DEF new, F

\* ... an index on a column comes ...
LEMMA AddsColumn ==
  ASSUME NEW B, DOMAIN B = First(26), NEW k \in 0 .. 26, NEW t, t \in First(k), NEW E,
         NEW enums, NEW fks, NEW keys, NEW cols,
         B[t] = Model(enums, fks, keys, cols), NEW c, c \notin cols
  PROVE  Alters(E, B, k, AddIndex(t, <<c, <<c>>>>), t, Model(enums, fks, keys, cols \cup {c}))
<1> DEFINE b == B[t]
           a == Indexing(b, {<<c, <<c>>>>})
<1>1. /\ IsTable(b) /\ b.enums = enums /\ b.fks = fks /\ b.keys = keys
      /\ b.indexes = Cols(cols)
  BY ModelIs
<1> HIDE DEF b
<1>2. /\ IsTable(a) /\ a.enums = enums /\ a.keys = keys /\ a.fks = fks
      /\ a.indexes = Cols(cols) \cup {<<c, <<c>>>>}
  BY <1>1, ChangesAre
<1>3. \A ix \in b.indexes : ix[1] # <<c, <<c>>>>[1]
  BY <1>1, ColumnsAre
<1>4. Alters(E, B, k, AddIndex(t, <<c, <<c>>>>), t, a)
  BY <1>3, AddsIndex DEF b
<1> HIDE DEF a
<1> DEFINE new == cols \cup {c}
           F == fks
<1>5. a.indexes = Cols(new)
  BY <1>2, ColumnsAre
<1>6. a.enums = enums /\ a.fks = F /\ a.keys = keys
  BY <1>2
<1> HIDE DEF new, F
<1>7. a = Model(a.enums, a.fks, a.keys, new)
  BY <1>2, <1>5, ModelParts
<1>8. a = Model(enums, F, keys, new)
  BY <1>6, <1>7
<1> QED  BY <1>4, <1>8 DEF new, F

\* ... a reference comes ...
LEMMA Links ==
  ASSUME NEW B, DOMAIN B = First(26), NEW k \in 0 .. 26, NEW t, t \in First(k), NEW E,
         NEW enums, NEW fks, NEW keys, NEW cols,
         B[t] = Model(enums, fks, keys, cols), NEW fk, fk[2] \in First(k)
  PROVE  Alters(E, B, k, AddFk(t, fk), t, Model(enums, fks \cup {fk}, keys, cols))
<1> DEFINE b == B[t]
           a == Linking(b, fk)
<1>1. /\ IsTable(b) /\ b.enums = enums /\ b.fks = fks /\ b.keys = keys
      /\ b.indexes = Cols(cols)
  BY ModelIs
<1> HIDE DEF b
<1>2. /\ IsTable(a) /\ a.enums = enums /\ a.keys = keys /\ a.fks = fks \cup {fk}
      /\ a.indexes = Cols(cols)
  BY <1>1, ChangesAre
<1>3. fk[2] \in First(k)
  BY <1>1, ColumnsAre
<1>4. Alters(E, B, k, AddFk(t, fk), t, a)
  BY <1>3, AddsFk DEF b
<1> HIDE DEF a
<1> DEFINE new == cols
           F == fks \cup {fk}
<1>5. a.indexes = Cols(new)
  BY <1>2, ColumnsAre
<1>6. a.enums = enums /\ a.fks = F /\ a.keys = keys
  BY <1>2
<1> HIDE DEF new, F
<1>7. a = Model(a.enums, a.fks, a.keys, new)
  BY <1>2, <1>5, ModelParts
<1>8. a = Model(enums, F, keys, new)
  BY <1>6, <1>7
<1> QED  BY <1>4, <1>8 DEF new, F

\* ... or goes.
LEMMA Unlinks ==
  ASSUME NEW B, DOMAIN B = First(26), NEW k \in 0 .. 26, NEW t, t \in First(k), NEW E,
         NEW enums, NEW fks, NEW keys, NEW cols,
         B[t] = Model(enums, fks, keys, cols), NEW col, col # Unnamed,
         \E fk \in fks : fk[1] = col
  PROVE  Alters(E, B, k, DropFk(t, col), t, Model(enums, {fk \in fks : fk[1] # col}, keys, cols))
<1> DEFINE b == B[t]
           a == Unlinking(b, col)
<1>1. /\ IsTable(b) /\ b.enums = enums /\ b.fks = fks /\ b.keys = keys
      /\ b.indexes = Cols(cols)
  BY ModelIs
<1> HIDE DEF b
<1>2. /\ IsTable(a) /\ a.enums = enums /\ a.keys = keys /\ a.fks = {fk \in fks : fk[1] # col}
      /\ a.indexes = Cols(cols)
  BY <1>1, ChangesAre
<1>3. \E fk \in b.fks : fk[1] = col
  BY <1>1, ColumnsAre
<1>4. Alters(E, B, k, DropFk(t, col), t, a)
  BY <1>3, DropsFk DEF b
<1> HIDE DEF a
<1> DEFINE new == cols
           F == {fk \in fks : fk[1] # col}
<1>5. a.indexes = Cols(new)
  BY <1>2, ColumnsAre
<1>6. a.enums = enums /\ a.fks = F /\ a.keys = keys
  BY <1>2
<1> HIDE DEF new, F
<1>7. a = Model(a.enums, a.fks, a.keys, new)
  BY <1>2, <1>5, ModelParts
<1>8. a = Model(enums, F, keys, new)
  BY <1>6, <1>7
<1> QED  BY <1>4, <1>8 DEF new, F

\* A declared table with one reference more.
LEMMA LinkedIs ==
  ASSUME NEW enums, NEW fks, NEW keys, NEW cols, NEW fk
  PROVE  Linking(Model(enums, fks, keys, cols), fk) = Model(enums, fks \cup {fk}, keys, cols)
<1> DEFINE b == Model(enums, fks, keys, cols)
           F == fks \cup {fk}
           d == Model(enums, F, keys, cols)
           a == Linking(b, fk)
<1>1. /\ IsTable(b) /\ b.enums = enums /\ b.fks = fks /\ b.keys = keys
      /\ b.indexes = Cols(cols)
  BY ModelIs
<1> HIDE DEF b
<1>2. /\ IsTable(a) /\ a.enums = enums /\ a.keys = keys /\ a.fks = F
      /\ a.indexes = Cols(cols)
  BY <1>1, ChangesAre
<1> HIDE DEF F
<1>3. /\ IsTable(d) /\ d.enums = enums /\ d.keys = keys /\ d.fks = F
      /\ d.indexes = Cols(cols)
  BY ModelIs
<1> HIDE DEF a, d
<1>4. a = d
  BY <1>2, <1>3, SameTable
<1> QED  BY <1>4 DEF a, b, d, F

\* The tables with references of 0003, as a declaration would say them.
LEMMA FilledModel ==
  /\ Filled["users"] = Model({"user_role"}, {} \cup {OfCenter("SET NULL")}, {<<"phone">>},
                             {"email", "role", "center_id"})
  /\ Filled["reviews"] =
       Model({}, (OfUser \cup {OfCenter("CASCADE")})
                   \cup {<<"service_id", "services", "SET NULL">>}, {},
             {"user_id", "center_id"})
<1>1. Filled["users"] = Model({"user_role"}, {} \cup {OfCenter("SET NULL")}, {<<"phone">>},
                              {"email", "role", "center_id"})
  <2> DEFINE t == "users"
             e == {"user_role"}
             k == {<<"phone">>}
             c == {"email", "role", "center_id"}
             p == OfCenter("SET NULL")
  <2>1. Made[t] = Model(e, {}, k, c) /\ Filled[t] = Linking(Made[t], p)
    BY MadeIs, FilledIs
  <2> HIDE DEF t, e, k, c, p
  <2>2. Linking(Model(e, {}, k, c), p) = Model(e, {} \cup {p}, k, c)
    BY LinkedIs
  <2>3. Filled[t] = Model(e, {} \cup {p}, k, c)
    BY <2>1, <2>2
  <2> QED  BY <2>3 DEF t, e, k, c, p
<1>2. Filled["reviews"] =
        Model({}, (OfUser \cup {OfCenter("CASCADE")})
                    \cup {<<"service_id", "services", "SET NULL">>}, {},
              {"user_id", "center_id"})
  <2> DEFINE t == "reviews"
             c == {"user_id", "center_id"}
             p == OfCenter("CASCADE")
             q == <<"service_id", "services", "SET NULL">>
             h == OfUser \cup {p}
  <2>1. Made[t] = Model({}, OfUser, {}, c) /\ Filled[t] = Linking(Linking(Made[t], p), q)
    BY MadeIs, FilledIs
  <2> HIDE DEF t, c, p, q
  <2>2. Linking(Model({}, OfUser, {}, c), p) = Model({}, h, {}, c)
    BY LinkedIs
  <2> HIDE DEF h
  <2>3. Linking(Model({}, h, {}, c), q) = Model({}, h \cup {q}, {}, c)
    BY LinkedIs
  <2>4. Filled[t] = Model({}, h \cup {q}, {}, c)
    BY <2>1, <2>2, <2>3
  <2> QED  BY <2>4 DEF t, c, h, p, q
<1> QED  BY <1>1, <1>2

\* The tables once S is as the models declare it.
Meta(S) == [t \in First(26) |-> IF t \in S THEN Metadata[t] ELSE Filled[t]]

MetaCat(E, S) == Cat(E, Tables(Meta(S), 24))

\* One more table is as declared.
LEMMA MetaIs ==
  ASSUME NEW S, NEW t, t \in First(26), t \notin S, NEW U, U = S \cup {t}
  PROVE  /\ DOMAIN Meta(S) = First(26) /\ Meta(S)[t] = Filled[t]
         /\ With(Meta(S), t, Metadata[t]) = Meta(U)
  BY DEF Meta, With

\* Table t is brought to what is declared: by one operation ...
LEMMA TurnsOne ==
  ASSUME NEW S, NEW t, t \in First(26), t \notin S, NEW U, U = S \cup {t}, NEW E, NEW a,
         Alters(E, Meta(S), 24, a, t, Metadata[t])
  PROVE  Step(MetaCat(E, S), a) = MetaCat(E, U)
<1>1. With(Meta(S), t, Metadata[t]) = Meta(U)
  BY MetaIs
<1> QED  BY <1>1 DEF Alters, MetaCat

\* ... after two ...
LEMMA TurnsTwo ==
  ASSUME NEW S, NEW t, t \in First(26), t \notin S, NEW U, U = S \cup {t}, NEW E,
         NEW a, NEW d, NEW x, Alters(E, Meta(S), 24, a, t, x),
         Alters(E, With(Meta(S), t, x), 24, d, t, Metadata[t])
  PROVE  Step(Step(MetaCat(E, S), a), d) = MetaCat(E, U)
<1>1. With(Meta(S), t, Metadata[t]) = Meta(U)
  BY MetaIs
<1>2. With(With(Meta(S), t, x), t, Metadata[t]) = Meta(U)
  BY <1>1, WithTwice
<1> QED  BY <1>2 DEF Alters, MetaCat

\* ... after three.
LEMMA TurnsThree ==
  ASSUME NEW S, NEW t, t \in First(26), t \notin S, NEW U, U = S \cup {t}, NEW E,
         NEW a, NEW d, NEW h, NEW x, NEW y, Alters(E, Meta(S), 24, a, t, x),
         Alters(E, With(Meta(S), t, x), 24, d, t, y),
         Alters(E, With(With(Meta(S), t, x), t, y), 24, h, t, Metadata[t])
  PROVE  Step(Step(Step(MetaCat(E, S), a), d), h) = MetaCat(E, U)
<1>1. With(Meta(S), t, Metadata[t]) = Meta(U)
  BY MetaIs
<1>2. With(With(With(Meta(S), t, x), t, y), t, Metadata[t]) = Meta(U)
  BY <1>1, WithTwice
<1> QED  BY <1>2 DEF Alters, MetaCat

\* insurance_policies: a reference to companies more.
LEMMA TurnsInsurancePolicies ==
  ASSUME NEW S, "insurance_policies" \notin S, NEW U, U = S \cup {"insurance_policies"}, NEW E
  PROVE  Step(MetaCat(E, S), AddFk("insurance_policies", <<"company_id",
         "insurance_companies", "RESTRICT">>))
         = MetaCat(E, U)
<1> DEFINE t == "insurance_policies"
           e == {"payment_status"}
           f0 == OfUser \cup {<<"car_id", "cars", "RESTRICT">>, <<"tariff_id",
                  "insurance_tariffs", "RESTRICT">>}
           k == {}
           c0 == {"user_id"}
           a1 == <<"company_id", "insurance_companies", "RESTRICT">>
           f1 == f0 \cup {a1}
           o1 == AddFk(t, a1)
           B0 == Meta(S)
<1>1. t \in First(24) /\ t \in First(26) /\ 24 \in 0 .. 26
  BY InFirst, OrderIs
<1>2. Filled[t] = Model(e, f0, k, c0)
  <2>1. Filled[t] = Made[t]
    BY <1>1, FilledIs
  <2> QED  BY <2>1, MadeIs
<1>3. Metadata[t] = Model(e, f1, k, c0)
  <2> DEFINE F == OfUser \cup {<<"car_id", "cars", "RESTRICT">>, <<"tariff_id",
                  "insurance_tariffs", "RESTRICT">>, <<"company_id",
                  "insurance_companies", "RESTRICT">>}
             C == {"user_id"}
  <2>1. Metadata[t] = Model(e, F, k, C)
    BY DeclaredIs DEF DeclaredByInsurance
  <2>2. F = f1
    BY DEF OfUser, OfCenter
  <2>3. C = c0
    OBVIOUS
  <2> HIDE DEF F, C, e, k, f1, c0, t
  <2> QED  BY <2>1, <2>2, <2>3
<1>4. a1[2] \in First(24)
  BY Known
<1>5. DOMAIN B0 = First(26) /\ B0[t] = Filled[t] /\ t \notin S /\ U = S \cup {t}
  BY <1>1, MetaIs
<1> HIDE DEF t, e, f0, k, c0, a1, B0
<1>6. B0[t] = Model(e, f0, k, c0)
  BY <1>2, <1>5
<1>7. Alters(E, B0, 24, o1, t, Model(e, f1, k, c0))
  BY <1>1, <1>5, <1>6, <1>4, Links
<1> HIDE DEF f1, o1
<1>8. Alters(E, B0, 24, o1, t, Metadata[t])
  BY <1>3, <1>7
<1>9. Step(MetaCat(E, S), o1) = MetaCat(E, U)
  BY <1>1, <1>5, <1>8, TurnsOne DEF B0
<1> QED  BY <1>9 DEF t, o1, a1

\* mechanics: an index less.
LEMMA TurnsMechanics ==
  ASSUME NEW S, "mechanics" \notin S, NEW U, U = S \cup {"mechanics"}, NEW E
  PROVE  Step(MetaCat(E, S), DropIndex("mechanics", "center_active"))
         = MetaCat(E, U)
<1> DEFINE t == "mechanics"
           e == {}
           f0 == {OfCenter("CASCADE")}
           k == {<<"login">>}
           c0 == {"center_id"}
           x == <<"center_active", <<"center_id", "deleted_at IS NULL">>>>
           a1 == "center_active"
           o1 == DropIndex(t, a1)
           B0 == Meta(S)
<1>1. t \in First(24) /\ t \in First(26) /\ 24 \in 0 .. 26
  BY InFirst, OrderIs
<1>2. Filled[t] = Indexing(Model(e, f0, k, c0), {x})
  <2>1. Filled[t] = Made[t]
    BY <1>1, FilledIs
  <2> QED  BY <2>1, MadeIs
<1>3. Metadata[t] = Model(e, f0, k, c0)
  <2> DEFINE F == {OfCenter("CASCADE")}
             C == {"center_id"}
  <2>1. Metadata[t] = Model(e, F, k, C)
    BY DeclaredIs DEF DeclaredByMechanics
  <2>2. F = f0
    OBVIOUS
  <2>3. C = c0
    OBVIOUS
  <2> HIDE DEF F, C, e, k, f0, c0, t
  <2> QED  BY <2>1, <2>2, <2>3
<1>4. x[1] \notin c0 /\ a1 = x[1]
  OBVIOUS
<1>5. DOMAIN B0 = First(26) /\ B0[t] = Filled[t] /\ t \notin S /\ U = S \cup {t}
  BY <1>1, MetaIs
<1> HIDE DEF t, e, f0, k, c0, x, a1, B0
<1>6. B0[t] = Indexing(Model(e, f0, k, c0), {x})
  BY <1>2, <1>5
<1>7. Alters(E, B0, 24, o1, t, Model(e, f0, k, c0))
  BY <1>1, <1>5, <1>6, <1>4, DropsExtra
<1> HIDE DEF o1
<1>8. Alters(E, B0, 24, o1, t, Metadata[t])
  BY <1>3, <1>7
<1>9. Step(MetaCat(E, S), o1) = MetaCat(E, U)
  BY <1>1, <1>5, <1>8, TurnsOne DEF B0
<1> QED  BY <1>9 DEF t, o1, a1

\* mileage_readings: an index less.
LEMMA TurnsMileageReadings ==
  ASSUME NEW S, "mileage_readings" \notin S, NEW U, U = S \cup {"mileage_readings"}, NEW E
  PROVE  Step(MetaCat(E, S), DropIndex("mileage_readings", "recorded_at"))
         = MetaCat(E, U)
<1> DEFINE t == "mileage_readings"
           e == {"mileage_source"}
           f0 == {<<"car_id", "cars", "CASCADE">>}
           k == {}
           c0 == {"car_id"}
           x == <<"recorded_at", <<"car_id", "recorded_at">>>>
           a1 == "recorded_at"
           o1 == DropIndex(t, a1)
           B0 == Meta(S)
<1>1. t \in First(24) /\ t \in First(26) /\ 24 \in 0 .. 26
  BY InFirst, OrderIs
<1>2. Filled[t] = Indexing(Model(e, f0, k, c0), {x})
  <2>1. Filled[t] = Made[t]
    BY <1>1, FilledIs
  <2> QED  BY <2>1, MadeIs
<1>3. Metadata[t] = Model(e, f0, k, c0)
  <2> DEFINE F == {<<"car_id", "cars", "CASCADE">>}
             C == {"car_id"}
  <2>1. Metadata[t] = Model(e, F, k, C)
    BY DeclaredIs DEF DeclaredByCars
  <2>2. F = f0
    OBVIOUS
  <2>3. C = c0
    OBVIOUS
  <2> HIDE DEF F, C, e, k, f0, c0, t
  <2> QED  BY <2>1, <2>2, <2>3
<1>4. x[1] \notin c0 /\ a1 = x[1]
  OBVIOUS
<1>5. DOMAIN B0 = First(26) /\ B0[t] = Filled[t] /\ t \notin S /\ U = S \cup {t}
  BY <1>1, MetaIs
<1> HIDE DEF t, e, f0, k, c0, x, a1, B0
<1>6. B0[t] = Indexing(Model(e, f0, k, c0), {x})
  BY <1>2, <1>5
<1>7. Alters(E, B0, 24, o1, t, Model(e, f0, k, c0))
  BY <1>1, <1>5, <1>6, <1>4, DropsExtra
<1> HIDE DEF o1
<1>8. Alters(E, B0, 24, o1, t, Metadata[t])
  BY <1>3, <1>7
<1>9. Step(MetaCat(E, S), o1) = MetaCat(E, U)
  BY <1>1, <1>5, <1>8, TurnsOne DEF B0
<1> QED  BY <1>9 DEF t, o1, a1

\* notifications: an index replaced by one on its column alone.
LEMMA TurnsNotifications ==
  ASSUME NEW S, "notifications" \notin S, NEW U, U = S \cup {"notifications"}, NEW E
  PROVE  Step(Step(MetaCat(E, S), DropIndex("notifications", "read_at")),
         AddIndex("notifications", <<"read_at", <<"read_at">>>>))
         = MetaCat(E, U)
<1> DEFINE t == "notifications"
           e == {}
           f0 == OfUser
           k == {}
           c0 == {"user_id", "kind"}
           x == <<"read_at", <<"user_id", "read_at">>>>
           a1 == "read_at"
           a2 == "read_at"
           c1 == c0 \cup {a2}
           o1 == DropIndex(t, a1)
           o2 == AddIndex(t, <<a2, <<a2>>>>)
           B0 == Meta(S)
           m1 == Model(e, f0, k, c0)
           B1 == With(B0, t, m1)
<1>1. t \in First(24) /\ t \in First(26) /\ 24 \in 0 .. 26
  BY InFirst, OrderIs
<1>2. Filled[t] = Indexing(Model(e, f0, k, c0), {x})
  <2>1. Filled[t] = Made[t]
    BY <1>1, FilledIs
  <2> QED  BY <2>1, MadeIs
<1>3. Metadata[t] = Model(e, f0, k, c1)
  <2> DEFINE F == OfUser
             C == {"user_id", "kind", "read_at"}
  <2>1. Metadata[t] = Model(e, F, k, C)
    BY DeclaredIs DEF DeclaredByNotifications
  <2>2. F = f0
    OBVIOUS
  <2>3. C = c1
    OBVIOUS
  <2> HIDE DEF F, C, e, k, f0, c1, t
  <2> QED  BY <2>1, <2>2, <2>3
<1>4. x[1] \notin c0 /\ a1 = x[1]
  OBVIOUS
<1>5. a2 \notin c0
  OBVIOUS
<1>6. DOMAIN B0 = First(26) /\ B0[t] = Filled[t] /\ t \notin S /\ U = S \cup {t}
  BY <1>1, MetaIs
<1> HIDE DEF t, e, f0, k, c0, x, a1, a2, B0
<1>7. B0[t] = Indexing(Model(e, f0, k, c0), {x})
  BY <1>2, <1>6
<1>8. Alters(E, B0, 24, o1, t, Model(e, f0, k, c0))
  BY <1>1, <1>6, <1>7, <1>4, DropsExtra
<1> HIDE DEF m1
<1>9. DOMAIN B1 = First(26) /\ B1[t] = m1
  BY <1>1, <1>6, WithIs
<1> HIDE DEF B1
<1>10. B1[t] = Model(e, f0, k, c0)
  BY <1>9 DEF m1
<1>11. Alters(E, B1, 24, o2, t, Model(e, f0, k, c1))
  BY <1>1, <1>9, <1>10, <1>5, AddsColumn
<1> HIDE DEF c1, o1, o2
<1>12. Alters(E, B1, 24, o2, t, Metadata[t])
  BY <1>3, <1>11
<1>13. Alters(E, B0, 24, o1, t, m1)
  BY <1>8 DEF m1
<1>14. Step(Step(MetaCat(E, S), o1), o2) = MetaCat(E, U)
  BY <1>1, <1>6, <1>13, <1>12, TurnsTwo DEF B0, B1
<1> QED  BY <1>14 DEF t, o1, o2, a1, a2

\* refresh_tokens: an index less.
LEMMA TurnsRefreshTokens ==
  ASSUME NEW S, "refresh_tokens" \notin S, NEW U, U = S \cup {"refresh_tokens"}, NEW E
  PROVE  Step(MetaCat(E, S), DropIndex("refresh_tokens", "expires_at"))
         = MetaCat(E, U)
<1> DEFINE t == "refresh_tokens"
           e == {}
           f0 == OfUser
           k == {<<"token_hash">>}
           c0 == {"user_id", "expires_at"}
           a1 == "expires_at"
           c1 == c0 \ {a1}
           o1 == DropIndex(t, a1)
           B0 == Meta(S)
<1>1. t \in First(24) /\ t \in First(26) /\ 24 \in 0 .. 26
  BY InFirst, OrderIs
<1>2. Filled[t] = Model(e, f0, k, c0)
  <2>1. Filled[t] = Made[t]
    BY <1>1, FilledIs
  <2> QED  BY <2>1, MadeIs
<1>3. Metadata[t] = Model(e, f0, k, c1)
  <2> DEFINE F == OfUser
             C == {"user_id"}
  <2>1. Metadata[t] = Model(e, F, k, C)
    BY DeclaredIs DEF DeclaredByAuth
  <2>2. F = f0
    OBVIOUS
  <2>3. C = c1
    OBVIOUS
  <2> HIDE DEF F, C, e, k, f0, c1, t
  <2> QED  BY <2>1, <2>2, <2>3
<1>4. a1 \in c0
  OBVIOUS
<1>5. DOMAIN B0 = First(26) /\ B0[t] = Filled[t] /\ t \notin S /\ U = S \cup {t}
  BY <1>1, MetaIs
<1> HIDE DEF t, e, f0, k, c0, a1, B0
<1>6. B0[t] = Model(e, f0, k, c0)
  BY <1>2, <1>5
<1>7. Alters(E, B0, 24, o1, t, Model(e, f0, k, c1))
  BY <1>1, <1>5, <1>6, <1>4, DropsColumn
<1> HIDE DEF c1, o1
<1>8. Alters(E, B0, 24, o1, t, Metadata[t])
  BY <1>3, <1>7
<1>9. Step(MetaCat(E, S), o1) = MetaCat(E, U)
  BY <1>1, <1>5, <1>8, TurnsOne DEF B0
<1> QED  BY <1>9 DEF t, o1, a1

\* reviews: the references of 0003 go.
LEMMA TurnsReviews ==
  ASSUME NEW S, "reviews" \notin S, NEW U, U = S \cup {"reviews"}, NEW E
  PROVE  Step(Step(MetaCat(E, S), DropFk("reviews", "center_id")), DropFk("reviews",
         "service_id"))
         = MetaCat(E, U)
<1> DEFINE t == "reviews"
           e == {}
           f0 == (OfUser \cup {OfCenter("CASCADE")}) \cup {<<"service_id",
                  "services", "SET NULL">>}
           k == {}
           c0 == {"user_id", "center_id"}
           a1 == "center_id"
           f1 == {fk \in f0 : fk[1] # a1}
           a2 == "service_id"
           f2 == {fk \in f1 : fk[1] # a2}
           o1 == DropFk(t, a1)
           o2 == DropFk(t, a2)
           B0 == Meta(S)
           m1 == Model(e, f1, k, c0)
           B1 == With(B0, t, m1)
<1>1. t \in First(24) /\ t \in First(26) /\ 24 \in 0 .. 26
  BY InFirst, OrderIs
<1>2. Filled[t] = Model(e, f0, k, c0)
  BY FilledModel
<1>3. Metadata[t] = Model(e, f2, k, c0)
  <2> DEFINE F == OfUser
             C == {"user_id", "center_id"}
  <2>1. Metadata[t] = Model(e, F, k, C)
    BY DeclaredIs DEF DeclaredByReviews
  <2>2. F = f2
    <3> DEFINE u == <<"user_id", "users", "CASCADE">>
               p == OfCenter("CASCADE")
               q == <<"service_id", "services", "SET NULL">>
    <3>1. OfUser = {u} /\ u[1] = "user_id" /\ p[1] = "center_id" /\ q[1] = "service_id"
      BY DEF OfCenter, OfUser
    <3> HIDE DEF u, p, q
    <3>2. {fk \in {fk \in ({u} \cup {p}) \cup {q} : fk[1] # "center_id"} :
             fk[1] # "service_id"} = {u}
      BY <3>1
    <3> QED  BY <3>1, <3>2 DEF p, q
  <2>3. C = c0
    OBVIOUS
  <2> HIDE DEF F, C, e, k, f2, c0, t
  <2> QED  BY <2>1, <2>2, <2>3
<1>4. a1 # Unnamed /\ \E fk \in f0 : fk[1] = a1
  <2> DEFINE p == OfCenter("CASCADE")
             q == <<"service_id", "services", "SET NULL">>
  <2>1. p[1] = "center_id" /\ q[1] = "service_id"
    BY DEF OfCenter
  <2> HIDE DEF p, q
  <2>2. /\ p \in (OfUser \cup {p}) \cup {q}
        /\ q \in {fk \in (OfUser \cup {p}) \cup {q} : fk[1] # "center_id"}
    BY <2>1
  <2> QED  BY <2>1, <2>2 DEF Unnamed, p, q
<1>5. a2 # Unnamed /\ \E fk \in f1 : fk[1] = a2
  <2> DEFINE p == OfCenter("CASCADE")
             q == <<"service_id", "services", "SET NULL">>
  <2>1. p[1] = "center_id" /\ q[1] = "service_id"
    BY DEF OfCenter
  <2> HIDE DEF p, q
  <2>2. /\ p \in (OfUser \cup {p}) \cup {q}
        /\ q \in {fk \in (OfUser \cup {p}) \cup {q} : fk[1] # "center_id"}
    BY <2>1
  <2> QED  BY <2>1, <2>2 DEF Unnamed, p, q
<1>6. DOMAIN B0 = First(26) /\ B0[t] = Filled[t] /\ t \notin S /\ U = S \cup {t}
  BY <1>1, MetaIs
<1> HIDE DEF t, e, f0, k, c0, a1, a2, B0
<1>7. B0[t] = Model(e, f0, k, c0)
  BY <1>2, <1>6
<1>8. Alters(E, B0, 24, o1, t, Model(e, f1, k, c0))
  BY <1>1, <1>6, <1>7, <1>4, Unlinks
<1> HIDE DEF m1
<1>9. DOMAIN B1 = First(26) /\ B1[t] = m1
  BY <1>1, <1>6, WithIs
<1> HIDE DEF B1
<1>10. B1[t] = Model(e, f1, k, c0)
  BY <1>9 DEF m1
<1> HIDE DEF f1
<1>11. Alters(E, B1, 24, o2, t, Model(e, f2, k, c0))
  BY <1>1, <1>9, <1>10, <1>5, Unlinks
<1> HIDE DEF f2, o1, o2
<1>12. Alters(E, B1, 24, o2, t, Metadata[t])
  BY <1>3, <1>11
<1>13. Alters(E, B0, 24, o1, t, m1)
  BY <1>8 DEF m1
<1>14. Step(Step(MetaCat(E, S), o1), o2) = MetaCat(E, U)
  BY <1>1, <1>6, <1>13, <1>12, TurnsTwo DEF B0, B1
<1> QED  BY <1>14 DEF t, o1, o2, a1, a2

\* service_transitions: an index replaced by one on its first column.
LEMMA TurnsServiceTransitions ==
  ASSUME NEW S, "service_transitions" \notin S,
         NEW U, U = S \cup {"service_transitions"}, NEW E
  PROVE  Step(Step(MetaCat(E, S), DropIndex("service_transitions", "service_at")),
         AddIndex("service_transitions", <<"service_id", <<"service_id">>>>))
         = MetaCat(E, U)
<1> DEFINE t == "service_transitions"
           e == {"service_status"}
           f0 == {OfService, <<"by_user_id", "users", "SET NULL">>}
           k == {}
           c0 == {}
           x == <<"service_at", <<"service_id", "at DESC">>>>
           a1 == "service_at"
           a2 == "service_id"
           c1 == c0 \cup {a2}
           o1 == DropIndex(t, a1)
           o2 == AddIndex(t, <<a2, <<a2>>>>)
           B0 == Meta(S)
           m1 == Model(e, f0, k, c0)
           B1 == With(B0, t, m1)
<1>1. t \in First(24) /\ t \in First(26) /\ 24 \in 0 .. 26
  BY InFirst, OrderIs
<1>2. Filled[t] = Indexing(Model(e, f0, k, c0), {x})
  <2>1. Filled[t] = Made[t]
    BY <1>1, FilledIs
  <2> QED  BY <2>1, MadeIs
<1>3. Metadata[t] = Model(e, f0, k, c1)
  <2> DEFINE F == {OfService, <<"by_user_id", "users", "SET NULL">>}
             C == {"service_id"}
  <2>1. Metadata[t] = Model(e, F, k, C)
    BY DeclaredIs DEF DeclaredByServices
  <2>2. F = f0
    OBVIOUS
  <2>3. C = c1
    OBVIOUS
  <2> HIDE DEF F, C, e, k, f0, c1, t
  <2> QED  BY <2>1, <2>2, <2>3
<1>4. x[1] \notin c0 /\ a1 = x[1]
  OBVIOUS
<1>5. a2 \notin c0
  OBVIOUS
<1>6. DOMAIN B0 = First(26) /\ B0[t] = Filled[t] /\ t \notin S /\ U = S \cup {t}
  BY <1>1, MetaIs
<1> HIDE DEF t, e, f0, k, c0, x, a1, a2, B0
<1>7. B0[t] = Indexing(Model(e, f0, k, c0), {x})
  BY <1>2, <1>6
<1>8. Alters(E, B0, 24, o1, t, Model(e, f0, k, c0))
  BY <1>1, <1>6, <1>7, <1>4, DropsExtra
<1> HIDE DEF m1
<1>9. DOMAIN B1 = First(26) /\ B1[t] = m1
  BY <1>1, <1>6, WithIs
<1> HIDE DEF B1
<1>10. B1[t] = Model(e, f0, k, c0)
  BY <1>9 DEF m1
<1>11. Alters(E, B1, 24, o2, t, Model(e, f0, k, c1))
  BY <1>1, <1>9, <1>10, <1>5, AddsColumn
<1> HIDE DEF c1, o1, o2
<1>12. Alters(E, B1, 24, o2, t, Metadata[t])
  BY <1>3, <1>11
<1>13. Alters(E, B0, 24, o1, t, m1)
  BY <1>8 DEF m1
<1>14. Step(Step(MetaCat(E, S), o1), o2) = MetaCat(E, U)
  BY <1>1, <1>6, <1>13, <1>12, TurnsTwo DEF B0, B1
<1> QED  BY <1>14 DEF t, o1, o2, a1, a2

\* services: an index less.
LEMMA TurnsServices ==
  ASSUME NEW S, "services" \notin S, NEW U, U = S \cup {"services"}, NEW E
  PROVE  Step(MetaCat(E, S), DropIndex("services", "center_status"))
         = MetaCat(E, U)
<1> DEFINE t == "services"
           e == {"service_status"}
           f0 == {<<"car_id", "cars", "RESTRICT">>, OfCenter("RESTRICT"),
                  <<"mechanic_id", "mechanics", "SET NULL">>}
           k == {}
           c0 == {"car_id", "center_id", "mechanic_id"}
           x == <<"center_status", <<"center_id", "status">>>>
           a1 == "center_status"
           o1 == DropIndex(t, a1)
           B0 == Meta(S)
<1>1. t \in First(24) /\ t \in First(26) /\ 24 \in 0 .. 26
  BY InFirst, OrderIs
<1>2. Filled[t] = Indexing(Model(e, f0, k, c0), {x})
  <2>1. Filled[t] = Made[t]
    BY <1>1, FilledIs
  <2> QED  BY <2>1, MadeIs
<1>3. Metadata[t] = Model(e, f0, k, c0)
  <2> DEFINE F == {<<"car_id", "cars", "RESTRICT">>, OfCenter("RESTRICT"),
                  <<"mechanic_id", "mechanics", "SET NULL">>}
             C == {"car_id", "center_id", "mechanic_id"}
  <2>1. Metadata[t] = Model(e, F, k, C)
    BY DeclaredIs DEF DeclaredByServices
  <2>2. F = f0
    OBVIOUS
  <2>3. C = c0
    OBVIOUS
  <2> HIDE DEF F, C, e, k, f0, c0, t
  <2> QED  BY <2>1, <2>2, <2>3
<1>4. x[1] \notin c0 /\ a1 = x[1]
  OBVIOUS
<1>5. DOMAIN B0 = First(26) /\ B0[t] = Filled[t] /\ t \notin S /\ U = S \cup {t}
  BY <1>1, MetaIs
<1> HIDE DEF t, e, f0, k, c0, x, a1, B0
<1>6. B0[t] = Indexing(Model(e, f0, k, c0), {x})
  BY <1>2, <1>5
<1>7. Alters(E, B0, 24, o1, t, Model(e, f0, k, c0))
  BY <1>1, <1>5, <1>6, <1>4, DropsExtra
<1> HIDE DEF o1
<1>8. Alters(E, B0, 24, o1, t, Metadata[t])
  BY <1>3, <1>7
<1>9. Step(MetaCat(E, S), o1) = MetaCat(E, U)
  BY <1>1, <1>5, <1>8, TurnsOne DEF B0
<1> QED  BY <1>9 DEF t, o1, a1

\* users: two indexes and the reference of 0003 go.
LEMMA TurnsUsers ==
  ASSUME NEW S, "users" \notin S, NEW U, U = S \cup {"users"}, NEW E
  PROVE  Step(Step(Step(MetaCat(E, S), DropIndex("users", "center_id")),
         DropIndex("users", "role")), DropFk("users", "center_id"))
         = MetaCat(E, U)
<1> DEFINE t == "users"
           e == {"user_role"}
           f0 == {} \cup {OfCenter("SET NULL")}
           k == {<<"phone">>}
           c0 == {"email", "role", "center_id"}
           a1 == "center_id"
           c1 == c0 \ {a1}
           a2 == "role"
           c2 == c1 \ {a2}
           a3 == "center_id"
           f1 == {fk \in f0 : fk[1] # a3}
           o1 == DropIndex(t, a1)
           o2 == DropIndex(t, a2)
           o3 == DropFk(t, a3)
           B0 == Meta(S)
           m1 == Model(e, f0, k, c1)
           B1 == With(B0, t, m1)
           m2 == Model(e, f0, k, c2)
           B2 == With(B1, t, m2)
<1>1. t \in First(24) /\ t \in First(26) /\ 24 \in 0 .. 26
  BY InFirst, OrderIs
<1>2. Filled[t] = Model(e, f0, k, c0)
  BY FilledModel
<1>3. Metadata[t] = Model(e, f1, k, c2)
  <2> DEFINE F == {}
             C == {"email"}
  <2>1. Metadata[t] = Model(e, F, k, C)
    BY DeclaredIs DEF DeclaredByUsers
  <2>2. F = f1
    <3> DEFINE p == OfCenter("SET NULL")
    <3>1. p[1] = "center_id"
      BY DEF OfCenter
    <3> HIDE DEF p
    <3>2. {fk \in {} \cup {p} : fk[1] # "center_id"} = {}
      BY <3>1
    <3> QED  BY <3>2 DEF p
  <2>3. C = c2
    OBVIOUS
  <2> HIDE DEF F, C, e, k, f1, c2, t
  <2> QED  BY <2>1, <2>2, <2>3
<1>4. a1 \in c0
  OBVIOUS
<1>5. a2 \in c1
  OBVIOUS
<1>6. a3 # Unnamed /\ \E fk \in f0 : fk[1] = a3
  BY DEF Unnamed, OfCenter
<1>7. DOMAIN B0 = First(26) /\ B0[t] = Filled[t] /\ t \notin S /\ U = S \cup {t}
  BY <1>1, MetaIs
<1> HIDE DEF t, e, f0, k, c0, a1, a2, a3, B0
<1>8. B0[t] = Model(e, f0, k, c0)
  BY <1>2, <1>7
<1>9. Alters(E, B0, 24, o1, t, Model(e, f0, k, c1))
  BY <1>1, <1>7, <1>8, <1>4, DropsColumn
<1> HIDE DEF m1
<1>10. DOMAIN B1 = First(26) /\ B1[t] = m1
  BY <1>1, <1>7, WithIs
<1> HIDE DEF B1
<1>11. B1[t] = Model(e, f0, k, c1)
  BY <1>10 DEF m1
<1> HIDE DEF c1
<1>12. Alters(E, B1, 24, o2, t, Model(e, f0, k, c2))
  BY <1>1, <1>10, <1>11, <1>5, DropsColumn
<1> HIDE DEF m2
<1>13. DOMAIN B2 = First(26) /\ B2[t] = m2
  BY <1>1, <1>10, WithIs
<1> HIDE DEF B2
<1>14. B2[t] = Model(e, f0, k, c2)
  BY <1>13 DEF m2
<1> HIDE DEF c2
<1>15. Alters(E, B2, 24, o3, t, Model(e, f1, k, c2))
  BY <1>1, <1>13, <1>14, <1>6, Unlinks
<1> HIDE DEF f1, c2, o1, o2, o3
<1>16. Alters(E, B2, 24, o3, t, Metadata[t])
  BY <1>3, <1>15
<1>17. Alters(E, B0, 24, o1, t, m1) /\ Alters(E, B1, 24, o2, t, m2)
  BY <1>9, <1>12 DEF m1, m2
<1>18. Step(Step(Step(MetaCat(E, S), o1), o2), o3) = MetaCat(E, U)
  BY <1>1, <1>7, <1>17, <1>16, TurnsThree DEF B0, B1, B2
<1> QED  BY <1>18 DEF t, o1, o2, o3, a1, a2, a3

\* All of it: e52e9a810976.
LEMMA UpCompanies ==
  Leads(Upgrade[6], Cat(TypesTo(23), Tables(Filled, 23)),
        Cat(TypesTo(24), Tables(Metadata, 24)))
<1> DEFINE E == TypesTo(24)
           ops == AddCompanies
           S0 == {}
           S1 == S0 \cup {"insurance_policies"}
           S2 == S1 \cup {"mechanics"}
           S3 == S2 \cup {"mileage_readings"}
           S4 == S3 \cup {"notifications"}
           S5 == S4 \cup {"refresh_tokens"}
           S6 == S5 \cup {"reviews"}
           S7 == S6 \cup {"service_transitions"}
           S8 == S7 \cup {"services"}
           S9 == S8 \cup {"users"}
           c0 == Cat(E, Tables(Filled, 23))
           c1 == MetaCat(E, S0)
           c2 == MetaCat(E, S1)
           c3 == MetaCat(E, S2)
           c4 == MetaCat(E, S3)
           c5 == Step(c4, ops[5])
           c6 == MetaCat(E, S4)
           c7 == MetaCat(E, S5)
           c8 == Step(c7, ops[8])
           c9 == MetaCat(E, S6)
           c10 == Step(c9, ops[10])
           c11 == MetaCat(E, S7)
           c12 == MetaCat(E, S8)
           c13 == Step(c12, ops[13])
           c14 == Step(c13, ops[14])
           c15 == MetaCat(E, S9)
           g == [i \in 0 .. 15 |->
                   IF i = 0 THEN c0 ELSE IF i = 1 THEN c1 ELSE IF i = 2 THEN c2
                   ELSE IF i = 3 THEN c3 ELSE IF i = 4 THEN c4 ELSE IF i = 5 THEN c5
                   ELSE IF i = 6 THEN c6 ELSE IF i = 7 THEN c7 ELSE IF i = 8 THEN c8
                   ELSE IF i = 9 THEN c9 ELSE IF i = 10 THEN c10 ELSE IF i = 11 THEN c11
                   ELSE IF i = 12 THEN c12 ELSE IF i = 13 THEN c13 ELSE IF i = 14 THEN c14
                   ELSE c15]
<1>1. /\ "insurance_policies" \notin S0
      /\ "mechanics" \notin S1
      /\ "mileage_readings" \notin S2
      /\ "notifications" \notin S3
      /\ "refresh_tokens" \notin S4
      /\ "reviews" \notin S5
      /\ "service_transitions" \notin S6
      /\ "services" \notin S7
      /\ "users" \notin S8
  OBVIOUS
<1>2. /\ ops[1] = CreateTable("insurance_companies", Table({}, {}, {}))
      /\ ops[2] = AddFk("insurance_policies", <<"company_id", "insurance_companies", "RESTRICT">>)
      /\ ops[3] = DropIndex("mechanics", "center_active")
      /\ ops[4] = DropIndex("mileage_readings", "recorded_at")
      /\ ops[5] = DropIndex("notifications", "read_at")
      /\ ops[6] = AddIndex("notifications", <<"read_at", <<"read_at">>>>)
      /\ ops[7] = DropIndex("refresh_tokens", "expires_at")
      /\ ops[8] = DropFk("reviews", "center_id")
      /\ ops[9] = DropFk("reviews", "service_id")
      /\ ops[10] = DropIndex("service_transitions", "service_at")
      /\ ops[11] = AddIndex("service_transitions", <<"service_id", <<"service_id">>>>)
      /\ ops[12] = DropIndex("services", "center_status")
      /\ ops[13] = DropIndex("users", "center_id")
      /\ ops[14] = DropIndex("users", "role")
      /\ ops[15] = DropFk("users", "center_id")
  BY DEF AddCompanies
<1>3. IsScript(ops) /\ Len(ops) = 15
  <2>1. Len(ops) = 15
    BY DEF AddCompanies
  <2> QED  BY <2>1, CompaniesAreScripts DEF Upgrade
<1>4. c1 = Step(c0, ops[1])
  <2> DEFINE t == "insurance_companies"
             o == CreateTable(t, Table({}, {}, {}))
  <2>1. Filled[t] = Model({}, {}, {}, {})
    <3>1. t \in First(26)
      BY InFirst, OrderIs
    <3>2. Filled[t] = Made[t]
      BY <3>1, FilledIs
    <3> QED  BY <3>2, MadeIs
  <2>2. /\ "insurance_companies" = Order[24] /\ 23 \in 0 .. 25 /\ 24 = 23 + 1
        /\ Fits(Filled["insurance_companies"], 24, 11) /\ 11 \in 0 .. 23
        /\ TypesTo(24) \subseteq TypesTo(24)
    BY FilledFits, OrderIs
  <2>3. Leads(<<CreateTable("insurance_companies", Table({}, {}, {}))>>,
              Cat(TypesTo(24), Tables(Filled, 23)), Cat(TypesTo(24), Tables(Filled, 24)))
    BY <2>1, <2>2, MakesBare
  <2>4. IsOp(o)
    BY DEF IsOp, Kinds, CreateTable, Table, IsTable
  <2>5. Leads(<<o>>, c0, Step(c0, o))
    <3> HIDE DEF o, c0
    <3> QED  BY <2>4, OneLeads
  <2>6. Step(c0, o) = Cat(TypesTo(24), Tables(Filled, 24))
    BY <2>3, <2>5 DEF Leads
  <2>7. Tables(Filled, 24) = Tables(Meta({}), 24)
    <3>1. \A s \in First(24) : s \in First(26)
      BY DEF First
    <3>2. \A s \in First(24) : Meta({})[s] = Filled[s]
      BY <3>1 DEF Meta
    <3> QED  BY <3>2 DEF Tables
  <2> HIDE DEF o, ops
  <2>8. ops[1] = o
    BY <1>2 DEF o
  <2> QED  BY <2>6, <2>7, <2>8 DEF MetaCat
<1>5. c2 = Step(c1, ops[2])
  <2> HIDE DEF ops, E, S0
  <2>1. /\ "insurance_policies" \notin S0 /\ S1 = S0 \cup {"insurance_policies"}
    BY <1>1
  <2> HIDE DEF S1
  <2>2. Step(MetaCat(E, S0), ops[2]) = MetaCat(E, S1)
    BY <1>2, <2>1, TurnsInsurancePolicies
  <2> QED  BY <2>2 DEF c1, c2
<1>6. c3 = Step(c2, ops[3])
  <2> HIDE DEF ops, E, S1
  <2>1. /\ "mechanics" \notin S1 /\ S2 = S1 \cup {"mechanics"}
    BY <1>1
  <2> HIDE DEF S2
  <2>2. Step(MetaCat(E, S1), ops[3]) = MetaCat(E, S2)
    BY <1>2, <2>1, TurnsMechanics
  <2> QED  BY <2>2 DEF c2, c3
<1>7. c4 = Step(c3, ops[4])
  <2> HIDE DEF ops, E, S2
  <2>1. /\ "mileage_readings" \notin S2 /\ S3 = S2 \cup {"mileage_readings"}
    BY <1>1
  <2> HIDE DEF S3
  <2>2. Step(MetaCat(E, S2), ops[4]) = MetaCat(E, S3)
    BY <1>2, <2>1, TurnsMileageReadings
  <2> QED  BY <2>2 DEF c3, c4
<1>8. c5 = Step(c4, ops[5]) /\ c6 = Step(c5, ops[6])
  <2> HIDE DEF ops, E, S3
  <2>1. /\ "notifications" \notin S3 /\ S4 = S3 \cup {"notifications"}
    BY <1>1
  <2> HIDE DEF S4
  <2>2. Step(Step(MetaCat(E, S3), ops[5]), ops[6]) = MetaCat(E, S4)
    BY <1>2, <2>1, TurnsNotifications
  <2> QED  BY <2>2 DEF c4, c5, c6
<1>9. c7 = Step(c6, ops[7])
  <2> HIDE DEF ops, E, S4
  <2>1. /\ "refresh_tokens" \notin S4 /\ S5 = S4 \cup {"refresh_tokens"}
    BY <1>1
  <2> HIDE DEF S5
  <2>2. Step(MetaCat(E, S4), ops[7]) = MetaCat(E, S5)
    BY <1>2, <2>1, TurnsRefreshTokens
  <2> QED  BY <2>2 DEF c6, c7
<1>10. c8 = Step(c7, ops[8]) /\ c9 = Step(c8, ops[9])
  <2> HIDE DEF ops, E, S5
  <2>1. /\ "reviews" \notin S5 /\ S6 = S5 \cup {"reviews"}
    BY <1>1
  <2> HIDE DEF S6
  <2>2. Step(Step(MetaCat(E, S5), ops[8]), ops[9]) = MetaCat(E, S6)
    BY <1>2, <2>1, TurnsReviews
  <2> QED  BY <2>2 DEF c7, c8, c9
<1>11. c10 = Step(c9, ops[10]) /\ c11 = Step(c10, ops[11])
  <2> HIDE DEF ops, E, S6
  <2>1. /\ "service_transitions" \notin S6 /\ S7 = S6 \cup {"service_transitions"}
    BY <1>1
  <2> HIDE DEF S7
  <2>2. Step(Step(MetaCat(E, S6), ops[10]), ops[11]) = MetaCat(E, S7)
    BY <1>2, <2>1, TurnsServiceTransitions
  <2> QED  BY <2>2 DEF c9, c10, c11
<1>12. c12 = Step(c11, ops[12])
  <2> HIDE DEF ops, E, S7
  <2>1. /\ "services" \notin S7 /\ S8 = S7 \cup {"services"}
    BY <1>1
  <2> HIDE DEF S8
  <2>2. Step(MetaCat(E, S7), ops[12]) = MetaCat(E, S8)
    BY <1>2, <2>1, TurnsServices
  <2> QED  BY <2>2 DEF c11, c12
<1>13. c13 = Step(c12, ops[13]) /\ c14 = Step(c13, ops[14]) /\ c15 = Step(c14, ops[15])
  <2> HIDE DEF ops, E, S8
  <2>1. /\ "users" \notin S8 /\ S9 = S8 \cup {"users"}
    BY <1>1
  <2> HIDE DEF S9
  <2>2. Step(Step(Step(MetaCat(E, S8), ops[13]), ops[14]), ops[15]) = MetaCat(E, S9)
    BY <1>2, <2>1, TurnsUsers
  <2> QED  BY <2>2 DEF c12, c13, c14, c15
<1> HIDE DEF ops, c0, c1, c2, c3, c4, c5, c6, c7, c8, c9, c10, c11, c12, c13, c14, c15
<1>14. /\ g[0] = c0 /\ g[1] = c1 /\ g[2] = c2 /\ g[3] = c3 /\ g[4] = c4 /\ g[5] = c5
      /\ g[6] = c6 /\ g[7] = c7 /\ g[8] = c8 /\ g[9] = c9 /\ g[10] = c10 /\ g[11] = c11
      /\ g[12] = c12 /\ g[13] = c13 /\ g[14] = c14 /\ g[15] = c15
  OBVIOUS
<1> HIDE DEF g
<1>15. \A i \in 1 .. 15 : g[i] = Step(g[i - 1], ops[i])
  <2>1. /\ g[1] = Step(g[0], ops[1])
        /\ g[2] = Step(g[1], ops[2])
        /\ g[3] = Step(g[2], ops[3])
        /\ g[4] = Step(g[3], ops[4])
        /\ g[5] = Step(g[4], ops[5])
        /\ g[6] = Step(g[5], ops[6])
        /\ g[7] = Step(g[6], ops[7])
        /\ g[8] = Step(g[7], ops[8])
        /\ g[9] = Step(g[8], ops[9])
        /\ g[10] = Step(g[9], ops[10])
        /\ g[11] = Step(g[10], ops[11])
        /\ g[12] = Step(g[11], ops[12])
        /\ g[13] = Step(g[12], ops[13])
        /\ g[14] = Step(g[13], ops[14])
        /\ g[15] = Step(g[14], ops[15])
    BY <1>4, <1>5, <1>6, <1>7, <1>8, <1>9, <1>10, <1>11, <1>12, <1>13, <1>14
  <2>2. \A i \in 1 .. 15 : i \in {1, 2, 3, 4, 5} \/ i \in {6, 7, 8, 9, 10}
                        \/ i \in {11, 12, 13, 14, 15}
    OBVIOUS
  <2>3. \A i \in {1, 2, 3, 4, 5} : g[i] = Step(g[i - 1], ops[i])
    BY <2>1
  <2>4. \A i \in {6, 7, 8, 9, 10} : g[i] = Step(g[i - 1], ops[i])
    BY <2>1
  <2>5. \A i \in {11, 12, 13, 14, 15} : g[i] = Step(g[i - 1], ops[i])
    BY <2>1
  <2> QED  BY <2>2, <2>3, <2>4, <2>5
<1>16. Leads(ops, c0, c15)
  BY <1>3, <1>14, <1>15, RunsAlong
<1>17. c15 = Cat(E, Tables(Metadata, 24))
  <2>1. \A t \in First(24) : t \in First(26)
    BY DEF First
  <2>2. \A t \in First(26) : t \notin S9 => Filled[t] = Metadata[t]
    BY FilledIs DEF Made, MadeLater
  <2>3. \A t \in First(24) : Meta(S9)[t] = Metadata[t]
    BY <2>1, <2>2 DEF Meta
  <2>4. Tables(Meta(S9), 24) = Tables(Metadata, 24)
    BY <2>3 DEF Tables
  <2> QED  BY <2>4 DEF MetaCat, c15
<1>18. TypesTo(23) = E
  BY DEF TypesTo
<1>19. Upgrade[6] = ops
  BY DEF Upgrade, ops
<1> HIDE DEF E
<1> QED  BY <1>16, <1>17, <1>18, <1>19 DEF c0, E

-----------------------------------------------------------------------------
(***************************************************************************)
(* The last two revisions, and the chain.                                  *)
(***************************************************************************)
\* What the models declare refers to tables of the first six revisions.
LEMMA MetadataFits == \A i \in 1 .. 26 : Fits(Metadata[Order[i]], i, 24)
<1>1. ASSUME NEW i \in 1 .. 26, NEW a, Fits(a, i, 0), NEW enums, NEW fks, NEW names,
             HasParts(a, enums, fks, names), NEW b, NEW cols, HasParts(b, enums, fks, cols)
      PROVE  Fits(b, i, 24)
  <2>1. Fits(a, i, 24)
    BY <1>1, FitsMore
  <2> QED  BY <1>1, <2>1 DEF Fits, HasParts
<1>2. Fits(Metadata["users"], 1, 24)
  <2> DEFINE e == {"user_role"}
             f == {}
             k == {<<"phone">>}
             c == {"email", "role", "center_id"}
             C == {"email"}
             a == Made["users"]
             b == Metadata["users"]
  <2>1. a = Model(e, f, k, c)
    BY MadeIs
  <2>2. b = Model(e, f, k, C)
    BY DeclaredIs DEF DeclaredByUsers
  <2>3. 1 \in 1 .. 26 /\ Fits(a, 1, 0)
    BY MadeFits, OrderIs
  <2> HIDE DEF e, f, k, c, C, a, b
  <2>4. HasParts(a, e, f, c)
    BY <2>1, BodyIs
  <2>5. HasParts(b, e, f, C)
    BY <2>2, BodyIs
  <2>6. Fits(b, 1, 24)
    BY <1>1, <2>3, <2>4, <2>5
  <2> QED  BY <2>6 DEF b
<1>3. Fits(Metadata["refresh_tokens"], 2, 24)
  <2> DEFINE e == {}
             f == OfUser
             k == {<<"token_hash">>}
             c == {"user_id", "expires_at"}
             C == {"user_id"}
             a == Made["refresh_tokens"]
             b == Metadata["refresh_tokens"]
  <2>1. a = Model(e, f, k, c)
    BY MadeIs
  <2>2. b = Model(e, f, k, C)
    BY DeclaredIs DEF DeclaredByAuth
  <2>3. 2 \in 1 .. 26 /\ Fits(a, 2, 0)
    BY MadeFits, OrderIs
  <2> HIDE DEF e, f, k, c, C, a, b
  <2>4. HasParts(a, e, f, c)
    BY <2>1, BodyIs
  <2>5. HasParts(b, e, f, C)
    BY <2>2, BodyIs
  <2>6. Fits(b, 2, 24)
    BY <1>1, <2>3, <2>4, <2>5
  <2> QED  BY <2>6 DEF b
<1>4. Fits(Metadata["mileage_readings"], 4, 24)
  <2> DEFINE e == {"mileage_source"}
             f == {<<"car_id", "cars", "CASCADE">>}
             k == {}
             c == {"car_id"}
             C == {"car_id"}
             x == <<"recorded_at", <<"car_id", "recorded_at">>>>
             N == c \cup {x[1]}
             a == Made["mileage_readings"]
             b == Metadata["mileage_readings"]
  <2>1. a = Indexing(Model(e, f, k, c), {x})
    BY MadeIs
  <2>2. b = Model(e, f, k, C)
    BY DeclaredIs DEF DeclaredByCars
  <2>3. 4 \in 1 .. 26 /\ Fits(a, 4, 0)
    BY MadeFits, OrderIs
  <2> HIDE DEF e, f, k, c, C, a, b, x
  <2>4. N = c \cup {x[1]}
    OBVIOUS
  <2> HIDE DEF N
  <2>5. HasParts(a, e, f, N)
    BY <2>1, <2>4, IndexedIs
  <2>6. HasParts(b, e, f, C)
    BY <2>2, BodyIs
  <2>7. Fits(b, 4, 24)
    BY <1>1, <2>3, <2>5, <2>6
  <2> QED  BY <2>7 DEF b
<1>5. Fits(Metadata["notifications"], 7, 24)
  <2> DEFINE e == {}
             f == OfUser
             k == {}
             c == {"user_id", "kind"}
             C == {"user_id", "kind", "read_at"}
             x == <<"read_at", <<"user_id", "read_at">>>>
             N == c \cup {x[1]}
             a == Made["notifications"]
             b == Metadata["notifications"]
  <2>1. a = Indexing(Model(e, f, k, c), {x})
    BY MadeIs
  <2>2. b = Model(e, f, k, C)
    BY DeclaredIs DEF DeclaredByNotifications
  <2>3. 7 \in 1 .. 26 /\ Fits(a, 7, 0)
    BY MadeFits, OrderIs
  <2> HIDE DEF e, f, k, c, C, a, b, x
  <2>4. N = c \cup {x[1]}
    OBVIOUS
  <2> HIDE DEF N
  <2>5. HasParts(a, e, f, N)
    BY <2>1, <2>4, IndexedIs
  <2>6. HasParts(b, e, f, C)
    BY <2>2, BodyIs
  <2>7. Fits(b, 7, 24)
    BY <1>1, <2>3, <2>5, <2>6
  <2> QED  BY <2>7 DEF b
<1>6. Fits(Metadata["mechanics"], 10, 24)
  <2> DEFINE e == {}
             f == {OfCenter("CASCADE")}
             k == {<<"login">>}
             c == {"center_id"}
             C == {"center_id"}
             x == <<"center_active", <<"center_id", "deleted_at IS NULL">>>>
             N == c \cup {x[1]}
             a == Made["mechanics"]
             b == Metadata["mechanics"]
  <2>1. a = Indexing(Model(e, f, k, c), {x})
    BY MadeIs
  <2>2. b = Model(e, f, k, C)
    BY DeclaredIs DEF DeclaredByMechanics
  <2>3. 10 \in 1 .. 26 /\ Fits(a, 10, 0)
    BY MadeFits, OrderIs
  <2> HIDE DEF e, f, k, c, C, a, b, x
  <2>4. N = c \cup {x[1]}
    OBVIOUS
  <2> HIDE DEF N
  <2>5. HasParts(a, e, f, N)
    BY <2>1, <2>4, IndexedIs
  <2>6. HasParts(b, e, f, C)
    BY <2>2, BodyIs
  <2>7. Fits(b, 10, 24)
    BY <1>1, <2>3, <2>5, <2>6
  <2> QED  BY <2>7 DEF b
<1>7. Fits(Metadata["services"], 11, 24)
  <2> DEFINE e == {"service_status"}
             f == {<<"car_id", "cars", "RESTRICT">>, OfCenter("RESTRICT"),
                  <<"mechanic_id", "mechanics", "SET NULL">>}
             k == {}
             c == {"car_id", "center_id", "mechanic_id"}
             C == {"car_id", "center_id", "mechanic_id"}
             x == <<"center_status", <<"center_id", "status">>>>
             N == c \cup {x[1]}
             a == Made["services"]
             b == Metadata["services"]
  <2>1. a = Indexing(Model(e, f, k, c), {x})
    BY MadeIs
  <2>2. b = Model(e, f, k, C)
    BY DeclaredIs DEF DeclaredByServices
  <2>3. 11 \in 1 .. 26 /\ Fits(a, 11, 0)
    BY MadeFits, OrderIs
  <2> HIDE DEF e, f, k, c, C, a, b, x
  <2>4. N = c \cup {x[1]}
    OBVIOUS
  <2> HIDE DEF N
  <2>5. HasParts(a, e, f, N)
    BY <2>1, <2>4, IndexedIs
  <2>6. HasParts(b, e, f, C)
    BY <2>2, BodyIs
  <2>7. Fits(b, 11, 24)
    BY <1>1, <2>3, <2>5, <2>6
  <2> QED  BY <2>7 DEF b
<1>8. Fits(Metadata["service_transitions"], 13, 24)
  <2> DEFINE e == {"service_status"}
             f == {OfService, <<"by_user_id", "users", "SET NULL">>}
             k == {}
             c == {}
             C == {"service_id"}
             x == <<"service_at", <<"service_id", "at DESC">>>>
             N == c \cup {x[1]}
             a == Made["service_transitions"]
             b == Metadata["service_transitions"]
  <2>1. a = Indexing(Model(e, f, k, c), {x})
    BY MadeIs
  <2>2. b = Model(e, f, k, C)
    BY DeclaredIs DEF DeclaredByServices
  <2>3. 13 \in 1 .. 26 /\ Fits(a, 13, 0)
    BY MadeFits, OrderIs
  <2> HIDE DEF e, f, k, c, C, a, b, x
  <2>4. N = c \cup {x[1]}
    OBVIOUS
  <2> HIDE DEF N
  <2>5. HasParts(a, e, f, N)
    BY <2>1, <2>4, IndexedIs
  <2>6. HasParts(b, e, f, C)
    BY <2>2, BodyIs
  <2>7. Fits(b, 13, 24)
    BY <1>1, <2>3, <2>5, <2>6
  <2> QED  BY <2>7 DEF b
<1>9. Fits(Metadata["insurance_policies"], 21, 24)
  <2> DEFINE e == {"payment_status"}
             f == OfUser \cup {<<"car_id", "cars", "RESTRICT">>, <<"tariff_id",
                  "insurance_tariffs", "RESTRICT">>}
             p == <<"company_id", "insurance_companies", "RESTRICT">>
             F == f \cup {p}
             c == {"user_id"}
             a == Made["insurance_policies"]
             b == Metadata["insurance_policies"]
  <2>1. a = Model(e, f, {}, c)
    BY MadeIs
  <2>2. b = Model(e, F, {}, c)
    <3> DEFINE G == OfUser \cup {<<"car_id", "cars", "RESTRICT">>,
                                 <<"tariff_id", "insurance_tariffs", "RESTRICT">>,
                                 <<"company_id", "insurance_companies", "RESTRICT">>}
    <3>1. b = Model(e, G, {}, c)
      BY DeclaredIs DEF DeclaredByInsurance
    <3>2. G = F
      OBVIOUS
    <3> HIDE DEF G, F, e, c, b
    <3> QED  BY <3>1, <3>2
  <2>3. 21 \in 1 .. 26 /\ Fits(a, 21, 0)
    BY MadeFits, OrderIs
  <2>4. p[2] \in First(24)
    BY Known
  <2> HIDE DEF e, f, p, c, a, b
  <2>5. HasParts(a, e, f, c) /\ HasParts(b, e, F, c)
    BY <2>1, <2>2, BodyIs
  <2>6. Fits(a, 21, 24)
    BY <2>3, FitsMore
  <2>7. Fits(b, 21, 24)
    BY <2>4, <2>5, <2>6 DEF Fits, HasParts
  <2> QED  BY <2>7 DEF b
<1>10. ASSUME NEW i \in 1 .. 26  PROVE Fits(Metadata[Order[i]], i, 24)
  <2>1. CASE i \in {1, 2, 4, 7, 10, 11, 13, 21}
    BY <1>2, <1>3, <1>4, <1>5, <1>6, <1>7, <1>8, <1>9, <2>1, OrderIs
  <2>2. CASE i \notin {1, 2, 4, 7, 10, 11, 13, 21}
    <3>1. Order[i] \in First(26) /\ Order[i] \notin MadeLater
      BY <2>2, InFirst, OrderIs, Places DEF MadeLater
    <3>2. Made[Order[i]] = Metadata[Order[i]]
      BY <3>1 DEF Made, MadeLater
    <3> QED  BY <3>2, MadeFits, FitsMore
  <2> QED  BY <2>1, <2>2
<1> QED  BY <1>10

\* 7aa22029ef2f.
LEMMA UpStories ==
  Leads(Upgrade[7], Cat(TypesTo(24), Tables(Metadata, 24)),
        Cat(TypesTo(25), Tables(Metadata, 25)))
<1> DEFINE T == TypesTo(25)
<1>1. /\ TypesTo(25) \subseteq T
  BY DEF TypesTo
<1>2. Leads(CreateStories, Cat(T, Tables(Metadata, 24)), Cat(T, Tables(Metadata, 25)))
  <2> DEFINE e == {}
             f == {OfCenter("CASCADE")}
             k == {}
  <2>1. Metadata["stories"] = Model(e, f, k, {})
    BY DeclaredIs DEF DeclaredByStories
  <2> HIDE DEF T, e, f, k
  <2>2. /\ "stories" = Order[25] /\ 24 \in 0 .. 25 /\ 25 = 24 + 1
       /\ Fits(Metadata["stories"], 25, 24) /\ 24 \in 0 .. 24 /\ TypesTo(25) \subseteq T
    BY <1>1, MetadataFits, OrderIs
  <2>3. Leads(<<CreateTable("stories", Table(e, f, k))>>,
              Cat(T, Tables(Metadata, 24)), Cat(T, Tables(Metadata, 25)))
    BY <2>1, <2>2, MakesBare
  <2> QED  BY <2>3 DEF e, f, k, CreateStories
<1>3. TypesTo(24) = T
  BY DEF TypesTo
<1> QED  BY <1>2, <1>3 DEF Upgrade

\* 0006.
LEMMA UpAudit ==
  Leads(Upgrade[8], Cat(TypesTo(25), Tables(Metadata, 25)),
        Cat(TypesTo(26), Tables(Metadata, 26)))
<1> DEFINE T == TypesTo(26)
<1>1. /\ TypesTo(26) \subseteq T
  BY DEF TypesTo
<1>2. Leads(CreateAuditLogs, Cat(T, Tables(Metadata, 25)), Cat(T, Tables(Metadata, 26)))
  <2> DEFINE e == {}
             f == {<<"actor_user_id", "users", "SET NULL">>}
             k == {}
             c == <<"actor_user_id", "action", "entity_type", "entity_id", "at">>
             C == {"actor_user_id", "action", "entity_type", "entity_id", "at"}
  <2>1. Metadata["audit_logs"] = Model(e, f, k, C)
    BY DeclaredIs DEF DeclaredByAudit
  <2>2. IsTuple(c) /\ RangeOf(c) = C /\ Distinct(c)
    BY Lists
  <2> HIDE DEF T, e, f, k, c, C
  <2>3. Metadata["audit_logs"] = Model(e, f, k, RangeOf(c))
    BY <2>1, <2>2
  <2>4. /\ "audit_logs" = Order[26] /\ 25 \in 0 .. 25 /\ 26 = 25 + 1
       /\ Fits(Metadata["audit_logs"], 26, 24) /\ 24 \in 0 .. 25 /\ TypesTo(26) \subseteq T
    BY <1>1, MetadataFits, OrderIs
  <2>5. Leads(<<CreateTable("audit_logs", Table(e, f, k))>> \o Indexes("audit_logs",
              c),
              Cat(T, Tables(Metadata, 25)), Cat(T, Tables(Metadata, 26)))
    BY <2>2, <2>3, <2>4, MakesWith
  <2> QED  BY <2>5 DEF e, f, k, c, CreateAuditLogs
<1>3. TypesTo(25) = T
  BY DEF TypesTo
<1> QED  BY <1>2, <1>3 DEF Upgrade

\* The catalogue of each revision.
LEMMA ChainIs ==
  /\ At[0] = Cat({}, Tables(Made, 0))
  /\ At[1] = Cat(TypesTo(2), Tables(Made, 2)) /\ At[2] = Cat(TypesTo(8), Tables(Made, 8))
  /\ At[3] = Cat(TypesTo(14), Tables(Filled, 14))
  /\ At[4] = Cat(TypesTo(21), Tables(Filled, 21))
  /\ At[5] = Cat(TypesTo(23), Tables(Filled, 23))
  /\ At[6] = Cat(TypesTo(24), Tables(Metadata, 24))
  /\ At[7] = Cat(TypesTo(25), Tables(Metadata, 25))
  /\ At[8] = Cat(TypesTo(26), Tables(Metadata, 26))
<1>1. \A r \in 1 .. 8 : At[r] = Execute(Upgrade[r], At[r - 1])
  BY AtIs DEF Newest
<1>2. At[0] = Cat({}, Tables(Made, 0))
  <2>1. At[0] = Empty
    BY AtIs DEF Base
  <2>2. First(0) = {}
    BY DEF First
  <2> QED  BY <2>1, <2>2 DEF Empty, Cat, Tables

<1>3. At[1] = Cat(TypesTo(2), Tables(Made, 2))
  BY <1>2, UpAuth, <1>1 DEF Leads
<1>4. At[2] = Cat(TypesTo(8), Tables(Made, 8))
  BY <1>3, UpCustomer, <1>1 DEF Leads
<1>5. At[3] = Cat(TypesTo(14), Tables(Filled, 14))
  BY <1>4, UpErp, <1>1 DEF Leads
<1>6. At[4] = Cat(TypesTo(21), Tables(Filled, 21))
  BY <1>5, UpSecondary, <1>1 DEF Leads
<1>7. At[5] = Cat(TypesTo(23), Tables(Filled, 23))
  BY <1>6, UpBilling, <1>1 DEF Leads
<1>8. At[6] = Cat(TypesTo(24), Tables(Metadata, 24))
  BY <1>7, UpCompanies, <1>1 DEF Leads
<1>9. At[7] = Cat(TypesTo(25), Tables(Metadata, 25))
  BY <1>8, UpStories, <1>1 DEF Leads
<1>10. At[8] = Cat(TypesTo(26), Tables(Metadata, 26))
  BY <1>9, UpAudit, <1>1 DEF Leads
<1> QED  BY <1>2, <1>3, <1>4, <1>5, <1>6, <1>7, <1>8, <1>9, <1>10

-----------------------------------------------------------------------------
(***************************************************************************)
(* The downgrades, table by table.                                         *)
(***************************************************************************)
\* None of the first k tables refers to t.
Unreferred(B, k, t) == \A s \in First(k) : \A fk \in B[s].fks : fk[2] # t

\* Tables refer to earlier ones only: nothing refers to the last one.
LEMMA LastIsUnreferred ==
  ASSUME NEW B, NEW m \in 0 .. 26, \A i \in 1 .. 26 : Fits(B[Order[i]], i, m),
         NEW k \in 0 .. 25, m <= k, NEW n, n = k + 1, NEW t, t = Order[n]
  PROVE  Unreferred(B, k, t)
<1>1. ASSUME NEW i \in 1 .. k, NEW fk \in B[Order[i]].fks  PROVE fk[2] # t
  <2>1. i \in 1 .. 26 /\ n \in 1 .. 26
    OBVIOUS
  <2>2. fk[2] \in First(i - 1) \cup First(m)
    BY <2>1, <1>1 DEF Fits
  <2>3. i - 1 \in 0 .. 26 /\ i - 1 < n /\ m < n
    OBVIOUS
  <2>4. t \notin First(i - 1) /\ t \notin First(m)
    BY <2>1, <2>3, InFirst
  <2> QED  BY <2>2, <2>4
<1> QED  BY <1>1 DEF Unreferred, First

\* The last table goes, its indexes first ...
LEMMA Goes ==
  ASSUME NEW B, NEW k \in 0 .. 25, NEW n, n = k + 1, NEW t, t = Order[n],
         Unreferred(B, k, t), NEW names, IsTuple(names), Distinct(names),
         NEW enums, NEW fks, HasParts(B[t], enums, fks, RangeOf(names)), NEW E
  PROVE  Leads(NoIndexes(t, names) \o <<DropTable(t)>>,
               Cat(E, Tables(B, n)), Cat(E, Tables(B, k)))
<1> DEFINE f == Tables(B, n)
           h == Tables(B, k)
<1>1. GrowsBy(B, k, n, t)
  BY NextTable
<1>2. /\ IsFun(f) /\ t \in DOMAIN f /\ IsTable(f[t])
      /\ \A name \in RangeOf(names) : \E ix \in f[t].indexes : ix[1] = name
  BY <1>1 DEF GrowsBy, HasParts
<1>3. \A s \in DOMAIN f \ {t} : \A fk \in f[s].fks : fk[2] # t
  <2>1. \A s \in DOMAIN f \ {t} : s \in First(k) /\ f[s] = B[s]
    BY <1>1 DEF GrowsBy, Tables
  <2> QED  BY <2>1 DEF Unreferred
<1>4. Less(f, t) = h
  <2>1. DOMAIN f \ {t} = First(k)
    BY <1>1 DEF GrowsBy
  <2>2. \A s \in First(k) : f[s] = h[s] /\ s \in DOMAIN f
    BY <1>1 DEF GrowsBy, Tables
  <2>3. h = [s \in First(k) |-> h[s]]
    BY DEF Tables
  <2> HIDE DEF f, h
  <2> QED  BY <2>1, <2>2, <2>3 DEF Less
<1> HIDE DEF f, h
<1>5. Leads(NoIndexes(t, names) \o <<DropTable(t)>>, Cat(E, f), Cat(E, Less(f, t)))
  BY <1>2, <1>3, TableGoes
<1> QED  BY <1>4, <1>5 DEF f, h

\* ... with it.
LEMMA GoesBare ==
  ASSUME NEW B, NEW k \in 0 .. 25, NEW n, n = k + 1, NEW t, t = Order[n],
         Unreferred(B, k, t), NEW E
  PROVE  Leads(<<DropTable(t)>>, Cat(E, Tables(B, n)), Cat(E, Tables(B, k)))
<1> DEFINE f == Tables(B, n)
           h == Tables(B, k)
           o == DropTable(t)
<1>1. GrowsBy(B, k, n, t)
  BY NextTable
<1>2. t \in DOMAIN f /\ \A s \in DOMAIN f \ {t} : \A fk \in f[s].fks : fk[2] # t
  <2>1. \A s \in DOMAIN f \ {t} : s \in First(k) /\ f[s] = B[s]
    BY <1>1 DEF GrowsBy, Tables
  <2> QED  BY <1>1, <2>1 DEF Unreferred, GrowsBy
<1>3. Less(f, t) = h
  <2>1. DOMAIN f \ {t} = First(k)
    BY <1>1 DEF GrowsBy
  <2>2. \A s \in First(k) : f[s] = h[s] /\ s \in DOMAIN f
    BY <1>1 DEF GrowsBy, Tables
  <2>3. h = [s \in First(k) |-> h[s]]
    BY DEF Tables
  <2> HIDE DEF f, h
  <2> QED  BY <2>1, <2>2, <2>3 DEF Less
<1> HIDE DEF f, h
<1>4. Step(Cat(E, f), o) = Cat(E, h)
  BY <1>2, <1>3, DropStep
<1>5. IsOp(o)
  BY DEF IsOp, Kinds, DropTable
<1> HIDE DEF o
<1>6. Leads(<<o>>, Cat(E, f), Cat(E, h))
  BY <1>4, <1>5, OneLeads
<1> QED  BY <1>6 DEF o, f, h

\* An index that need not be there goes first.
Bared(B, t, name) == With(B, t, Unindexing(B[t], {name}))

Bares(E, B, k, n, t, name, enums, fks, cols) ==
  /\ Leads(<<DropIndexIfExists(t, name)>>,
           Cat(E, Tables(B, n)), Cat(E, Tables(Bared(B, t, name), n)))
  /\ Tables(Bared(B, t, name), k) = Tables(B, k) /\ Unreferred(Bared(B, t, name), k, t)
  /\ HasParts(Bared(B, t, name)[t], enums, fks, cols)

\* ... or one index that is not among the columns goes, and the table stays.
LEMMA IndexGoes ==
  ASSUME NEW B, DOMAIN B = First(26), NEW k \in 0 .. 25, NEW n, n = k + 1,
         NEW t, t = Order[n], Unreferred(B, k, t), NEW name, NEW enums, NEW fks, NEW cols,
         HasParts(B[t], enums, fks, cols), name \notin cols, NEW E
  PROVE  Bares(E, B, k, n, t, name, enums, fks, cols)
<1> DEFINE b == B[t]
           a == Unindexing(b, {name})
           D == Bared(B, t, name)
           o == DropIndexIfExists(t, name)
<1>1. n \in 1 .. 26 /\ n \in 0 .. 26 /\ n <= 26
  OBVIOUS
<1>2. t \in First(26) /\ t \in First(n)
  BY <1>1, InFirst
<1>3. t \notin First(k) /\ \A s \in First(k) : s \in First(26)
  <2>1. \A i \in 1 .. k : i \in 1 .. 26
    OBVIOUS
  <2>2. GrowsBy(B, k, n, t)
    BY NextTable
  <2> QED  BY <2>1, <2>2 DEF GrowsBy, First
<1>4. Alters(E, B, n, o, t, a)
  BY <1>1, <1>2, DropsIndexIfExists
<1>5. IsOp(o)
  BY DEF IsOp, Kinds, DropIndexIfExists
<1>6. HasParts(a, enums, fks, cols)
  <2>1. /\ IsTable(b) /\ b.enums = enums /\ b.fks = fks
        /\ \A c \in cols : \E ix \in b.indexes : ix[1] = c
    BY DEF HasParts
  <2> HIDE DEF b
  <2>2. /\ IsTable(a) /\ a.enums = enums /\ a.fks = fks
        /\ a.indexes = {ix \in b.indexes : ix[1] \notin {name}}
    BY <2>1, ChangesAre
  <2>3. ASSUME NEW c \in cols  PROVE \E ix \in a.indexes : ix[1] = c
    <3>1. PICK ix \in b.indexes : ix[1] = c
      BY <2>1
    <3> QED  BY <2>2, <3>1
  <2> HIDE DEF a
  <2> QED  BY <2>2, <2>3 DEF HasParts
<1>7. D[t] = a /\ \A s \in First(k) : D[s] = B[s]
  <2> HIDE DEF a
  <2>1. D = With(B, t, a)
    BY DEF Bared, a
  <2> HIDE DEF D
  <2> QED  BY <1>2, <1>3, <2>1, WithIs
<1> HIDE DEF o
<1>8. Step(Cat(E, Tables(B, n)), o) = Cat(E, Tables(D, n))
  BY <1>4 DEF Alters, Bared
<1> HIDE DEF D, a
<1>9. Leads(<<o>>, Cat(E, Tables(B, n)), Cat(E, Tables(D, n)))
  BY <1>5, <1>8, OneLeads
<1>10. Tables(D, k) = Tables(B, k)
  BY <1>7 DEF Tables
<1>11. Unreferred(D, k, t)
  BY <1>7 DEF Unreferred
<1> QED  BY <1>6, <1>7, <1>9, <1>10, <1>11 DEF o, D, Bares

\* The types go when no table is left that has them.
LEMMA TypesGo ==
  ASSUME NEW B, NEW m \in 0 .. 26, \A i \in 1 .. 26 : Fits(B[Order[i]], i, m),
         NEW k \in 0 .. 26, NEW es, IsTuple(es), RangeOf(es) \cap TypesTo(k) = {},
         NEW E, NEW F, F = E \ RangeOf(es)
  PROVE  Leads(NoEnums(es), Cat(E, Tables(B, k)), Cat(F, Tables(B, k)))
<1> DEFINE f == Tables(B, k)
<1>1. ASSUME NEW t \in DOMAIN f  PROVE f[t].enums \cap RangeOf(es) = {}
  <2>1. PICK i \in 1 .. k : t = Order[i]
    BY DEF Tables, First
  <2>2. i \in 1 .. 26 /\ i <= k /\ f[t] = B[Order[i]]
    BY <2>1 DEF Tables
  <2>3. f[t].enums \subseteq TypesTo(i)
    BY <2>2 DEF Fits
  <2>4. TypesTo(i) \subseteq TypesTo(k)
    <3>1. /\ i > 2 => k > 2
          /\ i > 8 => k > 8
          /\ i > 14 => k > 14
          /\ i > 21 => k > 21
      BY <2>2
    <3> QED  BY <3>1 DEF TypesTo
  <2> QED  BY <2>3, <2>4
<1> HIDE DEF f
<1>2. Leads(NoEnums(es), Cat(E, f), Cat(E \ RangeOf(es), f))
  BY <1>1, NoEnumsLead
<1> QED  BY <1>2 DEF f

\* 0006.
LEMMA DownAudit ==
  Leads(Downgrade[8], Cat(TypesTo(26), Tables(Metadata, 26)),
        Cat(TypesTo(25), Tables(Metadata, 25)))
<1> DEFINE T == TypesTo(26)
           i1 == NoIndexes("audit_logs", <<"at", "entity_id", "entity_type",
                    "action", "actor_user_id">>)
           d1 == <<DropTable("audit_logs")>>
<1>1. Leads(i1 \o d1, Cat(T, Tables(Metadata, 26)), Cat(T, Tables(Metadata, 25)))
  <2> DEFINE e == {}
             f == {<<"actor_user_id", "users", "SET NULL">>}
             k == {}
             c == {"actor_user_id", "action", "entity_type", "entity_id", "at"}
             l == <<"at", "entity_id", "entity_type", "action", "actor_user_id">>
             N == {"at", "entity_id", "entity_type", "action", "actor_user_id"}
  <2>1. Metadata["audit_logs"] = Model(e, f, k, c)
    BY DeclaredIs DEF DeclaredByAudit
  <2>2. IsTuple(l) /\ Distinct(l) /\ RangeOf(l) = N
    BY Lists
  <2>3. N = c
    OBVIOUS
  <2> HIDE DEF e, f, k, c, l, N, T
  <2>4. HasParts(Metadata["audit_logs"], e, f, N)
    BY <2>1, <2>3, BodyIs
  <2>5. HasParts(Metadata["audit_logs"], e, f, RangeOf(l))
    BY <2>2, <2>4
  <2>6. /\ "audit_logs" = Order[26] /\ 25 \in 0 .. 25 /\ 26 = 25 + 1
       /\ 24 \in 0 .. 26 /\ 24 <= 25
    BY OrderIs
  <2>7. Unreferred(Metadata, 25, "audit_logs")
    BY <2>6, MetadataFits, LastIsUnreferred
  <2>8. Leads(NoIndexes("audit_logs", l) \o <<DropTable("audit_logs")>>,
              Cat(T, Tables(Metadata, 26)), Cat(T, Tables(Metadata, 25)))
    BY <2>2, <2>5, <2>6, <2>7, Goes
  <2> QED  BY <2>8 DEF l, i1, d1
<1>2. TypesTo(25) = T
  BY DEF TypesTo
<1> QED  BY <1>1, <1>2 DEF Downgrade, DropAuditLogs

\* 7aa22029ef2f.
LEMMA DownStories ==
  Leads(Downgrade[7], Cat(TypesTo(25), Tables(Metadata, 25)),
        Cat(TypesTo(24), Tables(Metadata, 24)))
<1> DEFINE T == TypesTo(25)
           d1 == <<DropTable("stories")>>
<1>1. Leads(d1, Cat(T, Tables(Metadata, 25)), Cat(T, Tables(Metadata, 24)))
  <2> HIDE DEF T
  <2>1. /\ "stories" = Order[25] /\ 24 \in 0 .. 25 /\ 25 = 24 + 1
       /\ 24 \in 0 .. 26 /\ 24 <= 24
    BY OrderIs
  <2>2. Unreferred(Metadata, 24, "stories")
    BY <2>1, MetadataFits, LastIsUnreferred
  <2>3. Leads(<<DropTable("stories")>>, Cat(T, Tables(Metadata, 25)), Cat(T, Tables(Metadata, 24)))
    BY <2>1, <2>2, GoesBare
  <2> QED  BY <2>3 DEF d1
<1>2. TypesTo(24) = T
  BY DEF TypesTo
<1> QED  BY <1>1, <1>2 DEF Downgrade, DropStories

\* 0005.
LEMMA DownBilling ==
  Leads(Downgrade[5], Cat(TypesTo(23), Tables(Filled, 23)),
        Cat(TypesTo(21), Tables(Filled, 21)))
<1> DEFINE T == TypesTo(23)
           i1 == NoIndexes("payments", <<"target_id", "user_id">>)
           d1 == <<DropTable("payments")>>
           d2 == <<DropTable("subscription_plans")>>
           q == NoEnums(<<"payment_kind", "payment_provider">>)
<1>1. /\ Filled["subscription_plans"] = Made["subscription_plans"]
      /\ Filled["payments"] = Made["payments"]
  <2>1. /\ "subscription_plans" \in First(26)
        /\ "payments" \in First(26)
    BY InFirst, OrderIs
  <2> QED  BY <2>1, FilledIs
<1>2. Leads(i1 \o d1, Cat(T, Tables(Filled, 23)), Cat(T, Tables(Filled, 22)))
  <2> DEFINE e == {"payment_kind", "payment_provider", "payment_status"}
             f == OfUser \cup {<<"plan_id", "subscription_plans", "SET NULL">>}
             k == {<<"external_ref">>}
             c == {"user_id", "target_id"}
             l == <<"target_id", "user_id">>
             N == {"target_id", "user_id"}
  <2>1. Filled["payments"] = Model(e, f, k, c)
    BY MadeIs, <1>1
  <2>2. IsTuple(l) /\ Distinct(l) /\ RangeOf(l) = N
    BY Lists
  <2>3. N = c
    OBVIOUS
  <2> HIDE DEF e, f, k, c, l, N, T
  <2>4. HasParts(Filled["payments"], e, f, N)
    BY <2>1, <2>3, BodyIs
  <2>5. HasParts(Filled["payments"], e, f, RangeOf(l))
    BY <2>2, <2>4
  <2>6. /\ "payments" = Order[23] /\ 22 \in 0 .. 25 /\ 23 = 22 + 1
       /\ 11 \in 0 .. 26 /\ 11 <= 22
    BY OrderIs
  <2>7. Unreferred(Filled, 22, "payments")
    BY <2>6, FilledFits, LastIsUnreferred
  <2>8. Leads(NoIndexes("payments", l) \o <<DropTable("payments")>>,
              Cat(T, Tables(Filled, 23)), Cat(T, Tables(Filled, 22)))
    BY <2>2, <2>5, <2>6, <2>7, Goes
  <2> QED  BY <2>8 DEF l, i1, d1
<1>3. Leads(d2, Cat(T, Tables(Filled, 22)), Cat(T, Tables(Filled, 21)))
  <2> HIDE DEF T
  <2>1. /\ "subscription_plans" = Order[22] /\ 21 \in 0 .. 25 /\ 22 = 21 + 1
       /\ 11 \in 0 .. 26 /\ 11 <= 21
    BY OrderIs
  <2>2. Unreferred(Filled, 21, "subscription_plans")
    BY <2>1, FilledFits, LastIsUnreferred
  <2>3. Leads(<<DropTable("subscription_plans")>>, Cat(T, Tables(Filled, 22)), Cat(T, Tables(Filled, 21)))
    BY <2>1, <2>2, GoesBare
  <2> QED  BY <2>3 DEF d2
<1>4. Leads(q, Cat(T, Tables(Filled, 21)), Cat(TypesTo(21), Tables(Filled, 21)))
  <2> DEFINE es == <<"payment_kind", "payment_provider">>
  <2>1. IsTuple(es) /\ RangeOf(es) = BillingTypes
    BY Lists DEF BillingTypes
  <2>2. /\ BillingTypes \cap TypesTo(21) = {} /\ TypesTo(21) = T \ BillingTypes
        /\ 11 \in 0 .. 26 /\ 21 \in 0 .. 26
    BY DEF TypesTo, AuthTypes, CustomerTypes, ErpTypes, SecondaryTypes, BillingTypes
  <2> HIDE DEF es, T
  <2>3. RangeOf(es) \cap TypesTo(21) = {} /\ TypesTo(21) = T \ RangeOf(es)
    BY <2>1, <2>2
  <2>4. Leads(NoEnums(es), Cat(T, Tables(Filled, 21)), Cat(TypesTo(21), Tables(Filled, 21)))
    BY <2>1, <2>2, <2>3, FilledFits, TypesGo
  <2> QED  BY <2>4 DEF es, q
<1>5. /\ IsScript(i1)
      /\ IsScript(d1)
      /\ IsScript(d2)
  <2>1. /\ \A a : IsTuple(<<a>>)
        /\ \A a, b : IsTuple(<<a, b>>)
        /\ \A a, b, c : IsTuple(<<a, b, c>>)
        /\ \A a, b, c, e : IsTuple(<<a, b, c, e>>)
    BY Lists
  <2> QED  BY <2>1, ScriptsAre
<1>6. Downgrade[5] = i1 \o (d1 \o d2) \o q
  BY Pair DEF Downgrade, DropBilling
<1> DEFINE c == Cat(T, Tables(Filled, 23))
           e == Cat(TypesTo(21), Tables(Filled, 21))
<1>7. Leads(i1 \o d1, c, Cat(T, Tables(Filled, 22))) /\ Leads(q, Cat(T, Tables(Filled, 21)), e)
  BY <1>2, <1>4
<1> HIDE DEF T, i1, d1, d2, q, c, e
<1>8. i1 \o (d1 \o d2) = i1 \o d1 \o d2
  BY <1>5, Regroup DEF Regroups
<1>9. Leads(i1 \o d1 \o d2, c, Cat(T, Tables(Filled, 21)))
  BY <1>3, <1>7, ThenLeads
<1>10. Leads(i1 \o d1 \o d2 \o q, c, e)
  BY <1>7, <1>9, ThenLeads
<1>11. Leads(Downgrade[5], c, e)
  BY <1>6, <1>8, <1>10
<1> QED  BY <1>11 DEF c, e, T

\* 0002.
LEMMA DownCustomer ==
  Leads(Downgrade[2], Cat(TypesTo(8), Tables(Made, 8)), Cat(TypesTo(2), Tables(Made, 2)))
<1> DEFINE T == TypesTo(8)
           i1 == NoIndexes("devices", <<"user_id">>)
           d1 == <<DropTable("devices")>>
           i2 == NoIndexes("notifications", <<"read_at", "kind", "user_id">>)
           d2 == <<DropTable("notifications")>>
           i3 == NoIndexes("content_pages", <<"kind">>)
           d3 == <<DropTable("content_pages")>>
           i4 == NoIndexes("reviews", <<"center_id", "user_id">>)
           d4 == <<DropTable("reviews")>>
           i5 == NoIndexes("mileage_readings", <<"recorded_at", "car_id">>)
           d5 == <<DropTable("mileage_readings")>>
           i6 == NoIndexes("cars", <<"owner_id">>)
           d6 == <<DropTable("cars")>>
           q == NoEnums(<<"device_platform", "content_kind",
                    "mileage_source", "plate_type">>)
<1>1. Leads(i1 \o d1, Cat(T, Tables(Made, 8)), Cat(T, Tables(Made, 7)))
  <2> DEFINE e == {"device_platform"}
             f == OfUser
             k == {<<"user_id", "token">>}
             c == {"user_id"}
             l == <<"user_id">>
             N == {"user_id"}
  <2>1. Made["devices"] = Model(e, f, k, c)
    BY MadeIs
  <2>2. IsTuple(l) /\ Distinct(l) /\ RangeOf(l) = N
    BY Lists
  <2>3. N = c
    OBVIOUS
  <2> HIDE DEF e, f, k, c, l, N, T
  <2>4. HasParts(Made["devices"], e, f, N)
    BY <2>1, <2>3, BodyIs
  <2>5. HasParts(Made["devices"], e, f, RangeOf(l))
    BY <2>2, <2>4
  <2>6. /\ "devices" = Order[8] /\ 7 \in 0 .. 25 /\ 8 = 7 + 1
       /\ 0 \in 0 .. 26 /\ 0 <= 7
    BY OrderIs
  <2>7. Unreferred(Made, 7, "devices")
    BY <2>6, MadeFits, LastIsUnreferred
  <2>8. Leads(NoIndexes("devices", l) \o <<DropTable("devices")>>,
              Cat(T, Tables(Made, 8)), Cat(T, Tables(Made, 7)))
    BY <2>2, <2>5, <2>6, <2>7, Goes
  <2> QED  BY <2>8 DEF l, i1, d1
<1>2. Leads(i2 \o d2, Cat(T, Tables(Made, 7)), Cat(T, Tables(Made, 6)))
  <2> DEFINE e == {}
             f == OfUser
             k == {}
             c == {"user_id", "kind"}
             x == <<"read_at", <<"user_id", "read_at">>>>
             l == <<"read_at", "kind", "user_id">>
             N == {"read_at", "kind", "user_id"}
  <2>1. Made["notifications"] = Indexing(Model(e, f, k, c), {x})
    BY MadeIs
  <2>2. IsTuple(l) /\ Distinct(l) /\ RangeOf(l) = N
    BY Lists
  <2>3. N = c \cup {x[1]}
    OBVIOUS
  <2> HIDE DEF e, f, k, c, l, N, T, x
  <2>4. HasParts(Made["notifications"], e, f, N)
    BY <2>1, <2>3, IndexedIs
  <2>5. HasParts(Made["notifications"], e, f, RangeOf(l))
    BY <2>2, <2>4
  <2>6. /\ "notifications" = Order[7] /\ 6 \in 0 .. 25 /\ 7 = 6 + 1
       /\ 0 \in 0 .. 26 /\ 0 <= 6
    BY OrderIs
  <2>7. Unreferred(Made, 6, "notifications")
    BY <2>6, MadeFits, LastIsUnreferred
  <2>8. Leads(NoIndexes("notifications", l) \o <<DropTable("notifications")>>,
              Cat(T, Tables(Made, 7)), Cat(T, Tables(Made, 6)))
    BY <2>2, <2>5, <2>6, <2>7, Goes
  <2> QED  BY <2>8 DEF l, i2, d2
<1>3. Leads(i3 \o d3, Cat(T, Tables(Made, 6)), Cat(T, Tables(Made, 5)))
  <2> DEFINE e == {"content_kind"}
             f == {}
             k == {<<"kind", "lang", "slug">>}
             c == {"kind"}
             l == <<"kind">>
             N == {"kind"}
  <2>1. Made["content_pages"] = Model(e, f, k, c)
    BY MadeIs
  <2>2. IsTuple(l) /\ Distinct(l) /\ RangeOf(l) = N
    BY Lists
  <2>3. N = c
    OBVIOUS
  <2> HIDE DEF e, f, k, c, l, N, T
  <2>4. HasParts(Made["content_pages"], e, f, N)
    BY <2>1, <2>3, BodyIs
  <2>5. HasParts(Made["content_pages"], e, f, RangeOf(l))
    BY <2>2, <2>4
  <2>6. /\ "content_pages" = Order[6] /\ 5 \in 0 .. 25 /\ 6 = 5 + 1
       /\ 0 \in 0 .. 26 /\ 0 <= 5
    BY OrderIs
  <2>7. Unreferred(Made, 5, "content_pages")
    BY <2>6, MadeFits, LastIsUnreferred
  <2>8. Leads(NoIndexes("content_pages", l) \o <<DropTable("content_pages")>>,
              Cat(T, Tables(Made, 6)), Cat(T, Tables(Made, 5)))
    BY <2>2, <2>5, <2>6, <2>7, Goes
  <2> QED  BY <2>8 DEF l, i3, d3
<1>4. Leads(i4 \o d4, Cat(T, Tables(Made, 5)), Cat(T, Tables(Made, 4)))
  <2> DEFINE e == {}
             f == OfUser
             k == {}
             c == {"user_id", "center_id"}
             l == <<"center_id", "user_id">>
             N == {"center_id", "user_id"}
  <2>1. Made["reviews"] = Model(e, f, k, c)
    BY MadeIs
  <2>2. IsTuple(l) /\ Distinct(l) /\ RangeOf(l) = N
    BY Lists
  <2>3. N = c
    OBVIOUS
  <2> HIDE DEF e, f, k, c, l, N, T
  <2>4. HasParts(Made["reviews"], e, f, N)
    BY <2>1, <2>3, BodyIs
  <2>5. HasParts(Made["reviews"], e, f, RangeOf(l))
    BY <2>2, <2>4
  <2>6. /\ "reviews" = Order[5] /\ 4 \in 0 .. 25 /\ 5 = 4 + 1
       /\ 0 \in 0 .. 26 /\ 0 <= 4
    BY OrderIs
  <2>7. Unreferred(Made, 4, "reviews")
    BY <2>6, MadeFits, LastIsUnreferred
  <2>8. Leads(NoIndexes("reviews", l) \o <<DropTable("reviews")>>,
              Cat(T, Tables(Made, 5)), Cat(T, Tables(Made, 4)))
    BY <2>2, <2>5, <2>6, <2>7, Goes
  <2> QED  BY <2>8 DEF l, i4, d4
<1>5. Leads(i5 \o d5, Cat(T, Tables(Made, 4)), Cat(T, Tables(Made, 3)))
  <2> DEFINE e == {"mileage_source"}
             f == {<<"car_id", "cars", "CASCADE">>}
             k == {}
             c == {"car_id"}
             x == <<"recorded_at", <<"car_id", "recorded_at">>>>
             l == <<"recorded_at", "car_id">>
             N == {"recorded_at", "car_id"}
  <2>1. Made["mileage_readings"] = Indexing(Model(e, f, k, c), {x})
    BY MadeIs
  <2>2. IsTuple(l) /\ Distinct(l) /\ RangeOf(l) = N
    BY Lists
  <2>3. N = c \cup {x[1]}
    OBVIOUS
  <2> HIDE DEF e, f, k, c, l, N, T, x
  <2>4. HasParts(Made["mileage_readings"], e, f, N)
    BY <2>1, <2>3, IndexedIs
  <2>5. HasParts(Made["mileage_readings"], e, f, RangeOf(l))
    BY <2>2, <2>4
  <2>6. /\ "mileage_readings" = Order[4] /\ 3 \in 0 .. 25 /\ 4 = 3 + 1
       /\ 0 \in 0 .. 26 /\ 0 <= 3
    BY OrderIs
  <2>7. Unreferred(Made, 3, "mileage_readings")
    BY <2>6, MadeFits, LastIsUnreferred
  <2>8. Leads(NoIndexes("mileage_readings", l) \o <<DropTable("mileage_readings")>>,
              Cat(T, Tables(Made, 4)), Cat(T, Tables(Made, 3)))
    BY <2>2, <2>5, <2>6, <2>7, Goes
  <2> QED  BY <2>8 DEF l, i5, d5
<1>6. Leads(i6 \o d6, Cat(T, Tables(Made, 3)), Cat(T, Tables(Made, 2)))
  <2> DEFINE e == {"plate_type"}
             f == {<<"owner_id", "users", "CASCADE">>}
             k == {<<"plate">>, <<"vin">>}
             c == {"owner_id"}
             l == <<"owner_id">>
             N == {"owner_id"}
  <2>1. Made["cars"] = Model(e, f, k, c)
    BY MadeIs
  <2>2. IsTuple(l) /\ Distinct(l) /\ RangeOf(l) = N
    BY Lists
  <2>3. N = c
    OBVIOUS
  <2> HIDE DEF e, f, k, c, l, N, T
  <2>4. HasParts(Made["cars"], e, f, N)
    BY <2>1, <2>3, BodyIs
  <2>5. HasParts(Made["cars"], e, f, RangeOf(l))
    BY <2>2, <2>4
  <2>6. /\ "cars" = Order[3] /\ 2 \in 0 .. 25 /\ 3 = 2 + 1
       /\ 0 \in 0 .. 26 /\ 0 <= 2
    BY OrderIs
  <2>7. Unreferred(Made, 2, "cars")
    BY <2>6, MadeFits, LastIsUnreferred
  <2>8. Leads(NoIndexes("cars", l) \o <<DropTable("cars")>>,
              Cat(T, Tables(Made, 3)), Cat(T, Tables(Made, 2)))
    BY <2>2, <2>5, <2>6, <2>7, Goes
  <2> QED  BY <2>8 DEF l, i6, d6
<1>7. Leads(q, Cat(T, Tables(Made, 2)), Cat(TypesTo(2), Tables(Made, 2)))
  <2> DEFINE es == <<"device_platform", "content_kind", "mileage_source",
                    "plate_type">>
  <2>1. IsTuple(es) /\ RangeOf(es) = CustomerTypes
    BY Lists DEF CustomerTypes
  <2>2. /\ CustomerTypes \cap TypesTo(2) = {} /\ TypesTo(2) = T \ CustomerTypes
        /\ 0 \in 0 .. 26 /\ 2 \in 0 .. 26
    BY DEF TypesTo, AuthTypes, CustomerTypes, ErpTypes, SecondaryTypes, BillingTypes
  <2> HIDE DEF es, T
  <2>3. RangeOf(es) \cap TypesTo(2) = {} /\ TypesTo(2) = T \ RangeOf(es)
    BY <2>1, <2>2
  <2>4. Leads(NoEnums(es), Cat(T, Tables(Made, 2)), Cat(TypesTo(2), Tables(Made, 2)))
    BY <2>1, <2>2, <2>3, MadeFits, TypesGo
  <2> QED  BY <2>4 DEF es, q
<1>8. /\ IsScript(i1)
      /\ IsScript(i2)
      /\ IsScript(i3)
      /\ IsScript(i4)
      /\ IsScript(i5)
      /\ IsScript(i6)
      /\ IsScript(d1)
      /\ IsScript(d2)
      /\ IsScript(d3)
      /\ IsScript(d4)
      /\ IsScript(d5)
      /\ IsScript(d6)
  <2>1. /\ \A a : IsTuple(<<a>>)
        /\ \A a, b : IsTuple(<<a, b>>)
        /\ \A a, b, c : IsTuple(<<a, b, c>>)
        /\ \A a, b, c, e : IsTuple(<<a, b, c, e>>)
    BY Lists
  <2> QED  BY <2>1, ScriptsAre
<1>9. Downgrade[2] = i1 \o d1 \o i2 \o d2 \o i3 \o d3 \o i4 \o d4 \o i5 \o d5 \o i6 \o d6 \o q
  BY DEF Downgrade, DropCustomerCore
<1> DEFINE c == Cat(T, Tables(Made, 8))
           e == Cat(TypesTo(2), Tables(Made, 2))
<1>10. Leads(i1 \o d1, c, Cat(T, Tables(Made, 7))) /\ Leads(q, Cat(T, Tables(Made, 2)), e)
  BY <1>1, <1>7
<1> HIDE DEF T, i1, d1, i2, d2, i3, d3, i4, d4, i5, d5, i6, d6, q, c, e
<1> DEFINE y1 == i1 \o d1
<1>11. Leads(y1, c, Cat(T, Tables(Made, 7)))
  BY <1>10
<1> HIDE DEF y1
<1>12. Leads(y1 \o i2 \o d2, c, Cat(T, Tables(Made, 6)))
  BY <1>2, <1>11, <1>8, BlockLeads
<1> DEFINE y2 == y1 \o i2 \o d2
<1>13. Leads(y2, c, Cat(T, Tables(Made, 6)))
  BY <1>12
<1> HIDE DEF y2
<1>14. Leads(y2 \o i3 \o d3, c, Cat(T, Tables(Made, 5)))
  BY <1>3, <1>13, <1>8, BlockLeads
<1> DEFINE y3 == y2 \o i3 \o d3
<1>15. Leads(y3, c, Cat(T, Tables(Made, 5)))
  BY <1>14
<1> HIDE DEF y3
<1>16. Leads(y3 \o i4 \o d4, c, Cat(T, Tables(Made, 4)))
  BY <1>4, <1>15, <1>8, BlockLeads
<1> DEFINE y4 == y3 \o i4 \o d4
<1>17. Leads(y4, c, Cat(T, Tables(Made, 4)))
  BY <1>16
<1> HIDE DEF y4
<1>18. Leads(y4 \o i5 \o d5, c, Cat(T, Tables(Made, 3)))
  BY <1>5, <1>17, <1>8, BlockLeads
<1> DEFINE y5 == y4 \o i5 \o d5
<1>19. Leads(y5, c, Cat(T, Tables(Made, 3)))
  BY <1>18
<1> HIDE DEF y5
<1>20. Leads(y5 \o i6 \o d6, c, Cat(T, Tables(Made, 2)))
  BY <1>6, <1>19, <1>8, BlockLeads
<1>21. Leads(y5 \o i6 \o d6 \o q, c, e)
  BY <1>10, <1>20, ThenLeads
<1>22. Leads(Downgrade[2], c, e)
  BY <1>9, <1>21 DEF y1, y2, y3, y4, y5
<1> QED  BY <1>22 DEF c, e, T

\* 0001.
LEMMA DownAuth ==
  Leads(Downgrade[1], Cat(TypesTo(2), Tables(Made, 2)), Cat({}, Tables(Made, 0)))
<1> DEFINE T == TypesTo(2)
           i1 == NoIndexes("refresh_tokens", <<"expires_at", "user_id">>)
           d1 == <<DropTable("refresh_tokens")>>
           i2 == NoIndexes("users", <<"center_id", "role", "email">>)
           d2 == <<DropTable("users")>>
           q == <<DropEnum("user_role")>>
<1>1. Leads(i1 \o d1, Cat(T, Tables(Made, 2)), Cat(T, Tables(Made, 1)))
  <2> DEFINE e == {}
             f == OfUser
             k == {<<"token_hash">>}
             c == {"user_id", "expires_at"}
             l == <<"expires_at", "user_id">>
             N == {"expires_at", "user_id"}
  <2>1. Made["refresh_tokens"] = Model(e, f, k, c)
    BY MadeIs
  <2>2. IsTuple(l) /\ Distinct(l) /\ RangeOf(l) = N
    BY Lists
  <2>3. N = c
    OBVIOUS
  <2> HIDE DEF e, f, k, c, l, N, T
  <2>4. HasParts(Made["refresh_tokens"], e, f, N)
    BY <2>1, <2>3, BodyIs
  <2>5. HasParts(Made["refresh_tokens"], e, f, RangeOf(l))
    BY <2>2, <2>4
  <2>6. /\ "refresh_tokens" = Order[2] /\ 1 \in 0 .. 25 /\ 2 = 1 + 1
       /\ 0 \in 0 .. 26 /\ 0 <= 1
    BY OrderIs
  <2>7. Unreferred(Made, 1, "refresh_tokens")
    BY <2>6, MadeFits, LastIsUnreferred
  <2>8. Leads(NoIndexes("refresh_tokens", l) \o <<DropTable("refresh_tokens")>>,
              Cat(T, Tables(Made, 2)), Cat(T, Tables(Made, 1)))
    BY <2>2, <2>5, <2>6, <2>7, Goes
  <2> QED  BY <2>8 DEF l, i1, d1
<1>2. Leads(i2 \o d2, Cat(T, Tables(Made, 1)), Cat(T, Tables(Made, 0)))
  <2> DEFINE e == {"user_role"}
             f == {}
             k == {<<"phone">>}
             c == {"email", "role", "center_id"}
             l == <<"center_id", "role", "email">>
             N == {"center_id", "role", "email"}
  <2>1. Made["users"] = Model(e, f, k, c)
    BY MadeIs
  <2>2. IsTuple(l) /\ Distinct(l) /\ RangeOf(l) = N
    BY Lists
  <2>3. N = c
    OBVIOUS
  <2> HIDE DEF e, f, k, c, l, N, T
  <2>4. HasParts(Made["users"], e, f, N)
    BY <2>1, <2>3, BodyIs
  <2>5. HasParts(Made["users"], e, f, RangeOf(l))
    BY <2>2, <2>4
  <2>6. /\ "users" = Order[1] /\ 0 \in 0 .. 25 /\ 1 = 0 + 1
       /\ 0 \in 0 .. 26 /\ 0 <= 0
    BY OrderIs
  <2>7. Unreferred(Made, 0, "users")
    BY <2>6, MadeFits, LastIsUnreferred
  <2>8. Leads(NoIndexes("users", l) \o <<DropTable("users")>>,
              Cat(T, Tables(Made, 1)), Cat(T, Tables(Made, 0)))
    BY <2>2, <2>5, <2>6, <2>7, Goes
  <2> QED  BY <2>8 DEF l, i2, d2
<1>3. Leads(q, Cat(T, Tables(Made, 0)), Cat({}, Tables(Made, 0)))
  <2> DEFINE f == Tables(Made, 0)
  <2>1. \A t \in DOMAIN f : "user_role" \notin f[t].enums
    BY DEF Tables, First
  <2> HIDE DEF f
  <2>2. Step(Cat(T, f), DropEnum("user_role")) = Cat(T \ {"user_role"}, f)
    BY <2>1, TypeSteps
  <2>3. T \ {"user_role"} = {}
    BY DEF TypesTo, AuthTypes
  <2>4. IsOp(DropEnum("user_role"))
    BY DEF IsOp, Kinds, DropEnum
  <2> HIDE DEF T
  <2>5. Leads(q, Cat(T, f), Cat({}, f))
    BY <2>2, <2>3, <2>4, OneLeads
  <2> QED  BY <2>5 DEF f
<1>4. /\ IsScript(i1)
      /\ IsScript(i2)
      /\ IsScript(d1)
      /\ IsScript(d2)
  <2>1. /\ \A a : IsTuple(<<a>>)
        /\ \A a, b : IsTuple(<<a, b>>)
        /\ \A a, b, c : IsTuple(<<a, b, c>>)
        /\ \A a, b, c, e : IsTuple(<<a, b, c, e>>)
    BY Lists
  <2> QED  BY <2>1, ScriptsAre
<1>5. Downgrade[1] = i1 \o d1 \o i2 \o (d2 \o q)
  BY Pair DEF Downgrade, DropAuth
<1> DEFINE c == Cat(T, Tables(Made, 2))
           e == Cat({}, Tables(Made, 0))
<1>6. Leads(i1 \o d1, c, Cat(T, Tables(Made, 1))) /\ Leads(q, Cat(T, Tables(Made, 0)), e)
  BY <1>1, <1>3
<1> HIDE DEF T, i1, d1, i2, d2, q, c, e
<1> DEFINE x == i1 \o d1
<1>7. Leads(x, c, Cat(T, Tables(Made, 1))) /\ IsScript(x)
  BY <1>6 DEF Leads
<1> HIDE DEF x
<1>8. Leads(x \o i2 \o d2, c, Cat(T, Tables(Made, 0)))
  BY <1>2, <1>4, <1>7, BlockLeads
<1>9. Leads(x \o i2 \o d2 \o q, c, e)
  BY <1>6, <1>8, ThenLeads
<1> DEFINE y == x \o i2
<1>10. IsScript(y) /\ IsScript(q)
  BY <1>4, <1>6, <1>7, Concat DEF Leads
<1> HIDE DEF y
<1>11. y \o d2 \o q = y \o (d2 \o q)
  BY <1>4, <1>10, Regroup DEF Regroups
<1>12. Leads(Downgrade[1], c, e)
  BY <1>5, <1>9, <1>11 DEF x, y
<1> QED  BY <1>12 DEF c, e, T

\* A tuple in other parentheses.
OneByOne(s, a, b, d, e) == s = <<a>> \o <<b>> \o <<d>> \o <<e>>

\* The same tuple, by its elements.
LEMMA Quadruple ==
  ASSUME NEW a, NEW b, NEW d, NEW e  PROVE OneByOne(<<a, b, d, e>>, a, b, d, e)
<1> DEFINE V == {a, b, d, e}
           x == <<a, b, d>> \o <<e>>
           y == <<a, b, d, e>>
<1>1. <<a, b, d>> \in Seq(V) /\ <<e>> \in Seq(V) /\ y \in Seq(V)
  OBVIOUS
<1>2. /\ Len(<<a, b, d>>) = 3 /\ Len(<<e>>) = 1 /\ Len(y) = 4
      /\ y[1] = a /\ y[2] = b /\ y[3] = d /\ y[4] = e
  OBVIOUS
<1>3. x \in Seq(V) /\ Len(x) = 4 /\ x[1] = a /\ x[2] = b /\ x[3] = d /\ x[4] = e
  BY <1>1, <1>2
<1> HIDE DEF x, y
<1>4. x = y
  <2>1. \A i \in 1 .. 4 : x[i] = y[i]
    BY <1>2, <1>3
  <2> QED  BY <1>1, <1>2, <1>3, <2>1
<1>5. <<a, b, d>> = <<a>> \o <<b>> \o <<d>>
  BY Triple
<1> QED  BY <1>4, <1>5 DEF x, y, OneByOne

\* 0004.
LEMMA DownSecondary ==
  Leads(Downgrade[4], Cat(TypesTo(21), Tables(Filled, 21)),
        Cat(TypesTo(14), Tables(Filled, 14)))
<1> DEFINE T == TypesTo(21)
           i1 == NoIndexes("insurance_policies", <<"user_id">>)
           d1 == <<DropTable("insurance_policies")>>
           i2 == NoIndexes("sos_requests", <<"user_id">>)
           d2 == <<DropTable("sos_requests")>>
           i3 == NoIndexes("sos_providers", <<"city", "category">>)
           d3 == <<DropTable("sos_providers")>>
           i4 == NoIndexes("trip_points", <<"trip_id">>)
           d4 == <<DropTable("trip_points")>>
           i5 == NoIndexes("trips", <<"car_id", "user_id">>)
           d5 == <<DropTable("trips")>>
           d6 == <<DropTable("insurance_tariffs")>>
           p == <<DropIndexIfExists("fuel_stations", "location")>>
           d7 == <<DropTable("fuel_stations")>>
           q == NoEnums(<<"payment_status", "sos_request_status",
                    "sos_category">>)
<1>1. /\ Filled["trips"] = Made["trips"]
      /\ Filled["trip_points"] = Made["trip_points"]
      /\ Filled["sos_providers"] = Made["sos_providers"]
      /\ Filled["sos_requests"] = Made["sos_requests"]
      /\ Filled["fuel_stations"] = Made["fuel_stations"]
      /\ Filled["insurance_tariffs"] = Made["insurance_tariffs"]
      /\ Filled["insurance_policies"] = Made["insurance_policies"]
  <2>1. /\ "trips" \in First(26)
        /\ "trip_points" \in First(26)
        /\ "sos_providers" \in First(26)
        /\ "sos_requests" \in First(26)
        /\ "fuel_stations" \in First(26)
        /\ "insurance_tariffs" \in First(26)
        /\ "insurance_policies" \in First(26)
    BY InFirst, OrderIs
  <2> QED  BY <2>1, FilledIs
<1>2. Leads(i1 \o d1, Cat(T, Tables(Filled, 21)), Cat(T, Tables(Filled, 20)))
  <2> DEFINE e == {"payment_status"}
             f == OfUser \cup {<<"car_id", "cars", "RESTRICT">>, <<"tariff_id",
                  "insurance_tariffs", "RESTRICT">>}
             k == {}
             c == {"user_id"}
             l == <<"user_id">>
             N == {"user_id"}
  <2>1. Filled["insurance_policies"] = Model(e, f, k, c)
    BY MadeIs, <1>1
  <2>2. IsTuple(l) /\ Distinct(l) /\ RangeOf(l) = N
    BY Lists
  <2>3. N = c
    OBVIOUS
  <2> HIDE DEF e, f, k, c, l, N, T
  <2>4. HasParts(Filled["insurance_policies"], e, f, N)
    BY <2>1, <2>3, BodyIs
  <2>5. HasParts(Filled["insurance_policies"], e, f, RangeOf(l))
    BY <2>2, <2>4
  <2>6. /\ "insurance_policies" = Order[21] /\ 20 \in 0 .. 25 /\ 21 = 20 + 1
       /\ 11 \in 0 .. 26 /\ 11 <= 20
    BY OrderIs
  <2>7. Unreferred(Filled, 20, "insurance_policies")
    BY <2>6, FilledFits, LastIsUnreferred
  <2>8. Leads(NoIndexes("insurance_policies", l) \o <<DropTable("insurance_policies")>>,
              Cat(T, Tables(Filled, 21)), Cat(T, Tables(Filled, 20)))
    BY <2>2, <2>5, <2>6, <2>7, Goes
  <2> QED  BY <2>8 DEF l, i1, d1
<1>3. Leads(i2 \o d2, Cat(T, Tables(Filled, 18)), Cat(T, Tables(Filled, 17)))
  <2> DEFINE e == {"sos_request_status"}
             f == OfUser \cup {<<"provider_id", "sos_providers", "SET NULL">>}
             k == {}
             c == {"user_id"}
             l == <<"user_id">>
             N == {"user_id"}
  <2>1. Filled["sos_requests"] = Model(e, f, k, c)
    BY MadeIs, <1>1
  <2>2. IsTuple(l) /\ Distinct(l) /\ RangeOf(l) = N
    BY Lists
  <2>3. N = c
    OBVIOUS
  <2> HIDE DEF e, f, k, c, l, N, T
  <2>4. HasParts(Filled["sos_requests"], e, f, N)
    BY <2>1, <2>3, BodyIs
  <2>5. HasParts(Filled["sos_requests"], e, f, RangeOf(l))
    BY <2>2, <2>4
  <2>6. /\ "sos_requests" = Order[18] /\ 17 \in 0 .. 25 /\ 18 = 17 + 1
       /\ 11 \in 0 .. 26 /\ 11 <= 17
    BY OrderIs
  <2>7. Unreferred(Filled, 17, "sos_requests")
    BY <2>6, FilledFits, LastIsUnreferred
  <2>8. Leads(NoIndexes("sos_requests", l) \o <<DropTable("sos_requests")>>,
              Cat(T, Tables(Filled, 18)), Cat(T, Tables(Filled, 17)))
    BY <2>2, <2>5, <2>6, <2>7, Goes
  <2> QED  BY <2>8 DEF l, i2, d2
<1>4. Leads(i3 \o d3, Cat(T, Tables(Filled, 17)), Cat(T, Tables(Filled, 16)))
  <2> DEFINE e == {"sos_category"}
             f == {}
             k == {}
             c == {"category", "city"}
             l == <<"city", "category">>
             N == {"city", "category"}
  <2>1. Filled["sos_providers"] = Model(e, f, k, c)
    BY MadeIs, <1>1
  <2>2. IsTuple(l) /\ Distinct(l) /\ RangeOf(l) = N
    BY Lists
  <2>3. N = c
    OBVIOUS
  <2> HIDE DEF e, f, k, c, l, N, T
  <2>4. HasParts(Filled["sos_providers"], e, f, N)
    BY <2>1, <2>3, BodyIs
  <2>5. HasParts(Filled["sos_providers"], e, f, RangeOf(l))
    BY <2>2, <2>4
  <2>6. /\ "sos_providers" = Order[17] /\ 16 \in 0 .. 25 /\ 17 = 16 + 1
       /\ 11 \in 0 .. 26 /\ 11 <= 16
    BY OrderIs
  <2>7. Unreferred(Filled, 16, "sos_providers")
    BY <2>6, FilledFits, LastIsUnreferred
  <2>8. Leads(NoIndexes("sos_providers", l) \o <<DropTable("sos_providers")>>,
              Cat(T, Tables(Filled, 17)), Cat(T, Tables(Filled, 16)))
    BY <2>2, <2>5, <2>6, <2>7, Goes
  <2> QED  BY <2>8 DEF l, i3, d3
<1>5. Leads(i4 \o d4, Cat(T, Tables(Filled, 16)), Cat(T, Tables(Filled, 15)))
  <2> DEFINE e == {}
             f == {<<"trip_id", "trips", "CASCADE">>}
             k == {}
             c == {"trip_id"}
             l == <<"trip_id">>
             N == {"trip_id"}
  <2>1. Filled["trip_points"] = Model(e, f, k, c)
    BY MadeIs, <1>1
  <2>2. IsTuple(l) /\ Distinct(l) /\ RangeOf(l) = N
    BY Lists
  <2>3. N = c
    OBVIOUS
  <2> HIDE DEF e, f, k, c, l, N, T
  <2>4. HasParts(Filled["trip_points"], e, f, N)
    BY <2>1, <2>3, BodyIs
  <2>5. HasParts(Filled["trip_points"], e, f, RangeOf(l))
    BY <2>2, <2>4
  <2>6. /\ "trip_points" = Order[16] /\ 15 \in 0 .. 25 /\ 16 = 15 + 1
       /\ 11 \in 0 .. 26 /\ 11 <= 15
    BY OrderIs
  <2>7. Unreferred(Filled, 15, "trip_points")
    BY <2>6, FilledFits, LastIsUnreferred
  <2>8. Leads(NoIndexes("trip_points", l) \o <<DropTable("trip_points")>>,
              Cat(T, Tables(Filled, 16)), Cat(T, Tables(Filled, 15)))
    BY <2>2, <2>5, <2>6, <2>7, Goes
  <2> QED  BY <2>8 DEF l, i4, d4
<1>6. Leads(i5 \o d5, Cat(T, Tables(Filled, 15)), Cat(T, Tables(Filled, 14)))
  <2> DEFINE e == {}
             f == OfUser \cup {<<"car_id", "cars", "SET NULL">>}
             k == {}
             c == {"user_id", "car_id"}
             l == <<"car_id", "user_id">>
             N == {"car_id", "user_id"}
  <2>1. Filled["trips"] = Model(e, f, k, c)
    BY MadeIs, <1>1
  <2>2. IsTuple(l) /\ Distinct(l) /\ RangeOf(l) = N
    BY Lists
  <2>3. N = c
    OBVIOUS
  <2> HIDE DEF e, f, k, c, l, N, T
  <2>4. HasParts(Filled["trips"], e, f, N)
    BY <2>1, <2>3, BodyIs
  <2>5. HasParts(Filled["trips"], e, f, RangeOf(l))
    BY <2>2, <2>4
  <2>6. /\ "trips" = Order[15] /\ 14 \in 0 .. 25 /\ 15 = 14 + 1
       /\ 11 \in 0 .. 26 /\ 11 <= 14
    BY OrderIs
  <2>7. Unreferred(Filled, 14, "trips")
    BY <2>6, FilledFits, LastIsUnreferred
  <2>8. Leads(NoIndexes("trips", l) \o <<DropTable("trips")>>,
              Cat(T, Tables(Filled, 15)), Cat(T, Tables(Filled, 14)))
    BY <2>2, <2>5, <2>6, <2>7, Goes
  <2> QED  BY <2>8 DEF l, i5, d5
<1>7. Leads(d6, Cat(T, Tables(Filled, 20)), Cat(T, Tables(Filled, 19)))
  <2> HIDE DEF T
  <2>1. /\ "insurance_tariffs" = Order[20] /\ 19 \in 0 .. 25 /\ 20 = 19 + 1
       /\ 11 \in 0 .. 26 /\ 11 <= 19
    BY OrderIs
  <2>2. Unreferred(Filled, 19, "insurance_tariffs")
    BY <2>1, FilledFits, LastIsUnreferred
  <2>3. Leads(<<DropTable("insurance_tariffs")>>, Cat(T, Tables(Filled, 20)), Cat(T, Tables(Filled, 19)))
    BY <2>1, <2>2, GoesBare
  <2> QED  BY <2>3 DEF d6
<1>8. Leads(p \o d7, Cat(T, Tables(Filled, 19)), Cat(T, Tables(Filled, 18)))
  <2> DEFINE e == {}
             f == {}
             k == {}
             c == {}
             a == "location"
  <2>1. Filled["fuel_stations"] = Model(e, f, k, c)
    BY MadeIs, <1>1
  <2>2. a \notin c
    OBVIOUS
  <2> HIDE DEF e, f, k, c, a, T
  <2>3. HasParts(Filled["fuel_stations"], e, f, c)
    BY <2>1, BodyIs
  <2>4. DOMAIN Filled = First(26)
    BY FilledIs
  <2>5. /\ "fuel_stations" = Order[19] /\ 18 \in 0 .. 25 /\ 19 = 18 + 1
       /\ 11 \in 0 .. 26 /\ 11 <= 18
    BY OrderIs
  <2>6. Unreferred(Filled, 18, "fuel_stations")
    BY <2>5, FilledFits, LastIsUnreferred
  <2> DEFINE D == Bared(Filled, "fuel_stations", a)
  <2>7. Bares(T, Filled, 18, 19, "fuel_stations", a, e, f, c)
    BY <2>2, <2>3, <2>4, <2>5, <2>6, IndexGoes
  <2>8. /\ Leads(<<DropIndexIfExists("fuel_stations", a)>>,
                 Cat(T, Tables(Filled, 19)), Cat(T, Tables(D, 19)))
        /\ Tables(D, 18) = Tables(Filled, 18) /\ Unreferred(D, 18, "fuel_stations")
        /\ HasParts(D["fuel_stations"], e, f, c)
    BY <2>7 DEF Bares
  <2> HIDE DEF D
  <2>9. Leads(<<DropTable("fuel_stations")>>, Cat(T, Tables(D, 19)), Cat(T, Tables(D, 18)))
    BY <2>5, <2>8, GoesBare
  <2>10. Leads(d7, Cat(T, Tables(D, 19)), Cat(T, Tables(Filled, 18)))
    BY <2>8, <2>9 DEF d7
  <2>11. Leads(p, Cat(T, Tables(Filled, 19)), Cat(T, Tables(D, 19)))
    BY <2>8 DEF a, p
  <2> HIDE DEF p, d7
  <2> QED  BY <2>10, <2>11, ThenLeads
<1>9. Leads(q, Cat(T, Tables(Filled, 14)), Cat(TypesTo(14), Tables(Filled, 14)))
  <2> DEFINE es == <<"payment_status", "sos_request_status", "sos_category">>
  <2>1. IsTuple(es) /\ RangeOf(es) = SecondaryTypes
    BY Lists DEF SecondaryTypes
  <2>2. /\ SecondaryTypes \cap TypesTo(14) = {} /\ TypesTo(14) = T \ SecondaryTypes
        /\ 11 \in 0 .. 26 /\ 14 \in 0 .. 26
    BY DEF TypesTo, AuthTypes, CustomerTypes, ErpTypes, SecondaryTypes, BillingTypes
  <2> HIDE DEF es, T
  <2>3. RangeOf(es) \cap TypesTo(14) = {} /\ TypesTo(14) = T \ RangeOf(es)
    BY <2>1, <2>2
  <2>4. Leads(NoEnums(es), Cat(T, Tables(Filled, 14)), Cat(TypesTo(14), Tables(Filled, 14)))
    BY <2>1, <2>2, <2>3, FilledFits, TypesGo
  <2> QED  BY <2>4 DEF es, q
<1>10. /\ IsScript(i1)
      /\ IsScript(i2)
      /\ IsScript(i3)
      /\ IsScript(i4)
      /\ IsScript(i5)
      /\ IsScript(d1)
      /\ IsScript(d2)
      /\ IsScript(d3)
      /\ IsScript(d4)
      /\ IsScript(d5)
      /\ IsScript(d6)
      /\ IsScript(d7)
  <2>1. /\ \A a : IsTuple(<<a>>)
        /\ \A a, b : IsTuple(<<a, b>>)
        /\ \A a, b, c : IsTuple(<<a, b, c>>)
        /\ \A a, b, c, e : IsTuple(<<a, b, c, e>>)
    BY Lists
  <2> QED  BY <2>1, ScriptsAre
<1>11. IsScript(p)
  BY <1>8, OneOp DEF IsOp, Kinds, DropIndexIfExists
<1>12. Downgrade[4] = i1 \o (d1 \o d6 \o p \o d7) \o i2 \o d2 \o i3 \o d3 \o i4 \o d4
                      \o i5 \o d5 \o q
  <2> DEFINE oa == DropTable("insurance_policies")
             ob == DropTable("insurance_tariffs")
             oc == DropIndexIfExists("fuel_stations", "location")
             od == DropTable("fuel_stations")
  <2> HIDE DEF oa, ob, oc, od
  <2>1. OneByOne(<<oa, ob, oc, od>>, oa, ob, oc, od)
    BY Quadruple
  <2>2. /\ d1 = <<oa>> /\ d6 = <<ob>> /\ p = <<oc>> /\ d7 = <<od>>
        /\ DropSecondary = i1 \o <<oa, ob, oc, od>> \o i2 \o d2 \o i3 \o d3 \o i4 \o d4
                           \o i5 \o d5 \o q
    BY DEF DropSecondary, oa, ob, oc, od
  <2>3. Downgrade[4] = DropSecondary
    BY DEF Downgrade
  <2> HIDE DEF i1, d1, i2, d2, i3, d3, i4, d4, i5, d5, d6, d7, p, q
  <2> QED  BY <2>1, <2>2, <2>3 DEF OneByOne
<1> DEFINE c == Cat(T, Tables(Filled, 21))
           e == Cat(TypesTo(14), Tables(Filled, 14))
<1>13. Leads(i1 \o d1, c, Cat(T, Tables(Filled, 20))) /\ Leads(q, Cat(T, Tables(Filled, 14)), e)
  BY <1>2, <1>9
<1> HIDE DEF T, i1, d1, i2, d2, i3, d3, i4, d4, i5, d5, d6, d7, p, q, c, e
<1>14. i1 \o (d1 \o d6 \o p \o d7) = i1 \o d1 \o d6 \o p \o d7
  <2> DEFINE v == d1 \o d6
             w == v \o p
  <2>1. IsScript(i1) /\ IsScript(d1) /\ IsScript(d6) /\ IsScript(p) /\ IsScript(d7)
    BY <1>10, <1>11
  <2>2. IsScript(v)
    BY <2>1, Concat
  <2>3. Regroups(i1, d1, d6)
    BY <2>1, Regroup
  <2>4. i1 \o d1 \o d6 = i1 \o v
    BY <2>3 DEF Regroups
  <2> HIDE DEF v
  <2>5. IsScript(w)
    BY <2>1, <2>2, Concat
  <2>6. Regroups(i1, v, p)
    BY <2>1, <2>2, Regroup
  <2>7. i1 \o v \o p = i1 \o w
    BY <2>6 DEF Regroups
  <2> HIDE DEF w
  <2>8. Regroups(i1, w, d7)
    BY <2>1, <2>5, Regroup
  <2>9. i1 \o w \o d7 = i1 \o (w \o d7)
    BY <2>8 DEF Regroups
  <2> QED  BY <2>4, <2>7, <2>9 DEF v, w
<1> DEFINE x == i1 \o d1 \o d6
<1>15. Leads(x, c, Cat(T, Tables(Filled, 19)))
  BY <1>7, <1>13, ThenLeads
<1> HIDE DEF x
<1>16. Leads(x \o p \o d7, c, Cat(T, Tables(Filled, 18)))
  BY <1>8, <1>10, <1>11, <1>15, BlockLeads
<1> DEFINE y1 == x \o p \o d7
<1>17. Leads(y1, c, Cat(T, Tables(Filled, 18)))
  BY <1>16
<1> HIDE DEF y1
<1>18. Leads(y1 \o i2 \o d2, c, Cat(T, Tables(Filled, 17)))
  BY <1>3, <1>17, <1>10, BlockLeads
<1> DEFINE y2 == y1 \o i2 \o d2
<1>19. Leads(y2, c, Cat(T, Tables(Filled, 17)))
  BY <1>18
<1> HIDE DEF y2
<1>20. Leads(y2 \o i3 \o d3, c, Cat(T, Tables(Filled, 16)))
  BY <1>4, <1>19, <1>10, BlockLeads
<1> DEFINE y3 == y2 \o i3 \o d3
<1>21. Leads(y3, c, Cat(T, Tables(Filled, 16)))
  BY <1>20
<1> HIDE DEF y3
<1>22. Leads(y3 \o i4 \o d4, c, Cat(T, Tables(Filled, 15)))
  BY <1>5, <1>21, <1>10, BlockLeads
<1> DEFINE y4 == y3 \o i4 \o d4
<1>23. Leads(y4, c, Cat(T, Tables(Filled, 15)))
  BY <1>22
<1> HIDE DEF y4
<1>24. Leads(y4 \o i5 \o d5, c, Cat(T, Tables(Filled, 14)))
  BY <1>6, <1>23, <1>10, BlockLeads
<1>25. Leads(y4 \o i5 \o d5 \o q, c, e)
  BY <1>13, <1>24, ThenLeads
<1>26. Leads(Downgrade[4], c, e)
  BY <1>12, <1>14, <1>25 DEF x, y1, y2, y3, y4
<1> QED  BY <1>26 DEF c, e, T

\* The references that waited for the third revision go first.
LEMMA FillsOut ==
  ASSUME NEW E
  PROVE  Leads(<<DropFk("reviews", "service_id"), DropFk("reviews", "center_id"),
                 DropFk("users", "center_id")>>,
               Cat(E, Tables(Filled, 14)), Cat(E, Tables(Made, 14)))
<1> DEFINE u == "users"
           r == "reviews"
           m == "center_id"
           n == "service_id"
           p == OfCenter("CASCADE")
           q == <<"service_id", "services", "SET NULL">>
           g == OfCenter("SET NULL")
           G == {} \cup {g}
           H == (OfUser \cup {p}) \cup {q}
           K == {fk \in H : fk[1] # n}
           k == {<<"phone">>}
           cu == {"email", "role", "center_id"}
           cr == {"user_id", "center_id"}
           ur == {"user_role"}
           v == Model({}, K, {}, cr)
           w == Model({}, {fk \in K : fk[1] # m}, {}, cr)
           z == Model(ur, {fk \in G : fk[1] # m}, k, cu)
           B1 == With(Filled, r, v)
           B2 == With(B1, r, w)
           B3 == With(B2, u, z)
           a == DropFk(r, n)
           b == DropFk(r, m)
           d == DropFk(u, m)
<1>1. /\ u \in First(14) /\ r \in First(14) /\ u \in First(26) /\ r \in First(26) /\ u # r
      /\ 14 \in 0 .. 26 /\ DOMAIN Filled = First(26) /\ DOMAIN Made = First(26)
  <2>1. DOMAIN Filled = First(26) /\ DOMAIN Made = First(26)
    BY FilledIs
  <2>2. u \in First(14) /\ r \in First(14) /\ u \in First(26) /\ r \in First(26)
    BY InFirst, OrderIs
  <2> QED  BY <2>1, <2>2
<1>2. Filled[u] = Model(ur, G, k, cu) /\ Filled[r] = Model({}, H, {}, cr)
  BY FilledModel
<1>3. /\ m # Unnamed /\ n # Unnamed /\ m # n
      /\ g[1] = m /\ p[1] = m /\ q[1] = n /\ \A fk \in OfUser : fk[1] # m /\ fk[1] # n
  BY DEF Unnamed, OfCenter, OfUser
<1>4. Made[u] = Model(ur, {}, k, cu) /\ Made[r] = Model({}, OfUser, {}, cr)
  BY MadeIs
<1> HIDE DEF u, r, m, n, p, q, g, k, cu, cr, ur
<1>5. /\ {fk \in G : fk[1] # m} = {} /\ {fk \in K : fk[1] # m} = OfUser
      /\ (\E fk \in H : fk[1] = n) /\ (\E fk \in K : fk[1] = m) /\ (\E fk \in G : fk[1] = m)
  <2>1. {fk \in G : fk[1] # m} = {} /\ (\E fk \in G : fk[1] = m)
    BY <1>3
  <2>2. q \in H /\ p \in K
    BY <1>3
  <2>3. {fk \in K : fk[1] # m} = OfUser
    BY <1>3
  <2> HIDE DEF G, H, K
  <2> QED  BY <1>3, <2>1, <2>2, <2>3
<1> HIDE DEF G, H
<1>6. Alters(E, Filled, 14, a, r, v)
  BY <1>1, <1>2, <1>3, <1>5, Unlinks
<1> HIDE DEF K
<1>7. DOMAIN B1 = First(26) /\ B1[r] = v /\ B1[u] = Filled[u]
  <2> HIDE DEF v
  <2> QED  BY <1>1, WithIs
<1> HIDE DEF B1
<1>8. Alters(E, B1, 14, b, r, w)
  <2>1. B1[r] = Model({}, K, {}, cr)
    BY <1>7
  <2> QED  BY <1>1, <1>3, <1>5, <1>7, <2>1, Unlinks
<1>9. DOMAIN B2 = First(26) /\ B2[r] = w /\ B2[u] = Filled[u]
  <2> HIDE DEF w
  <2> QED  BY <1>1, <1>7, WithIs
<1> HIDE DEF B2
<1>10. Alters(E, B2, 14, d, u, z)
  <2>1. B2[u] = Model(ur, G, k, cu)
    BY <1>2, <1>9
  <2> QED  BY <1>1, <1>3, <1>5, <1>9, <2>1, Unlinks
<1>11. B3 = Made
  <2>1. w = Made[r] /\ z = Made[u]
    BY <1>4, <1>5
  <2> HIDE DEF w, z, v
  <2>2. DOMAIN B3 = First(26) /\ IsFun(B3) /\ B3[u] = z /\ \A s \in First(26) \ {u} : B3[s] = B2[s]
    BY <1>1, <1>9, WithIs
  <2>3. \A s \in First(26) \ {u, r} : B3[s] = Filled[s]
    <3>1. \A s \in First(26) \ {r} : B2[s] = B1[s] /\ B1[s] = Filled[s]
      BY <1>1, <1>7, WithIs DEF B1, B2
    <3> QED  BY <2>2, <3>1
  <2>4. \A s \in First(26) : B3[s] = Made[s]
    <3>1. \A s \in First(26) \ {u, r} : Filled[s] = Made[s]
      BY FilledIs DEF u, r
    <3> QED  BY <1>1, <1>9, <2>1, <2>2, <2>3, <3>1
  <2>5. IsFun(Made)
    BY DEF IsFun, Made
  <2> HIDE DEF B3
  <2> QED  BY <1>1, <2>2, <2>4, <2>5 DEF IsFun
<1>12. IsOp(a) /\ IsOp(b) /\ IsOp(d)
  BY DEF IsOp, Kinds, DropFk
<1> HIDE DEF a, b, d, v, w, z
<1>13. /\ Step(Cat(E, Tables(Filled, 14)), a) = Cat(E, Tables(B1, 14))
       /\ Step(Cat(E, Tables(B1, 14)), b) = Cat(E, Tables(B2, 14))
       /\ Step(Cat(E, Tables(B2, 14)), d) = Cat(E, Tables(B3, 14))
  BY <1>6, <1>8, <1>10 DEF Alters, B1, B2
<1> HIDE DEF B3
<1> DEFINE sa == <<a>>
           sb == <<b>>
           sd == <<d>>
<1>14. /\ Leads(sa, Cat(E, Tables(Filled, 14)), Cat(E, Tables(B1, 14)))
       /\ Leads(sb, Cat(E, Tables(B1, 14)), Cat(E, Tables(B2, 14)))
       /\ Leads(sd, Cat(E, Tables(B2, 14)), Cat(E, Tables(B3, 14)))
  BY <1>12, <1>13, OneLeads
<1>15. <<a, b, d>> = sa \o sb \o sd
  BY Triple
<1> HIDE DEF sa, sb, sd
<1>16. Leads(sa \o sb, Cat(E, Tables(Filled, 14)), Cat(E, Tables(B2, 14)))
  BY <1>14, ThenLeads
<1>17. Leads(sa \o sb \o sd, Cat(E, Tables(Filled, 14)), Cat(E, Tables(B3, 14)))
  BY <1>14, <1>16, ThenLeads
<1>18. Leads(<<a, b, d>>, Cat(E, Tables(Filled, 14)), Cat(E, Tables(Made, 14)))
  BY <1>11, <1>15, <1>17
<1> QED  BY <1>18 DEF a, b, d, u, r, m, n

\* 0003.
LEMMA DownErp ==
  Leads(Downgrade[3], Cat(TypesTo(14), Tables(Filled, 14)), Cat(TypesTo(8), Tables(Made, 8)))
<1> DEFINE T == TypesTo(14)
           r == <<DropFk("reviews", "service_id"), DropFk("reviews",
                    "center_id"), DropFk("users", "center_id")>>
           i1 == NoIndexes("condition_images", <<"service_id">>)
           d1 == <<DropTable("condition_images")>>
           i2 == NoIndexes("service_transitions", <<"service_at">>)
           d2 == <<DropTable("service_transitions")>>
           i3 == NoIndexes("service_items", <<"service_id">>)
           d3 == <<DropTable("service_items")>>
           i4 == NoIndexes("services", <<"center_status", "mechanic_id",
                    "center_id", "car_id">>)
           d4 == <<DropTable("services")>>
           i5 == NoIndexes("mechanics", <<"center_id">>)
           d5 == <<DropTable("mechanics")>>
           i6 == NoIndexes("service_centers", <<"owner_user_id">>)
           d6 == <<DropTable("service_centers")>>
           p1 == <<DropIndexIfExists("mechanics", "center_active")>>
           p2 == <<DropIndexIfExists("service_centers", "location")>>
           q == NoEnums(<<"condition_image_stage", "service_status">>)
<1>1. Leads(r, Cat(T, Tables(Filled, 14)), Cat(T, Tables(Made, 14)))
  BY FillsOut
<1>2. Leads(i1 \o d1, Cat(T, Tables(Made, 14)), Cat(T, Tables(Made, 13)))
  <2> DEFINE e == {"condition_image_stage"}
             f == {OfService, <<"uploaded_by", "users", "SET NULL">>}
             k == {}
             c == {"service_id"}
             l == <<"service_id">>
             N == {"service_id"}
  <2>1. Made["condition_images"] = Model(e, f, k, c)
    BY MadeIs
  <2>2. IsTuple(l) /\ Distinct(l) /\ RangeOf(l) = N
    BY Lists
  <2>3. N = c
    OBVIOUS
  <2> HIDE DEF e, f, k, c, l, N, T
  <2>4. HasParts(Made["condition_images"], e, f, N)
    BY <2>1, <2>3, BodyIs
  <2>5. HasParts(Made["condition_images"], e, f, RangeOf(l))
    BY <2>2, <2>4
  <2>6. /\ "condition_images" = Order[14] /\ 13 \in 0 .. 25 /\ 14 = 13 + 1
       /\ 0 \in 0 .. 26 /\ 0 <= 13
    BY OrderIs
  <2>7. Unreferred(Made, 13, "condition_images")
    BY <2>6, MadeFits, LastIsUnreferred
  <2>8. Leads(NoIndexes("condition_images", l) \o <<DropTable("condition_images")>>,
              Cat(T, Tables(Made, 14)), Cat(T, Tables(Made, 13)))
    BY <2>2, <2>5, <2>6, <2>7, Goes
  <2> QED  BY <2>8 DEF l, i1, d1
<1>3. Leads(i2 \o d2, Cat(T, Tables(Made, 13)), Cat(T, Tables(Made, 12)))
  <2> DEFINE e == {"service_status"}
             f == {OfService, <<"by_user_id", "users", "SET NULL">>}
             k == {}
             c == {}
             x == <<"service_at", <<"service_id", "at DESC">>>>
             l == <<"service_at">>
             N == {"service_at"}
  <2>1. Made["service_transitions"] = Indexing(Model(e, f, k, c), {x})
    BY MadeIs
  <2>2. IsTuple(l) /\ Distinct(l) /\ RangeOf(l) = N
    BY Lists
  <2>3. N = c \cup {x[1]}
    OBVIOUS
  <2> HIDE DEF e, f, k, c, l, N, T, x
  <2>4. HasParts(Made["service_transitions"], e, f, N)
    BY <2>1, <2>3, IndexedIs
  <2>5. HasParts(Made["service_transitions"], e, f, RangeOf(l))
    BY <2>2, <2>4
  <2>6. /\ "service_transitions" = Order[13] /\ 12 \in 0 .. 25 /\ 13 = 12 + 1
       /\ 0 \in 0 .. 26 /\ 0 <= 12
    BY OrderIs
  <2>7. Unreferred(Made, 12, "service_transitions")
    BY <2>6, MadeFits, LastIsUnreferred
  <2>8. Leads(NoIndexes("service_transitions", l) \o <<DropTable("service_transitions")>>,
              Cat(T, Tables(Made, 13)), Cat(T, Tables(Made, 12)))
    BY <2>2, <2>5, <2>6, <2>7, Goes
  <2> QED  BY <2>8 DEF l, i2, d2
<1>4. Leads(i3 \o d3, Cat(T, Tables(Made, 12)), Cat(T, Tables(Made, 11)))
  <2> DEFINE e == {}
             f == {OfService}
             k == {}
             c == {"service_id"}
             l == <<"service_id">>
             N == {"service_id"}
  <2>1. Made["service_items"] = Model(e, f, k, c)
    BY MadeIs
  <2>2. IsTuple(l) /\ Distinct(l) /\ RangeOf(l) = N
    BY Lists
  <2>3. N = c
    OBVIOUS
  <2> HIDE DEF e, f, k, c, l, N, T
  <2>4. HasParts(Made["service_items"], e, f, N)
    BY <2>1, <2>3, BodyIs
  <2>5. HasParts(Made["service_items"], e, f, RangeOf(l))
    BY <2>2, <2>4
  <2>6. /\ "service_items" = Order[12] /\ 11 \in 0 .. 25 /\ 12 = 11 + 1
       /\ 0 \in 0 .. 26 /\ 0 <= 11
    BY OrderIs
  <2>7. Unreferred(Made, 11, "service_items")
    BY <2>6, MadeFits, LastIsUnreferred
  <2>8. Leads(NoIndexes("service_items", l) \o <<DropTable("service_items")>>,
              Cat(T, Tables(Made, 12)), Cat(T, Tables(Made, 11)))
    BY <2>2, <2>5, <2>6, <2>7, Goes
  <2> QED  BY <2>8 DEF l, i3, d3
<1>5. Leads(i4 \o d4, Cat(T, Tables(Made, 11)), Cat(T, Tables(Made, 10)))
  <2> DEFINE e == {"service_status"}
             f == {<<"car_id", "cars", "RESTRICT">>, OfCenter("RESTRICT"),
                  <<"mechanic_id", "mechanics", "SET NULL">>}
             k == {}
             c == {"car_id", "center_id", "mechanic_id"}
             x == <<"center_status", <<"center_id", "status">>>>
             l == <<"center_status", "mechanic_id", "center_id", "car_id">>
             N == {"center_status", "mechanic_id", "center_id", "car_id"}
  <2>1. Made["services"] = Indexing(Model(e, f, k, c), {x})
    BY MadeIs
  <2>2. IsTuple(l) /\ Distinct(l) /\ RangeOf(l) = N
    BY Lists
  <2>3. N = c \cup {x[1]}
    OBVIOUS
  <2> HIDE DEF e, f, k, c, l, N, T, x
  <2>4. HasParts(Made["services"], e, f, N)
    BY <2>1, <2>3, IndexedIs
  <2>5. HasParts(Made["services"], e, f, RangeOf(l))
    BY <2>2, <2>4
  <2>6. /\ "services" = Order[11] /\ 10 \in 0 .. 25 /\ 11 = 10 + 1
       /\ 0 \in 0 .. 26 /\ 0 <= 10
    BY OrderIs
  <2>7. Unreferred(Made, 10, "services")
    BY <2>6, MadeFits, LastIsUnreferred
  <2>8. Leads(NoIndexes("services", l) \o <<DropTable("services")>>,
              Cat(T, Tables(Made, 11)), Cat(T, Tables(Made, 10)))
    BY <2>2, <2>5, <2>6, <2>7, Goes
  <2> QED  BY <2>8 DEF l, i4, d4
<1>6. Leads(p1 \o i5 \o d5, Cat(T, Tables(Made, 10)), Cat(T, Tables(Made, 9)))
  <2> DEFINE e == {}
             f == {OfCenter("CASCADE")}
             k == {<<"login">>}
             c == {"center_id"}
             x == <<"center_active", <<"center_id", "deleted_at IS NULL">>>>
             l == <<"center_id">>
             N == {"center_id"}
             a == "center_active"
  <2>1. Made["mechanics"] = Indexing(Model(e, f, k, c), {x})
    BY MadeIs
  <2>2. IsTuple(l) /\ Distinct(l) /\ RangeOf(l) = c
    BY Lists
  <2>3. a \notin c
    OBVIOUS
  <2> HIDE DEF e, f, k, c, a, T, l, N, x
  <2>4. HasParts(Made["mechanics"], e, f, c)
    <3>1. HasParts(Made["mechanics"], e, f, c \cup {x[1]})
      BY <2>1, IndexedIs
    <3> QED  BY <3>1 DEF HasParts
  <2>5. DOMAIN Made = First(26)
    BY FilledIs
  <2>6. /\ "mechanics" = Order[10] /\ 9 \in 0 .. 25 /\ 10 = 9 + 1
       /\ 0 \in 0 .. 26 /\ 0 <= 9
    BY OrderIs
  <2>7. Unreferred(Made, 9, "mechanics")
    BY <2>6, MadeFits, LastIsUnreferred
  <2> DEFINE D == Bared(Made, "mechanics", a)
  <2>8. Bares(T, Made, 9, 10, "mechanics", a, e, f, c)
    BY <2>3, <2>4, <2>5, <2>6, <2>7, IndexGoes
  <2>9. /\ Leads(<<DropIndexIfExists("mechanics", a)>>,
                 Cat(T, Tables(Made, 10)), Cat(T, Tables(D, 10)))
        /\ Tables(D, 9) = Tables(Made, 9) /\ Unreferred(D, 9, "mechanics")
        /\ HasParts(D["mechanics"], e, f, c)
    BY <2>8 DEF Bares
  <2> HIDE DEF D
  <2>10. HasParts(D["mechanics"], e, f, RangeOf(l))
    BY <2>2, <2>9
  <2>11. Leads(NoIndexes("mechanics", l) \o <<DropTable("mechanics")>>,
               Cat(T, Tables(D, 10)), Cat(T, Tables(D, 9)))
    BY <2>2, <2>6, <2>9, <2>10, Goes
  <2>12. Leads(i5 \o d5, Cat(T, Tables(D, 10)), Cat(T, Tables(Made, 9)))
    BY <2>9, <2>11 DEF l, i5, d5
  <2>13. Leads(p1, Cat(T, Tables(Made, 10)), Cat(T, Tables(D, 10)))
    BY <2>9 DEF a, p1
  <2>14. IsScript(i5) /\ IsScript(d5)
    BY <2>2, ScriptsAre DEF l, i5, d5
  <2> HIDE DEF p1, i5, d5
  <2> QED  BY <2>12, <2>13, <2>14, BlockLeads
<1>7. Leads(p2 \o i6 \o d6, Cat(T, Tables(Made, 9)), Cat(T, Tables(Made, 8)))
  <2> DEFINE e == {}
             f == {<<"owner_user_id", "users", "CASCADE">>}
             k == {}
             c == {"owner_user_id"}
             l == <<"owner_user_id">>
             N == {"owner_user_id"}
             a == "location"
  <2>1. Made["service_centers"] = Model(e, f, k, c)
    BY MadeIs
  <2>2. IsTuple(l) /\ Distinct(l) /\ RangeOf(l) = c
    BY Lists
  <2>3. a \notin c
    OBVIOUS
  <2> HIDE DEF e, f, k, c, a, T, l, N
  <2>4. HasParts(Made["service_centers"], e, f, c)
    BY <2>1, BodyIs
  <2>5. DOMAIN Made = First(26)
    BY FilledIs
  <2>6. /\ "service_centers" = Order[9] /\ 8 \in 0 .. 25 /\ 9 = 8 + 1
       /\ 0 \in 0 .. 26 /\ 0 <= 8
    BY OrderIs
  <2>7. Unreferred(Made, 8, "service_centers")
    BY <2>6, MadeFits, LastIsUnreferred
  <2> DEFINE D == Bared(Made, "service_centers", a)
  <2>8. Bares(T, Made, 8, 9, "service_centers", a, e, f, c)
    BY <2>3, <2>4, <2>5, <2>6, <2>7, IndexGoes
  <2>9. /\ Leads(<<DropIndexIfExists("service_centers", a)>>,
                 Cat(T, Tables(Made, 9)), Cat(T, Tables(D, 9)))
        /\ Tables(D, 8) = Tables(Made, 8) /\ Unreferred(D, 8, "service_centers")
        /\ HasParts(D["service_centers"], e, f, c)
    BY <2>8 DEF Bares
  <2> HIDE DEF D
  <2>10. HasParts(D["service_centers"], e, f, RangeOf(l))
    BY <2>2, <2>9
  <2>11. Leads(NoIndexes("service_centers", l) \o <<DropTable("service_centers")>>,
               Cat(T, Tables(D, 9)), Cat(T, Tables(D, 8)))
    BY <2>2, <2>6, <2>9, <2>10, Goes
  <2>12. Leads(i6 \o d6, Cat(T, Tables(D, 9)), Cat(T, Tables(Made, 8)))
    BY <2>9, <2>11 DEF l, i6, d6
  <2>13. Leads(p2, Cat(T, Tables(Made, 9)), Cat(T, Tables(D, 9)))
    BY <2>9 DEF a, p2
  <2>14. IsScript(i6) /\ IsScript(d6)
    BY <2>2, ScriptsAre DEF l, i6, d6
  <2> HIDE DEF p2, i6, d6
  <2> QED  BY <2>12, <2>13, <2>14, BlockLeads
<1>8. Leads(q, Cat(T, Tables(Made, 8)), Cat(TypesTo(8), Tables(Made, 8)))
  <2> DEFINE es == <<"condition_image_stage", "service_status">>
  <2>1. IsTuple(es) /\ RangeOf(es) = ErpTypes
    BY Lists DEF ErpTypes
  <2>2. /\ ErpTypes \cap TypesTo(8) = {} /\ TypesTo(8) = T \ ErpTypes
        /\ 0 \in 0 .. 26 /\ 8 \in 0 .. 26
    BY DEF TypesTo, AuthTypes, CustomerTypes, ErpTypes, SecondaryTypes, BillingTypes
  <2> HIDE DEF es, T
  <2>3. RangeOf(es) \cap TypesTo(8) = {} /\ TypesTo(8) = T \ RangeOf(es)
    BY <2>1, <2>2
  <2>4. Leads(NoEnums(es), Cat(T, Tables(Made, 8)), Cat(TypesTo(8), Tables(Made, 8)))
    BY <2>1, <2>2, <2>3, MadeFits, TypesGo
  <2> QED  BY <2>4 DEF es, q
<1>9. /\ IsScript(i1)
      /\ IsScript(i2)
      /\ IsScript(i3)
      /\ IsScript(i4)
      /\ IsScript(i5)
      /\ IsScript(i6)
      /\ IsScript(d1)
      /\ IsScript(d2)
      /\ IsScript(d3)
      /\ IsScript(d4)
      /\ IsScript(d5)
      /\ IsScript(d6)
  <2>1. /\ \A a : IsTuple(<<a>>)
        /\ \A a, b : IsTuple(<<a, b>>)
        /\ \A a, b, c : IsTuple(<<a, b, c>>)
        /\ \A a, b, c, e : IsTuple(<<a, b, c, e>>)
    BY Lists
  <2> QED  BY <2>1, ScriptsAre
<1>10. IsScript(p1) /\ IsScript(p2)
  BY OneOp DEF IsOp, Kinds, DropIndexIfExists
<1>11. Downgrade[3] = r \o i1 \o d1 \o i2 \o d2 \o i3 \o d3 \o i4 \o d4
                      \o p1 \o i5 \o d5 \o p2 \o i6 \o d6 \o q
  BY DEF Downgrade, DropErp
<1> DEFINE c == Cat(T, Tables(Filled, 14))
           e == Cat(TypesTo(8), Tables(Made, 8))
<1>12. Leads(r, c, Cat(T, Tables(Made, 14))) /\ Leads(q, Cat(T, Tables(Made, 8)), e)
  BY <1>1, <1>8
<1> HIDE DEF T, r, i1, d1, i2, d2, i3, d3, i4, d4, i5, d5, i6, d6, p1, p2, q, c, e
<1> DEFINE y1 == r
<1>13. Leads(y1, c, Cat(T, Tables(Made, 14)))
  BY <1>12
<1> HIDE DEF y1
<1>14. Leads(y1 \o i1 \o d1, c, Cat(T, Tables(Made, 13)))
  BY <1>2, <1>13, <1>9, BlockLeads
<1> DEFINE y2 == y1 \o i1 \o d1
<1>15. Leads(y2, c, Cat(T, Tables(Made, 13)))
  BY <1>14
<1> HIDE DEF y2
<1>16. Leads(y2 \o i2 \o d2, c, Cat(T, Tables(Made, 12)))
  BY <1>3, <1>15, <1>9, BlockLeads
<1> DEFINE y3 == y2 \o i2 \o d2
<1>17. Leads(y3, c, Cat(T, Tables(Made, 12)))
  BY <1>16
<1> HIDE DEF y3
<1>18. Leads(y3 \o i3 \o d3, c, Cat(T, Tables(Made, 11)))
  BY <1>4, <1>17, <1>9, BlockLeads
<1> DEFINE y4 == y3 \o i3 \o d3
<1>19. Leads(y4, c, Cat(T, Tables(Made, 11)))
  BY <1>18
<1> HIDE DEF y4
<1>20. Leads(y4 \o i4 \o d4, c, Cat(T, Tables(Made, 10)))
  BY <1>5, <1>19, <1>9, BlockLeads
<1> DEFINE y5 == y4 \o i4 \o d4
<1>21. Leads(y5, c, Cat(T, Tables(Made, 10))) /\ IsScript(y5)
  BY <1>20 DEF Leads
<1> HIDE DEF y5
<1> DEFINE z5 == p1 \o i5
<1>22. IsScript(z5) /\ y5 \o z5 = y5 \o p1 \o i5
  <2>1. IsScript(z5) /\ IsScript(p1) /\ IsScript(i5)
    BY <1>9, <1>10, Concat
  <2>2. Regroups(y5, p1, i5)
    BY <1>21, <2>1, Regroup
  <2> QED  BY <2>1, <2>2 DEF Regroups
<1>23. Leads(z5 \o d5, Cat(T, Tables(Made, 10)), Cat(T, Tables(Made, 9)))
  BY <1>6
<1> HIDE DEF z5
<1>24. Leads(y5 \o z5 \o d5, c, Cat(T, Tables(Made, 9)))
  BY <1>9, <1>21, <1>22, <1>23, BlockLeads
<1>25. Leads(y5 \o p1 \o i5 \o d5, c, Cat(T, Tables(Made, 9)))
  BY <1>22, <1>24
<1> DEFINE y6 == y5 \o p1 \o i5 \o d5
<1>26. Leads(y6, c, Cat(T, Tables(Made, 9))) /\ IsScript(y6)
  BY <1>25 DEF Leads
<1> HIDE DEF y6
<1> DEFINE z6 == p2 \o i6
<1>27. IsScript(z6) /\ y6 \o z6 = y6 \o p2 \o i6
  <2>1. IsScript(z6) /\ IsScript(p2) /\ IsScript(i6)
    BY <1>9, <1>10, Concat
  <2>2. Regroups(y6, p2, i6)
    BY <1>26, <2>1, Regroup
  <2> QED  BY <2>1, <2>2 DEF Regroups
<1>28. Leads(z6 \o d6, Cat(T, Tables(Made, 9)), Cat(T, Tables(Made, 8)))
  BY <1>7
<1> HIDE DEF z6
<1>29. Leads(y6 \o z6 \o d6, c, Cat(T, Tables(Made, 8)))
  BY <1>9, <1>26, <1>27, <1>28, BlockLeads
<1>30. Leads(y6 \o p2 \o i6 \o d6, c, Cat(T, Tables(Made, 8)))
  BY <1>27, <1>29
<1> DEFINE y7 == y6 \o p2 \o i6 \o d6
<1>31. Leads(y7, c, Cat(T, Tables(Made, 8)))
  BY <1>30
<1> HIDE DEF y7
<1>32. Leads(y7 \o q, c, e)
  BY <1>12, <1>31, ThenLeads
<1>33. Downgrade[3] = y7 \o q
  BY <1>11 DEF y1, y2, y3, y4, y5, y6, y7
<1>34. Leads(Downgrade[3], c, e)
  BY <1>32, <1>33
<1> QED  BY <1>34 DEF c, e, T

-----------------------------------------------------------------------------
(***************************************************************************)
(* What the chain leaves.                                                  *)
(***************************************************************************)
\* A revision is one of these.
LEMMA RevisionsAre ==
  ASSUME NEW r \in 1 .. Newest  PROVE r \in {1, 2, 3, 4, 5, 6, 7, 8}
  BY DEF Newest

\* Nothing is refused on the way up.
LEMMA AtIsOk == \A r \in Revisions : At[r].ok
<1>1. \A r \in Revisions : r = 0 \/ r \in 1 .. Newest
  BY DEF Revisions, Base, Newest
<1>2. \A E, f : Cat(E, f).ok
  BY DEF Cat
<1>3. \A r \in {0, 1, 2, 3, 4, 5, 6, 7, 8} : \E E, f : At[r] = Cat(E, f)
  BY ChainIs
<1> QED  BY <1>1, <1>2, <1>3, RevisionsAre

\* The newest catalogue has the tables of the models.
LEMMA HeadIs == At[Newest].tables = Metadata
<1>1. Metadata = [t \in DOMAIN Metadata |-> Metadata[t]]
  BY DEF Metadata
<1>2. At[8].tables = Tables(Metadata, 26)
  BY ChainIs DEF Cat
<1> QED  BY <1>1, <1>2, DeclaredIs DEF Tables, Newest

\* Every downgrade but the sixth takes back what the upgrade did.
LEMMA DownIs ==
  ASSUME NEW r \in 1 .. Newest, r # 6
  PROVE  Execute(Downgrade[r], At[r]) = At[r - 1]
<1>1. /\ Execute(Downgrade[1], At[1]) = At[0] /\ Execute(Downgrade[2], At[2]) = At[1]
      /\ Execute(Downgrade[3], At[3]) = At[2] /\ Execute(Downgrade[4], At[4]) = At[3]
  BY ChainIs, DownAuth, DownCustomer, DownErp, DownSecondary DEF Leads
<1>2. /\ Execute(Downgrade[5], At[5]) = At[4] /\ Execute(Downgrade[7], At[7]) = At[6]
      /\ Execute(Downgrade[8], At[8]) = At[7]
  BY ChainIs, DownBilling, DownStories, DownAudit DEF Leads
<1> QED  BY <1>1, <1>2, RevisionsAre

\* The sixth runs nowhere: it drops a constraint that has no name.
LEMMA SixthIsRefused == ASSUME NEW c, IsCatalog(c)  PROVE ~Execute(Downgrade[6], c).ok
<1> SUFFICES ASSUME Execute(Downgrade[6], c).ok  PROVE FALSE
  OBVIOUS
<1>1. IsScript(Downgrade[6])
  BY CompaniesAreScripts
<1>2. Runs(Downgrade[6], c, Run(Downgrade[6], c))
  BY <1>1, RunOk
<1>3. PICK i \in DOMAIN Downgrade[6] :
        Downgrade[6][i].op = "drop_fk" /\ Downgrade[6][i].col = Unnamed
  BY CompaniesAreScripts DEF Ops
<1>4. i \in 1 .. Len(Downgrade[6])
  BY <1>1 DEF IsScript
<1>5. Allowed(Run(Downgrade[6], c)[i - 1], Downgrade[6][i])
  BY <1>2, <1>4 DEF Runs
<1> QED  BY <1>3, <1>5 DEF Allowed

\* Every revision is two scripts.
LEMMA AllScripts ==
  \A r \in 1 .. Newest : IsScript(Upgrade[r]) /\ IsScript(Downgrade[r])
<1>1. /\ IsScript(Upgrade[1]) /\ IsScript(Upgrade[2]) /\ IsScript(Upgrade[3])
      /\ IsScript(Upgrade[4]) /\ IsScript(Upgrade[5]) /\ IsScript(Upgrade[7])
      /\ IsScript(Upgrade[8])
  BY UpAuth, UpCustomer, UpErp, UpSecondary, UpBilling, UpStories, UpAudit DEF Leads
<1>2. /\ IsScript(Downgrade[1]) /\ IsScript(Downgrade[2]) /\ IsScript(Downgrade[3])
      /\ IsScript(Downgrade[4]) /\ IsScript(Downgrade[5]) /\ IsScript(Downgrade[7])
      /\ IsScript(Downgrade[8])
  BY DownAuth, DownCustomer, DownErp, DownSecondary, DownBilling, DownStories, DownAudit
     DEF Leads
<1> QED  BY <1>1, <1>2, RevisionsAre, CompaniesAreScripts

\* What the upgrades build is a catalogue.
LEMMA AtIsCatalog == \A r \in Revisions : IsCatalog(At[r])
<1> DEFINE S == {r \in 0 .. 8 : IsCatalog(At[r])}
<1>1. 0 \in S
  <2>1. IsCatalog(Empty)
    BY DEF Empty, IsCatalog
  <2> QED  BY <2>1, AtIs DEF Base
<1>2. ASSUME NEW r \in 0 .. 8 - 1, r \in S  PROVE r + 1 \in S
  <2>1. r + 1 \in 1 .. Newest /\ (r + 1) - 1 = r /\ r + 1 \in 0 .. 8
    BY DEF Newest
  <2>2. At[r + 1] = Execute(Upgrade[r + 1], At[r]) /\ IsScript(Upgrade[r + 1])
    BY <2>1, AtIs, AllScripts
  <2>3. IsCatalog(Execute(Upgrade[r + 1], At[r]))
    BY <1>2, <2>2, RunCatalogs
  <2> QED  BY <2>1, <2>2, <2>3
<1> HIDE DEF S
<1>3. \A r \in 0 .. 8 : r \in S
  BY <1>1, <1>2, InductionUpTo
<1> QED  BY <1>3 DEF S, Revisions, Base, Newest

\* The first revision does not run on a database that has one.
LEMMA UsersStay ==
  ASSUME NEW r \in 1 .. Newest  PROVE "users" \in DOMAIN At[r].tables
<1>1. ASSUME NEW E, NEW B, NEW k \in 1 .. 26
      PROVE  "users" \in DOMAIN Cat(E, Tables(B, k)).tables
  <2>1. Order[1] \in First(k)
    BY DEF First
  <2>2. Order[1] = "users"
    BY OrderIs
  <2> QED  BY <2>1, <2>2 DEF Cat, Tables
<1>2. \A q \in {1, 2, 3, 4, 5, 6, 7, 8} :
        \E E, B : \E k \in 1 .. 26 : At[q] = Cat(E, Tables(B, k))
  BY ChainIs
<1>3. PICK E, B : \E k \in 1 .. 26 : At[r] = Cat(E, Tables(B, k))
  BY <1>2, RevisionsAre
<1> QED  BY <1>1, <1>3

\* Two scripts begin with the same k operations.
Begins(x, a, k) ==
  /\ k \in 1 .. Len(x)
  /\ \A i \in 1 .. k : x[i] = a[i]

\* A script that goes on begins as it did.
LEMMA GoesOn ==
  ASSUME NEW a, NEW b, IsScript(a), IsScript(b), NEW k \in 1 .. Len(a)
  PROVE  Begins(a \o b, a, k)
<1> DEFINE V == Ops(a) \cup Ops(b)
<1>1. a \in Seq(V) /\ b \in Seq(V)
  BY DEF IsScript
<1> HIDE DEF V
<1>2. k \in 1 .. Len(a \o b) /\ \A i \in 1 .. Len(a) : (a \o b)[i] = a[i]
  BY <1>1
<1>3. \A i \in 1 .. k : i \in 1 .. Len(a)
  BY <1>1
<1> QED  BY <1>2, <1>3 DEF Begins

\* The first upgrade is refused where the database has been upgraded: users are there.
LEMMA FirstOnlyOnce ==
  ASSUME NEW r \in 1 .. Newest  PROVE ~Execute(Upgrade[1], At[r]).ok
<1> DEFINE c == At[r]
           ops == Upgrade[1]
           f == Run(ops, c)
           e == CreateEnum("user_role")
           t == CreateTable("users", Table({"user_role"}, {}, {<<"phone">>}))
           a == <<e, t>>
           i == Indexes("users", <<"email", "role", "center_id">>)
           b == CreateRefreshTokens
<1> SUFFICES ASSUME Execute(ops, c).ok  PROVE FALSE
  OBVIOUS
<1>1. r \in Revisions /\ 1 \in 1 .. Newest
  BY DEF Revisions, Base, Newest
<1>2. Runs(ops, c, f)
  BY <1>1, AtIsCatalog, AllScripts, RunOk
<1>3. ops[1] = e /\ ops[2] = t /\ 1 \in 1 .. Len(ops) /\ 2 \in 1 .. Len(ops)
  <2>1. IsOp(e) /\ IsOp(t)
    BY DEF IsOp, Kinds, CreateEnum, CreateTable, Table, IsTable
  <2> HIDE DEF e, t
  <2>2. IsScript(a) /\ Len(a) = 2 /\ a[1] = e /\ a[2] = t
    <3>1. Ops(a) = {e, t}
      BY DEF Ops
    <3> QED  BY <2>1, <3>1 DEF IsScript
  <2>3. IsScript(i)
    BY Lists, ScriptsAre
  <2>4. IsScript(b)
    <3>1. IsTuple(<<"user_id", "expires_at">>)
      BY Lists
    <3>2. /\ IsScript(Indexes("refresh_tokens", <<"user_id", "expires_at">>))
          /\ IsScript(<<CreateTable("refresh_tokens", Table({}, OfUser, {<<"token_hash">>}))>>)
      BY <3>1, ScriptsAre
    <3> QED  BY <3>2, Concat DEF CreateRefreshTokens
  <2> HIDE DEF a, i, b
  <2>5. 2 \in 1 .. Len(a)
    BY <2>2
  <2> DEFINE x == a \o i
             y == x \o b
  <2>6. IsScript(x) /\ Begins(x, a, 2)
    BY <2>2, <2>3, <2>5, Concat, GoesOn
  <2> HIDE DEF x
  <2>7. 2 \in 1 .. Len(x)
    BY <2>6 DEF Begins
  <2>8. Begins(y, x, 2)
    BY <2>4, <2>6, <2>7, GoesOn
  <2> HIDE DEF y
  <2>9. y[1] = e /\ y[2] = t /\ 1 \in 1 .. Len(y) /\ 2 \in 1 .. Len(y)
    BY <2>2, <2>6, <2>8 DEF Begins
  <2>10. ops = y
    BY DEF Upgrade, CreateUsers, x, y, a, i, b, e, t
  <2> QED  BY <2>9, <2>10
<1> HIDE DEF f, ops, c
<1>4. f[0] = c /\ f[1] = Effect(f[0], e) /\ Allowed(f[1], t)
  BY <1>2, <1>3 DEF Runs
<1>5. f[1].tables = c.tables
  <2>1. e.op = "create_enum"
    BY DEF CreateEnum
  <2> HIDE DEF e
  <2>2. IsCatalog(c)
    BY <1>1, AtIsCatalog DEF c
  <2>3. Effect(c, e) = [c EXCEPT !.enums = @ \cup {e.on}]
    BY <2>1 DEF Effect
  <2> QED  BY <1>4, <2>2, <2>3 DEF IsCatalog
<1>6. "users" \notin DOMAIN c.tables
  BY <1>4, <1>5 DEF Allowed, CreateTable
<1> QED  BY <1>6, UsersStay DEF c

\* The downgrade of a revision runs where its upgrade has run, and takes back
\* exactly what it did; that of the sixth, which drops a constraint that has no
\* name, is refused.
THEOREM DowngradeUndoes ==
  ASSUME NEW r \in 1 .. Newest
  PROVE  IF r = 6 THEN ~Execute(Downgrade[r], At[r]).ok
         ELSE Execute(Downgrade[r], At[r]) = At[r - 1]
<1>1. IsCatalog(At[6])
  BY AtIsCatalog DEF Revisions, Base, Newest
<1> QED  BY <1>1, DownIs, SixthIsRefused

=============================================================================
