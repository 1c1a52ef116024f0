--------------------------- MODULE InventoryProofs ---------------------------
(* Theorems about Inventory, for every number of rows and of concurrent     *)
(* requests and every choice of Faults.                                     *)
EXTENDS Inventory, FiniteSetTheorems, WellFoundedInduction, TLAPS

\* Nothing is on record at the start.
LEMMA RecordInit == Init => RecordInv
<1>1. Idle \in Jobs
  BY DEF Idle, Making, Jobs
<1> QED
  BY <1>1, InventoryAssumption
  DEF Init, RecordInv, TypeOK, LocalsOK, Counted, FoliosGivenOnce, ListsWhole, TransferIsWhole,
      Types, Steps, Idle, Making

\* The locals keep their types when the next line of an event begins.
LEMMA NextLineTypes ==
  ASSUME TypeOK, NEW w \in Workers, NextLine(w)
  PROVE  /\ job' \in [Workers -> Jobs] /\ pc' \in [Workers -> Steps]
         /\ pc' = [pc EXCEPT ![w] = pc'[w]] /\ pc'[w] \in {"idle", "number"}
         /\ job' = [job EXCEPT ![w] = job'[w]]
         /\ pc'[w] = "number" => job'[w].row \in Rows /\ job'[w].type = job[w].type
         /\ job'[w].list = {} \/ job'[w].list = job[w].list
<1>1. Idle \in Jobs /\ Idle.list = {}
  BY DEF Idle, Making, Jobs
<1>2. job[w] \in Jobs /\ job \in [Workers -> Jobs] /\ pc \in [Workers -> Steps]
  BY DEF TypeOK
<1>3. CASE End(w)
  BY <1>1, <1>2, <1>3 DEF End, Goto, Steps
<1>4. CASE ~End(w)
  <2>1. job[w].lines # 0
    BY <1>4 DEF NextLine
  <2>2. PICK r \in RowsOf[w], q \in Quantities :
          /\ Goto(w, "number")
          /\ job' = [job EXCEPT ![w].row = r, ![w].quantity = q, ![w].lines = job[w].lines - 1]
    BY <2>1 DEF NextLine
  <2>3. r \in Rows /\ q \in Nat /\ job[w].lines - 1 \in Nat
    BY <1>2, <2>1, InventoryAssumption DEF Jobs
  <2>4. [job[w] EXCEPT !.row = r, !.quantity = q, !.lines = job[w].lines - 1] \in Jobs
    BY <1>2, <2>3 DEF Jobs
  <2> QED
    BY <1>2, <2>2, <2>3, <2>4 DEF Goto, Steps, Jobs
<1> QED
  BY <1>3, <1>4

\* A step that leaves the record alone and gives no folio to insert keeps the
\* invariant, whatever it does to the locals of one request.
LEMMA JobStep ==
  ASSUME RecordInv, NEW w \in Workers, NEW p \in Steps, NEW j \in Jobs,
         movements' = movements, stock' \in [Rows -> Int], counter' \in [Types -> Nat],
         \A t \in Types : counter[t] <= counter'[t],
         pc' = [pc EXCEPT ![w] = p], job' = [job EXCEPT ![w] = j],
         p # "insert",
         p \notin {"idle", "reverse"} =>
           j.type \in Types \ {"transfer"} /\ j.row \in Rows,
         \A m \in j.list : m.group <= counter["transfer"],
         \A m \in j.list : m.group # 0 =>
           \A n \in movements : n.group = m.group => n \in j.list
  PROVE  RecordInv'
<1> USE DEF RecordInv
<1>1. TypeOK'
  BY DEF TypeOK
<1>2. LocalsOK'
  BY DEF TypeOK, LocalsOK
<1>3. Counted'
  <2>1. \A v \in Workers : pc'[v] = "insert" => v # w /\ pc[v] = "insert" /\ job'[v] = job[v]
    BY DEF TypeOK
  <2>2. \A v \in Workers : pc'[v] = "insert" => job'[v].seq <= counter'[job'[v].type]
    <3> SUFFICES ASSUME NEW v \in Workers, pc'[v] = "insert"
                 PROVE  job'[v].seq <= counter'[job'[v].type]
      OBVIOUS
    <3>1. job[v].seq <= counter[job[v].type] /\ job[v].type \in Types /\ job[v].seq \in Nat
      BY <2>1 DEF Counted, LocalsOK, TypeOK, Jobs
    <3>2. counter[job[v].type] <= counter'[job[v].type]
      BY <3>1
    <3> QED
      BY <2>1, <3>1, <3>2 DEF TypeOK
  <2>3. "transfer" \in Types /\ counter["transfer"] <= counter'["transfer"]
    BY DEF Types
  <2>4. \A m \in Movements : m.group <= counter["transfer"] => m.group <= counter'["transfer"]
    BY <2>3 DEF TypeOK, Movements
  <2>5. \A v \in Workers : \A m \in job'[v].list :
          m \in Movements /\ m.group <= counter["transfer"]
    BY DEF TypeOK, Jobs, Counted
  <2> QED
    BY <2>2, <2>4, <2>5 DEF Counted, TypeOK
<1>4. FoliosGivenOnce'
  <2>1. \A v \in Workers : pc'[v] = "insert" => pc[v] = "insert" /\ job'[v] = job[v]
    BY DEF TypeOK
  <2>2. \A m \in movements : m.number[2] <= counter'[m.number[1]]
    <3> SUFFICES ASSUME NEW m \in movements PROVE m.number[2] <= counter'[m.number[1]]
      OBVIOUS
    <3>1. m.number[1] \in Types /\ m.number[2] \in Nat
      BY DEF TypeOK, Movements
    <3>2. m.number[2] <= counter[m.number[1]]
      BY DEF FoliosGivenOnce
    <3> QED
      BY <3>1, <3>2 DEF TypeOK
  <2> QED
    BY <2>1, <2>2 DEF FoliosGivenOnce, Number
<1>5. ListsWhole'
  BY DEF ListsWhole, TypeOK
<1>6. TransferIsWhole'
  BY DEF TransferIsWhole
<1> QED
  BY <1>1, <1>2, <1>3, <1>4, <1>5, <1>6

\* A request begins with an empty list and with nothing to insert.
LEMMA BeginStep ==
  ASSUME RecordInv, NEW w \in Workers, NEW type \in Types \ {"transfer"}, NEW r \in Rows,
         NEW q \in Quantities, NEW by \in {"request", "handler"}, NEW n \in Nat,
         Begin(w, type, r, q, by, n)
  PROVE  RecordInv'
<1> DEFINE j == Making(type, r, q, by, n)
<1>1. j \in Jobs /\ j.type = type /\ j.row = r /\ j.list = {}
  <2>1. q \in Nat
    BY InventoryAssumption
  <2> QED
    BY <2>1 DEF Making, Jobs
<1>2. /\ pc' = [pc EXCEPT ![w] = "number"] /\ job' = [job EXCEPT ![w] = j]
      /\ stock' = stock /\ movements' = movements /\ counter' = counter
  BY DEF Begin, Goto
<1>3. counter \in [Types -> Nat] /\ stock \in [Rows -> Int]
  BY DEF RecordInv, TypeOK
<1>4. \A t \in Types : counter[t] <= counter'[t]
  BY <1>2, <1>3
<1> HIDE DEF j
<1> QED
  BY <1>1, <1>2, <1>3, <1>4, JobStep DEF Steps

\* A request ends, or an event handler goes on, with the record as it is.
LEMMA NextLineStep ==
  ASSUME RecordInv, NEW w \in Workers, NextLine(w), movements' = movements,
         stock' \in [Rows -> Int], counter' \in [Types -> Nat],
         \A t \in Types : counter[t] <= counter'[t], pc[w] \notin {"idle", "reverse"}
  PROVE  RecordInv'
<1>1. TypeOK /\ pc \in [Workers -> Steps] /\ job \in [Workers -> Jobs]
  BY DEF RecordInv, TypeOK
<1>2. job[w].type \in Types \ {"transfer"}
  BY DEF RecordInv, LocalsOK
<1>3. /\ job'[w] \in Jobs /\ pc'[w] \in Steps /\ pc'[w] \in {"idle", "number"}
      /\ pc' = [pc EXCEPT ![w] = pc'[w]] /\ job' = [job EXCEPT ![w] = job'[w]]
      /\ job'[w].list = {} \/ job'[w].list = job[w].list
      /\ pc'[w] = "number" => job'[w].row \in Rows /\ job'[w].type = job[w].type
  BY <1>1, NextLineTypes
<1>4. /\ \A m \in job'[w].list : m.group <= counter["transfer"]
      /\ \A m \in job'[w].list : m.group # 0 =>
           \A n \in movements : n.group = m.group => n \in job'[w].list
  BY <1>3 DEF RecordInv, Counted, ListsWhole
<1>5. pc'[w] # "insert" /\ pc'[w] \notin {"idle", "reverse"} =>
        job'[w].type \in Types \ {"transfer"} /\ job'[w].row \in Rows
  BY <1>2, <1>3
<1> QED
  BY <1>3, <1>4, <1>5, JobStep

\* The counter is raised before anybody can hold the folio it gives.
LEMMA NumberStep ==
  ASSUME RecordInv, NEW w \in Workers, nextMovementNumber(w)
  PROVE  RecordInv'
<1> DEFINE t == job[w].type
<1>1. /\ pc[w] = "number" /\ movements' = movements /\ stock' = stock
      /\ counter' = [counter EXCEPT ![t] = counter[t] + 1]
  BY DEF nextMovementNumber
<1>2. /\ t \in Types \ {"transfer"} /\ counter \in [Types -> Nat] /\ stock \in [Rows -> Int]
      /\ job \in [Workers -> Jobs] /\ pc \in [Workers -> Steps] /\ movements \subseteq Movements
  BY <1>1 DEF RecordInv, LocalsOK, TypeOK
<1>3. counter' \in [Types -> Nat] /\ \A u \in Types : counter[u] <= counter'[u]
  BY <1>1, <1>2
<1>4. CASE NextLine(w)
  BY <1>1, <1>2, <1>3, <1>4, NextLineStep
<1>5. CASE Goto(w, "insert") /\ job' = [job EXCEPT ![w].seq = counter[t] + 1]
  <2>1. /\ pc' = [pc EXCEPT ![w] = "insert"] /\ pc'[w] = "insert"
        /\ job'[w].seq = counter[t] + 1 /\ job'[w].type = t /\ job'[w].row = job[w].row
        /\ job'[w].list = job[w].list
        /\ \A v \in Workers \ {w} : job'[v] = job[v] /\ pc'[v] = pc[v]
    BY <1>2, <1>5 DEF Goto, Jobs
  <2>2. TypeOK'
    <3>1. [job[w] EXCEPT !.seq = counter[t] + 1] \in Jobs
      BY <1>2 DEF Jobs
    <3> QED
      BY <1>1, <1>2, <1>3, <1>5, <2>1, <3>1 DEF TypeOK, Steps
  <2>3. LocalsOK'
    BY <1>1, <1>2, <2>1 DEF RecordInv, LocalsOK
  <2>4. counter'[t] = counter[t] + 1 /\ counter'["transfer"] = counter["transfer"]
    BY <1>1, <1>2 DEF Types
  <2>5. \A v \in Workers : pc[v] = "insert" =>
          /\ job[v].type \in Types /\ job[v].seq \in Nat /\ job[v].seq <= counter[job[v].type]
    BY <1>2 DEF RecordInv, LocalsOK, Counted, Jobs
  <2>6. \A m \in movements :
          /\ m.number[1] \in Types /\ m.number[2] \in Nat /\ m.number = <<m.number[1], m.number[2]>>
          /\ m.number[2] <= counter[m.number[1]]
    BY <1>2 DEF RecordInv, FoliosGivenOnce, Movements
  <2>7. Counted'
    <3>1. \A v \in Workers : pc'[v] = "insert" => job'[v].seq <= counter'[job'[v].type]
      <4>1. job'[w].seq <= counter'[job'[w].type]
        BY <1>2, <1>3, <2>1, <2>4
      <4>2. ASSUME NEW v \in Workers \ {w}, pc'[v] = "insert"
            PROVE  job'[v].seq <= counter'[job'[v].type]
        BY <1>2, <1>3, <2>1, <2>5, <4>2
      <4> QED
        BY <4>1, <4>2
    <3>2. \A v \in Workers : job'[v].list = job[v].list
      BY <2>1
    <3> QED
      BY <1>1, <2>4, <3>1, <3>2 DEF RecordInv, Counted
  <2>8. FoliosGivenOnce'
    <3>1. \A v \in Workers \ {w} : pc[v] = "insert" => Number(v) # <<t, counter[t] + 1>>
      BY <1>2, <2>5 DEF Number
    <3>2. \A m \in movements : m.number # <<t, counter[t] + 1>>
      BY <1>2, <2>6
    <3>3. Number(w)' = <<t, counter[t] + 1>> /\ \A v \in Workers \ {w} : Number(v)' = Number(v)
      BY <2>1 DEF Number
    <3>4. \A m \in movements : m.number[2] <= counter'[m.number[1]]
      BY <1>2, <1>3, <2>6
    <3> QED
      BY <1>1, <2>1, <3>1, <3>2, <3>3, <3>4 DEF RecordInv, FoliosGivenOnce
  <2>9. ListsWhole' /\ TransferIsWhole'
    <3>1. \A v \in Workers : job'[v].list = job[v].list
      BY <2>1
    <3> QED
      BY <1>1, <3>1 DEF RecordInv, ListsWhole, TransferIsWhole
  <2> QED
    BY <2>2, <2>3, <2>7, <2>8, <2>9 DEF RecordInv
<1> QED
  BY <1>4, <1>5 DEF nextMovementNumber

\* A movement enters the record with the folio its request holds and no other does.
LEMMA SaveStep ==
  ASSUME RecordInv, NEW w \in Workers, SaveMovement(w)
  PROVE  RecordInv'
<1> DEFINE new == Movement(w)
<1>1. /\ pc[w] = "insert" /\ movements' = movements \cup {new}
      /\ stock' = stock /\ counter' = counter
  BY DEF SaveMovement
<1>2. /\ TypeOK /\ pc \in [Workers -> Steps] /\ job \in [Workers -> Jobs]
      /\ counter \in [Types -> Nat] /\ movements \subseteq Movements /\ stock \in [Rows -> Int]
      /\ job[w] \in Jobs
  BY DEF RecordInv, TypeOK
<1>3. /\ job[w].type \in Types \ {"transfer"} /\ job[w].row \in Rows
      /\ job[w].seq \in Nat /\ job[w].quantity \in Nat /\ job[w].seq <= counter[job[w].type]
  BY <1>1, <1>2 DEF RecordInv, LocalsOK, Counted, Jobs
<1>4. new \in Movements /\ new.number = Number(w) /\ new.group = 0
  BY <1>3 DEF Movement, Movements, Number, IsAddition, Adds
<1>5. /\ job' \in [Workers -> Jobs] /\ pc' \in [Workers -> Steps]
      /\ \A v \in Workers : pc'[v] = "insert" => v # w /\ pc[v] = "insert" /\ job'[v] = job[v]
      /\ \A v \in Workers : job'[v].list = {} \/ job'[v].list = job[v].list
      /\ \A v \in Workers : pc'[v] \notin {"idle", "reverse"} =>
           job'[v].type \in Types \ {"transfer"} /\ job'[v].row \in Rows
  <2>1. CASE Goto(w, "read") /\ job' = job
    BY <1>1, <1>2, <1>3, <2>1 DEF Goto, Steps, RecordInv, LocalsOK
  <2>2. CASE NextLine(w)
    <3>1. /\ job' \in [Workers -> Jobs] /\ pc' \in [Workers -> Steps]
          /\ pc' = [pc EXCEPT ![w] = pc'[w]] /\ pc'[w] \in {"idle", "number"}
          /\ job' = [job EXCEPT ![w] = job'[w]]
          /\ pc'[w] = "number" => job'[w].row \in Rows /\ job'[w].type = job[w].type
          /\ job'[w].list = {} \/ job'[w].list = job[w].list
      BY <1>2, <2>2, NextLineTypes
    <3>2. \A v \in Workers \ {w} : pc'[v] = pc[v] /\ job'[v] = job[v]
      BY <1>2, <3>1
    <3> QED
      BY <1>3, <3>1, <3>2 DEF RecordInv, LocalsOK
  <2> QED
    BY <2>1, <2>2 DEF SaveMovement
<1> HIDE DEF new
<1>6. TypeOK' /\ LocalsOK'
  BY <1>1, <1>2, <1>4, <1>5 DEF TypeOK, LocalsOK
<1>7. "transfer" \in Types /\ counter["transfer"] \in Nat
  BY <1>2 DEF Types
<1>8. Counted'
  BY <1>1, <1>4, <1>5, <1>7 DEF RecordInv, Counted
<1>9. FoliosGivenOnce'
  <2>1. new.number[2] <= counter[new.number[1]]
    BY <1>3, <1>4 DEF Number
  <2>2. \A m \in movements : m.number # new.number
    BY <1>1, <1>4 DEF RecordInv, FoliosGivenOnce
  <2>3. \A v \in Workers : pc'[v] = "insert" =>
          Number(v)' = Number(v) /\ pc[v] = "insert" /\ Number(v) # new.number
    BY <1>1, <1>4, <1>5 DEF RecordInv, FoliosGivenOnce, Number
  <2> QED
    BY <1>1, <2>1, <2>2, <2>3 DEF RecordInv, FoliosGivenOnce
<1>10. ListsWhole'
  BY <1>1, <1>4, <1>5 DEF RecordInv, ListsWhole
<1>11. TransferIsWhole'
  <2> SUFFICES ASSUME NEW m \in movements', m.group # 0
               PROVE  \E n \in movements' :
                        /\ n.row # m.row /\ n.quantity = m.quantity /\ n.addition # m.addition
                        /\ {k \in movements' : k.group = m.group} = {m, n}
    BY DEF TransferIsWhole
  <2>1. m \in movements
    BY <1>1, <1>4
  <2>2. {k \in movements' : k.group = m.group} = {k \in movements : k.group = m.group}
    BY <1>1, <1>4
  <2> QED
    BY <1>1, <2>1, <2>2 DEF RecordInv, TransferIsWhole
<1> QED
  BY <1>6, <1>8, <1>9, <1>10, <1>11 DEF RecordInv

\* The two halves of a transfer enter the record together, with folios and a group
\* that nothing else has.
LEMMA TransferStep ==
  ASSUME RecordInv, NEW w \in Workers, NEW from \in Rows, NEW to \in Rows,
         NEW q \in Quantities, Transfer(w, from, to, q)
  PROVE  RecordInv'
<1> DEFINE c == counter["transfer"]
           h == Half(c + 1, from, q, FALSE, c + 1)
           i == Half(c + 1 + 1, to, q, TRUE, c + 1)
<1>1. /\ from # to /\ movements' = movements \cup {h, i}
      /\ counter' = [counter EXCEPT !["transfer"] = c + 2]
      /\ stock' = [stock EXCEPT ![from] = @ - q, ![to] = @ + q]
      /\ pc' = pc /\ job' = job
  BY DEF Transfer
<1>2. /\ pc \in [Workers -> Steps] /\ job \in [Workers -> Jobs]
      /\ counter \in [Types -> Nat] /\ movements \subseteq Movements /\ stock \in [Rows -> Int]
      /\ q \in Nat /\ "transfer" \in Types /\ c \in Nat
  BY InventoryAssumption DEF RecordInv, TypeOK, Types
<1>3. /\ h \in Movements /\ i \in Movements /\ h # i
      /\ h.group = c + 1 /\ i.group = c + 1
      /\ h.row = from /\ i.row = to /\ h.quantity = q /\ i.quantity = q
      /\ h.addition = FALSE /\ i.addition = TRUE
      /\ h.number = <<"transfer", c + 1>> /\ i.number = <<"transfer", c + 2>>
  BY <1>1, <1>2 DEF Half, Movements
<1> HIDE DEF c, h, i
<1>4. /\ counter' \in [Types -> Nat] /\ counter'["transfer"] = c + 2
      /\ \A t \in Types \ {"transfer"} : counter'[t] = counter[t]
      /\ \A t \in Types : counter[t] <= counter'[t]
  BY <1>1, <1>2 DEF c
<1>5. stock' \in [Rows -> Int]
  BY <1>1, <1>2
<1>6. TypeOK' /\ LocalsOK'
  BY <1>1, <1>2, <1>3, <1>4, <1>5 DEF RecordInv, TypeOK, LocalsOK
<1>7. \A m \in movements : m.group \in Nat /\ m.group <= c
  BY <1>2 DEF RecordInv, Counted, Movements, c
<1>8. \A v \in Workers : \A m \in job[v].list : m.group \in Nat /\ m.group <= c
  BY <1>2 DEF RecordInv, Counted, Jobs, Movements, c
<1>9. \A v \in Workers : pc[v] = "insert" =>
        job[v].type \in Types \ {"transfer"} /\ job[v].seq <= counter[job[v].type]
  BY DEF RecordInv, LocalsOK, Counted
<1>10. Counted'
  <2>1. \A m \in movements' : m.group <= c + 2
    BY <1>1, <1>2, <1>3, <1>7
  <2>2. \A v \in Workers : \A m \in job'[v].list : m.group <= c + 2
    BY <1>1, <1>2, <1>8
  <2> QED
    BY <1>1, <1>4, <1>9, <2>1, <2>2 DEF Counted
<1>11. FoliosGivenOnce'
  <2>1. \A m \in movements :
          /\ m.number[1] \in Types /\ m.number[2] \in Nat
          /\ m.number[2] <= counter[m.number[1]] /\ m.number[2] <= counter'[m.number[1]]
    <3> SUFFICES ASSUME NEW m \in movements
                 PROVE  /\ m.number[1] \in Types /\ m.number[2] \in Nat
                        /\ m.number[2] <= counter[m.number[1]]
                        /\ m.number[2] <= counter'[m.number[1]]
      OBVIOUS
    <3>1. m.number[1] \in Types /\ m.number[2] \in Nat
      BY <1>2 DEF Movements
    <3>2. m.number[2] <= counter[m.number[1]]
      BY DEF RecordInv, FoliosGivenOnce
    <3> QED
      BY <1>2, <1>4, <3>1, <3>2
  <2>2. \A m \in movements : m.number # h.number /\ m.number # i.number
    BY <1>2, <1>3, <2>1 DEF c
  <2>3. h.number # i.number
    BY <1>2, <1>3
  <2>4. \A v \in Workers : pc[v] = "insert" =>
          Number(v) # h.number /\ Number(v) # i.number
    BY <1>3, <1>9 DEF Number
  <2>5. h.number[2] <= counter'[h.number[1]] /\ i.number[2] <= counter'[i.number[1]]
    BY <1>2, <1>3, <1>4
  <2>6. \A m, n \in movements' : m.number = n.number => m = n
    BY <1>1, <2>2, <2>3 DEF RecordInv, FoliosGivenOnce
  <2>7. \A v \in Workers : Number(v)' = Number(v) /\ pc'[v] = pc[v]
    BY <1>1 DEF Number
  <2> QED
    BY <1>1, <2>1, <2>4, <2>5, <2>6, <2>7 DEF RecordInv, FoliosGivenOnce
<1>12. ListsWhole'
  <2>1. \A v \in Workers : \A m \in job[v].list : m.group # h.group /\ m.group # i.group
    BY <1>2, <1>3, <1>8
  <2> QED
    BY <1>1, <2>1 DEF RecordInv, ListsWhole
<1>13. TransferIsWhole'
  <2> SUFFICES ASSUME NEW m \in movements', m.group # 0
               PROVE  \E n \in movements' :
                        /\ n.row # m.row /\ n.quantity = m.quantity /\ n.addition # m.addition
                        /\ {k \in movements' : k.group = m.group} = {m, n}
    BY DEF TransferIsWhole
  <2>1. CASE m \in movements
    <3>1. {k \in movements' : k.group = m.group} = {k \in movements : k.group = m.group}
      BY <1>1, <1>2, <1>3, <1>7, <2>1
    <3> QED
      BY <1>1, <2>1, <3>1 DEF RecordInv, TransferIsWhole
  <2>2. {k \in movements' : k.group = c + 1} = {h, i}
    BY <1>1, <1>2, <1>3, <1>7
  <2>3. CASE m = h
    BY <1>1, <1>3, <2>2, <2>3
  <2>4. CASE m = i
    <3>1. {h, i} = {i, h}
      OBVIOUS
    <3> QED
      BY <1>1, <1>3, <2>2, <2>4, <3>1
  <2> QED
    BY <1>1, <2>1, <2>3, <2>4
<1> QED
  BY <1>6, <1>10, <1>11, <1>12, <1>13 DEF RecordInv

\* A deletion lists its movement with the other half, if the movement has one.
LEMMA SelectStep ==
  ASSUME RecordInv, NEW w \in Workers, NEW m \in movements, SelectMovements(w, m)
  PROVE  RecordInv'
<1> DEFINE list == {n \in movements : n = m \/ (m.group # 0 /\ n.group = m.group)}
           j == [job[w] EXCEPT !.list = list]
<1>1. /\ pc' = [pc EXCEPT ![w] = "reverse"] /\ job' = [job EXCEPT ![w] = j]
      /\ stock' = stock /\ movements' = movements /\ counter' = counter
  BY DEF SelectMovements, Goto
<1>2. /\ job[w] \in Jobs /\ movements \subseteq Movements
      /\ counter \in [Types -> Nat] /\ stock \in [Rows -> Int]
  BY DEF RecordInv, TypeOK
<1>3. j \in Jobs /\ j.list = list
  BY <1>2 DEF Jobs
<1>4. \A k \in list : k.group <= counter["transfer"]
  BY DEF RecordInv, Counted
<1>5. \A k \in list : k.group # 0 => \A n \in movements : n.group = k.group => n \in list
  OBVIOUS
<1>6. \A t \in Types : counter[t] <= counter'[t]
  BY <1>1, <1>2
<1> HIDE DEF list, j
<1> QED
  BY <1>1, <1>2, <1>3, <1>4, <1>5, <1>6, JobStep DEF Steps

\* A request that ends with the record as it is, or with less on it by what its
\* deletion listed: no transfer loses one half.
LEMMA EndStep ==
  ASSUME RecordInv, NEW w \in Workers, End(w), counter' = counter, stock' \in [Rows -> Int],
         movements' = movements \/ movements' = movements \ job[w].list
  PROVE  RecordInv'
<1>1. /\ pc' = [pc EXCEPT ![w] = "idle"] /\ job' = [job EXCEPT ![w] = Idle]
  BY DEF End, Goto
<1>2. Idle \in Jobs /\ Idle.list = {}
  BY DEF Idle, Making, Jobs
<1>3. /\ pc \in [Workers -> Steps] /\ job \in [Workers -> Jobs] /\ "idle" \in Steps
      /\ movements \subseteq Movements /\ movements' \subseteq movements
  BY DEF RecordInv, TypeOK, Steps
<1>4. /\ \A v \in Workers : pc'[v] # "idle" => pc'[v] = pc[v] /\ job'[v] = job[v]
      /\ \A v \in Workers : job'[v].list = {} \/ job'[v].list = job[v].list
  BY <1>1, <1>2, <1>3
<1>5. TypeOK'
  BY <1>1, <1>2, <1>3 DEF RecordInv, TypeOK
<1>6. LocalsOK'
  BY <1>4 DEF RecordInv, LocalsOK
<1>7. Counted'
  BY <1>3, <1>4 DEF RecordInv, Counted
<1>8. FoliosGivenOnce'
  <2>1. \A v \in Workers : pc'[v] = "insert" => pc[v] = "insert" /\ Number(v)' = Number(v)
    BY <1>4 DEF Number
  <2> QED
    BY <1>3, <2>1 DEF RecordInv, FoliosGivenOnce
<1>9. ListsWhole'
  BY <1>3, <1>4 DEF RecordInv, ListsWhole
<1>10. TransferIsWhole'
  <2> SUFFICES ASSUME NEW m \in movements', m.group # 0
               PROVE  \E n \in movements' :
                        /\ n.row # m.row /\ n.quantity = m.quantity /\ n.addition # m.addition
                        /\ {k \in movements' : k.group = m.group} = {m, n}
    BY DEF TransferIsWhole
  <2>1. PICK n \in movements :
          /\ n.row # m.row /\ n.quantity = m.quantity /\ n.addition # m.addition
          /\ {k \in movements : k.group = m.group} = {m, n}
    BY <1>3 DEF RecordInv, TransferIsWhole
  <2>2. n.group = m.group
    BY <2>1
  <2>3. n \in movements'
    BY <1>3, <2>2 DEF RecordInv, ListsWhole
  <2>4. {k \in movements' : k.group = m.group} = {m, n}
    BY <1>3, <2>1, <2>3
  <2> QED
    BY <2>1, <2>3, <2>4
<1> QED
  BY <1>5, <1>6, <1>7, <1>8, <1>9, <1>10 DEF RecordInv

\* What a deletion writes is an integer for every row.
LEMMA ReversedType ==
  ASSUME TypeOK, NEW w \in Workers
  PROVE  Reversed(job[w].list) \in [Rows -> Int]
<1> DEFINE list == job[w].list
<1>1. list \subseteq Movements /\ stock \in [Rows -> Int]
  BY DEF TypeOK, Jobs
<1>2. \A m \in Movements : StockDelta(m) \in Int
  BY DEF Movements, StockDelta
<1> HIDE DEF list
<1>3. ASSUME NEW r \in Rows, \E m \in list : m.row = r
      PROVE  stock[r] - StockDelta(CHOOSE m \in list : m.row = r) \in Int
  <2>1. (CHOOSE m \in list : m.row = r) \in list
    BY <1>3
  <2>2. StockDelta(CHOOSE m \in list : m.row = r) \in Int
    BY <1>1, <1>2, <2>1
  <2> QED
    BY <1>1, <2>2
<1>4. Reversed(list) \in [Rows -> Int]
  BY <1>1, <1>3 DEF Reversed
<1> QED
  BY <1>4 DEF list

\* The statements that write the stock or fail leave the record alone.
LEMMA StatementStep ==
  ASSUME RecordInv, NEW w \in Workers,
         GetStock(w) \/ UpsertStock(w) \/ StatementFails(w)
  PROVE  RecordInv'
<1>1. /\ job \in [Workers -> Jobs] /\ job[w] \in Jobs /\ pc \in [Workers -> Steps]
      /\ counter \in [Types -> Nat] /\ stock \in [Rows -> Int]
  BY DEF RecordInv, TypeOK
<1>2. counter' = counter /\ movements' = movements /\ \A t \in Types : counter[t] <= counter'[t]
  BY <1>1 DEF GetStock, UpsertStock, StatementFails
<1>3. pc[w] \notin {"idle", "reverse"}
  BY DEF GetStock, UpsertStock, StatementFails
<1>4. CASE GetStock(w)
  <2>1. PICK q \in {stock[job[w].row]} \cup (IF "database" \in Faults THEN {0} ELSE {}) :
          job' = [job EXCEPT ![w].currentQty = q]
    BY <1>4 DEF GetStock
  <2>2. job[w].row \in Rows /\ job[w].type \in Types \ {"transfer"}
    BY <1>3 DEF RecordInv, LocalsOK
  <2>3. q \in Int
    BY <1>1, <2>1, <2>2
  <2> DEFINE j == [job[w] EXCEPT !.currentQty = q]
  <2>4. /\ j \in Jobs /\ j.list = job[w].list /\ j.row = job[w].row /\ j.type = job[w].type
        /\ job' = [job EXCEPT ![w] = j]
    BY <1>1, <2>1, <2>3 DEF Jobs
  <2>5. pc' = [pc EXCEPT ![w] = "write"] /\ stock' = stock
    BY <1>4 DEF GetStock, Goto
  <2>6. /\ \A m \in job[w].list : m.group <= counter["transfer"]
        /\ \A m \in job[w].list : m.group # 0 =>
             \A n \in movements : n.group = m.group => n \in job[w].list
    BY DEF RecordInv, Counted, ListsWhole
  <2> HIDE DEF j
  <2> QED
    BY <1>1, <1>2, <2>2, <2>4, <2>5, <2>6, JobStep DEF Steps
<1>5. CASE UpsertStock(w)
  <2>1. stock' \in [Rows -> Int]
    <3>1. job[w].currentQty \in Int /\ job[w].quantity \in Int
      BY <1>1 DEF Jobs
    <3> DEFINE x == IF Adds(job[w].type) THEN job[w].currentQty + job[w].quantity
                                         ELSE job[w].currentQty - job[w].quantity
    <3>2. stock' = [stock EXCEPT ![job[w].row] = x]
      BY <1>5 DEF UpsertStock
    <3>3. x \in Int
      BY <3>1
    <3> HIDE DEF x
    <3> QED
      BY <1>1, <3>2, <3>3
  <2>2. NextLine(w)
    BY <1>5 DEF UpsertStock
  <2> QED
    BY <1>1, <1>2, <1>3, <2>1, <2>2, NextLineStep
<1>6. CASE StatementFails(w)
  <2>1. NextLine(w) /\ stock' = stock
    BY <1>6 DEF StatementFails
  <2> QED
    BY <1>1, <1>2, <1>3, <2>1, NextLineStep
<1> QED
  BY <1>4, <1>5, <1>6

\* Every step of every request keeps the invariant.
LEMMA RecordStep == RecordInv /\ [Next]_vars => RecordInv'
<1> SUFFICES ASSUME RecordInv, [Next]_vars
             PROVE  RecordInv'
  OBVIOUS
<1>1. CASE UNCHANGED vars
  BY <1>1 DEF vars, RecordInv, TypeOK, LocalsOK, Counted, FoliosGivenOnce, ListsWhole,
              TransferIsWhole, Number
<1>2. CASE Request
  <2>1. ASSUME NEW w \in Workers, NEW r \in Rows, NEW q \in Quantities, NEW type \in Types,
               MoveOut(w, r, q) \/ MoveIn(w, type, r, q)
        PROVE  RecordInv'
    <3>1. \/ Begin(w, "exit", r, q, "request", 0)
          \/ type \in Types \ {"transfer"} /\ Begin(w, type, r, q, "request", 0)
      BY <2>1 DEF MoveOut, MoveIn, Adds
    <3> QED
      BY <3>1, BeginStep DEF Types
  <2>2. ASSUME NEW w \in Workers, NEW r \in Rows, NEW q \in Quantities,
               NEW n \in 1 .. MaxLines,
               SaleConfirmed(w, r, q, n) \/ PurchaseReceived(w, r, q, n)
        PROVE  RecordInv'
    <3>1. n - 1 \in Nat
      BY InventoryAssumption
    <3>2. \E type \in {"exit", "entry"} : Begin(w, type, r, q, "handler", n - 1)
      BY <2>2 DEF SaleConfirmed, PurchaseReceived
    <3>3. {"exit", "entry"} \subseteq Types \ {"transfer"}
      BY DEF Types
    <3> QED
      BY <3>1, <3>2, <3>3, BeginStep
  <2>3. /\ Movers \subseteq Workers /\ Deleters \subseteq Workers
        /\ Sales \subseteq Workers /\ Purchases \subseteq Workers
    BY DEF Workers
  <2>4. CASE \E w \in Movers, r \in Rows, q \in Quantities :
               MoveOut(w, r, q) \/ \E type \in Types : MoveIn(w, type, r, q)
    <3>1. "exit" \in Types
      BY DEF Types
    <3> QED
      BY <2>1, <2>3, <2>4, <3>1
  <2>5. CASE \E w \in Movers, from, to \in Rows, q \in Quantities : Transfer(w, from, to, q)
    BY <2>3, <2>5, TransferStep
  <2>6. CASE \/ \E w \in Sales, r \in Rows, q \in Quantities, n \in 1 .. MaxLines :
                  SaleConfirmed(w, r, q, n)
             \/ \E w \in Purchases, r \in Rows, q \in Quantities, n \in 1 .. MaxLines :
                  PurchaseReceived(w, r, q, n)
    BY <2>2, <2>3, <2>6
  <2>7. CASE \E w \in Deleters : \E m \in movements : SelectMovements(w, m)
    BY <2>3, <2>7, SelectStep
  <2> QED
    BY <1>2, <2>4, <2>5, <2>6, <2>7 DEF Request
<1>3. ASSUME NEW w \in Workers, Step(w)
      PROVE  RecordInv'
  <2>1. CASE Reverse(w)
    <3>1. End(w) /\ counter' = counter /\ movements' = movements \ job[w].list
      BY <2>1 DEF Reverse
    <3>2. stock' \in [Rows -> Int]
      BY <2>1, ReversedType DEF Reverse, RecordInv
    <3> QED
      BY <3>1, <3>2, EndStep
  <2>2. CASE ReverseRefused(w) \/ Crash(w)
    <3>1. End(w) /\ counter' = counter /\ movements' = movements /\ stock' = stock
      BY <2>2 DEF ReverseRefused, Crash
    <3>2. stock' \in [Rows -> Int]
      BY <3>1 DEF RecordInv, TypeOK
    <3> QED
      BY <3>1, <3>2, EndStep
  <2> QED
    BY <1>3, <2>1, <2>2, NumberStep, SaveStep, StatementStep DEF Step
<1> QED
  BY <1>1, <1>2, <1>3 DEF Next

\* The inductive invariant of the record of movements, of any number of concurrent
\* requests to move, transfer and delete (move.go, helpers.go, repository.go), with
\* or without crashes and failing statements.
THEOREM RecordInvariant == Spec => []RecordInv
<1> QED
  BY RecordInit, RecordStep, PTL DEF Spec

\* Folios of movements are unique: nextMovementNumber never gives one twice, and no
\* deletion makes it free again.
THEOREM FoliosGivenOnceHolds == Spec => []FoliosGivenOnce
<1>1. RecordInv => FoliosGivenOnce
  BY DEF RecordInv
<1> QED
  BY <1>1, RecordInvariant, PTL

\* A transfer is never left with one half, though DeleteMovement reads the halves
\* before it takes any lock.
THEOREM TransferIsWholeHolds == Spec => []TransferIsWhole
<1>1. RecordInv => TransferIsWhole
  BY DEF RecordInv
<1> QED
  BY <1>1, RecordInvariant, PTL

-----------------------------------------------------------------------------
(* Sums over finite sets: what the fold of the community modules comes to. *)

\* f adds up g over each subset of S.
SumsUp(f, g, S) ==
  f = [s \in SUBSET S |-> IF s = {} THEN 0
                          ELSE g[CHOOSE x \in s : TRUE] + f[s \ {CHOOSE x \in s : TRUE}]]

\* Among subsets of a finite set there is one that holds no other.
LEMMA MinimalSubset ==
  ASSUME NEW S, IsFiniteSet(S), NEW C, C \subseteq SUBSET S, C # {}
  PROVE  \E T \in C : \A U \in C : U \subseteq T => U = T
<1>1. C \subseteq FiniteSubsetsOf(S)
  BY FS_FiniteSubsetsOfFinite
<1>2. PICK T \in C : \A U \in C : ~ (<<U, T>> \in StrictSubsetOrdering(S))
  BY <1>1, FS_StrictSubsetOrderingWellFounded, WFMin
<1>3. ASSUME NEW U \in C, U \subseteq T, U # T
      PROVE  <<U, T>> \in StrictSubsetOrdering(S)
  <2> U \in SUBSET S /\ T \in SUBSET S
    OBVIOUS
  <2>1. <<U, T>> \in (SUBSET S) \X (SUBSET S)
    OBVIOUS
  <2>2. <<U, T>>[1] = U /\ <<U, T>>[2] = T
    OBVIOUS
  <2> QED BY <2>1, <2>2, <1>3 DEF StrictSubsetOrdering
<1>4. \A U \in C : U \subseteq T => U = T
  BY <1>2, <1>3
<1> QED BY <1>4

\* The sum of a set depends on nothing else.
LEMMA SumsUpUnique ==
  ASSUME NEW S, IsFiniteSet(S), NEW T, T \subseteq S, NEW g, NEW f, NEW h,
         SumsUp(f, g, S), SumsUp(h, g, T)
  PROVE  f[T] = h[T]
<1> DEFINE C == {s \in SUBSET T : f[s] # h[s]}
<1>1. SUFFICES ASSUME C # {} PROVE FALSE
  OBVIOUS
<1>2. IsFiniteSet(T)
  BY FS_Subset
<1>3. PICK s \in C : \A u \in C : u \subseteq s => u = s
  <2> C \subseteq SUBSET T
    OBVIOUS
  <2> HIDE DEF C
  <2> QED BY <1>1, <1>2, MinimalSubset
<1> DEFINE x == CHOOSE x \in s : TRUE
<1>4. s \in SUBSET T /\ s \in SUBSET S /\ f[s] # h[s]
  BY <1>3
<1>5. s # {} 
  BY <1>4 DEF SumsUp
<1>6. x \in s
  BY <1>5
<1>7. s \ {x} \in SUBSET T /\ s \ {x} \in SUBSET S /\ s \ {x} # s
  BY <1>4, <1>6
<1>8. f[s \ {x}] = h[s \ {x}]
  BY <1>3, <1>7
<1>9. f[s] = g[x] + f[s \ {x}] /\ h[s] = g[x] + h[s \ {x}]
  BY <1>4, <1>5 DEF SumsUp
<1> QED BY <1>4, <1>8, <1>9

\* A sum over the subsets of S is one over those of a part of S.
LEMMA SumsUpRestricted ==
  ASSUME NEW S, NEW T, T \subseteq S, NEW g, NEW f, SumsUp(f, g, S),
         NEW h, h = [s \in SUBSET T |-> f[s]]
  PROVE  SumsUp(h, g, T)
<1>1. ASSUME NEW s \in SUBSET T
      PROVE  h[s] = IF s = {} THEN 0
                    ELSE g[CHOOSE x \in s : TRUE] + h[s \ {CHOOSE x \in s : TRUE}]
  <2>1. s \in SUBSET S /\ \A y : s \ {y} \in SUBSET T
    OBVIOUS
  <2>2. f[s] = IF s = {} THEN 0
               ELSE g[CHOOSE x \in s : TRUE] + f[s \ {CHOOSE x \in s : TRUE}]
    BY <2>1 DEF SumsUp
  <2> QED
    BY <2>1, <2>2
<1>2. h = [s \in SUBSET T |-> h[s]]
  OBVIOUS
<1> QED
  BY <1>1, <1>2 DEF SumsUp

\* There is such a sum for every finite set.
LEMMA SumsUpExists ==
  ASSUME NEW S, IsFiniteSet(S), NEW g
  PROVE  \E f : SumsUp(f, g, S)
<1> DEFINE C == {T \in SUBSET S : ~ \E f : SumsUp(f, g, T)}
<1>1. SUFFICES ASSUME C # {} PROVE FALSE
  <2> S \in SUBSET S
    OBVIOUS
  <2> QED OBVIOUS
<1>3. PICK T \in C : \A u \in C : u \subseteq T => u = T
  <2> C \subseteq SUBSET S
    OBVIOUS
  <2> HIDE DEF C
  <2> QED BY <1>1, MinimalSubset
<1>4. T \in SUBSET S /\ ~ \E f : SumsUp(f, g, T)
  BY <1>3
<1>5. \A U \in SUBSET T : U # T => \E f : SumsUp(f, g, U)
  BY <1>3, <1>4
<1> DEFINE F(U) == CHOOSE f : SumsUp(f, g, U)
           pick(s) == CHOOSE x \in s : TRUE
           val(s) == IF s = {} THEN 0 ELSE g[pick(s)] + F(s \ {pick(s)})[s \ {pick(s)}]
           v == [s \in SUBSET T |-> val(s)]
<1>6. \A U \in SUBSET T : U # T => SumsUp(F(U), g, U)
  BY <1>5
<1>7. \A s : s # {} => pick(s) \in s
  OBVIOUS
<1>8. ASSUME NEW s \in SUBSET T, s # T
      PROVE  v[s] = F(s)[s]
  <2>1. CASE s = {}
    <3>1. SumsUp(F(s), g, s) /\ s \in SUBSET s
      BY <1>6, <1>8
    <3>2. F(s)[s] = 0
      BY <3>1, <2>1 DEF SumsUp
    <3> QED BY <3>2, <2>1
  <2>2. CASE s # {}
    <3> DEFINE u == s \ {pick(s)}
    <3>1. u \in SUBSET T /\ u # T /\ u \subseteq s /\ s \in SUBSET s /\ u \in SUBSET s
      BY <1>7, <1>8, <2>2
    <3>2. SumsUp(F(s), g, s) /\ SumsUp(F(u), g, u)
      BY <3>1, <1>6, <1>8
    <3>3. IsFiniteSet(s)
      BY <1>4, FS_Subset
    <3>4. F(s)[u] = F(u)[u]
      <4> HIDE DEF F, u
      <4> QED BY <3>1, <3>2, <3>3, SumsUpUnique
    <3>5. F(s)[s] = g[pick(s)] + F(s)[u]
      BY <3>1, <3>2, <2>2 DEF SumsUp
    <3>6. v[s] = g[pick(s)] + F(u)[u]
      BY <2>2
    <3> QED BY <3>4, <3>5, <3>6
  <2> QED BY <2>1, <2>2
<1>9. ASSUME NEW s \in SUBSET T
      PROVE  v[s] = IF s = {} THEN 0 ELSE g[pick(s)] + v[s \ {pick(s)}]
  <2>1. CASE s = {}
    BY <2>1
  <2>2. CASE s # {}
    <3> DEFINE u == s \ {pick(s)}
    <3>1. u \in SUBSET T /\ u # T
      BY <1>7, <2>2
    <3>2. v[u] = F(u)[u]
      <4> HIDE DEF v, F, u
      <4> QED BY <3>1, <1>8
    <3>3. v[s] = g[pick(s)] + F(u)[u]
      BY <2>2
    <3> HIDE DEF v, F
    <3> QED BY <3>2, <3>3, <2>2
  <2> QED BY <2>1, <2>2
<1>10. v = [s \in SUBSET T |-> v[s]]
  OBVIOUS
<1>11. SumsUp(v, g, T)
  <2> HIDE DEF v
  <2> QED BY <1>9, <1>10 DEF SumsUp
<1> QED BY <1>4, <1>11

\* Sums of numbers are numbers.
LEMMA SumsUpType ==
  ASSUME NEW S, IsFiniteSet(S), NEW g, NEW R \in {Nat, Int}, \A x \in S : g[x] \in R, NEW f, SumsUp(f, g, S)
  PROVE  \A s \in SUBSET S : f[s] \in R
<1> DEFINE C == {s \in SUBSET S : f[s] \notin R}
<1>1. SUFFICES ASSUME C # {} PROVE FALSE
  OBVIOUS
<1>3. PICK s \in C : \A u \in C : u \subseteq s => u = s
  <2> C \subseteq SUBSET S
    OBVIOUS
  <2> HIDE DEF C
  <2> QED BY <1>1, MinimalSubset
<1> DEFINE x == CHOOSE x \in s : TRUE
<1>4. s \in SUBSET S /\ f[s] \notin R
  BY <1>3
<1>5. s # {}
  BY <1>4 DEF SumsUp
<1>6. x \in s
  BY <1>5
<1>7. s \ {x} \in SUBSET S /\ s \ {x} # s
  BY <1>4, <1>6
<1>8. f[s \ {x}] \in R
  BY <1>3, <1>7
<1>9. f[s] = g[x] + f[s \ {x}]
  BY <1>4, <1>5 DEF SumsUp
<1>10. g[x] \in R
  BY <1>4, <1>6
<1> HIDE DEF x
<1> QED BY <1>4, <1>8, <1>9, <1>10

\* In whatever order.
LEMMA SumsUpElement ==
  ASSUME NEW S, IsFiniteSet(S), NEW g, \A x \in S : g[x] \in Int, NEW f, SumsUp(f, g, S)
  PROVE  \A s \in SUBSET S : \A x \in s : f[s] = g[x] + f[s \ {x}]
<1> DEFINE C == {s \in SUBSET S : \E x \in s : f[s] # g[x] + f[s \ {x}]}
<1>1. SUFFICES ASSUME C # {} PROVE FALSE
  OBVIOUS
<1>3. PICK s \in C : \A u \in C : u \subseteq s => u = s
  <2> C \subseteq SUBSET S
    OBVIOUS
  <2> HIDE DEF C
  <2> QED BY <1>1, MinimalSubset
<1>4. s \in SUBSET S
  BY <1>3
<1>5. PICK x \in s : f[s] # g[x] + f[s \ {x}]
  BY <1>3
<1> DEFINE y == CHOOSE z \in s : TRUE
<1>6. y \in s
  BY <1>5
<1>7. f[s] = g[y] + f[s \ {y}]
  BY <1>4, <1>5 DEF SumsUp
<1> HIDE DEF y
<1>8. x # y
  BY <1>5, <1>7
<1>9. \A u \in SUBSET S : u \subseteq s /\ u # s => \A z \in u : f[u] = g[z] + f[u \ {z}]
  BY <1>3
<1>10. f[s \ {y}] = g[x] + f[(s \ {y}) \ {x}]
  <2>1. s \ {y} \in SUBSET S /\ s \ {y} \subseteq s /\ s \ {y} # s /\ x \in s \ {y}
    BY <1>4, <1>6, <1>8
  <2> QED BY <2>1, <1>9
<1>11. f[s \ {x}] = g[y] + f[(s \ {x}) \ {y}]
  <2>1. s \ {x} \in SUBSET S /\ s \ {x} \subseteq s /\ s \ {x} # s /\ y \in s \ {x}
    BY <1>4, <1>6, <1>8
  <2> QED BY <2>1, <1>9
<1>12. (s \ {x}) \ {y} = (s \ {y}) \ {x}
  OBVIOUS
<1>13. f[(s \ {y}) \ {x}] \in Int /\ g[x] \in Int /\ g[y] \in Int
  <2>1. (s \ {y}) \ {x} \in SUBSET S
    BY <1>4
  <2>2. \A u \in SUBSET S : f[u] \in Int
    BY SumsUpType
  <2> QED BY <2>1, <2>2, <1>4, <1>6
<1> DEFINE r == f[(s \ {y}) \ {x}]
<1>14. f[s] = g[y] + (g[x] + r) /\ f[s \ {x}] = g[y] + r
  BY <1>7, <1>10, <1>11, <1>12
<1>15. r \in Int
  BY <1>13
<1> HIDE DEF r
<1>16. f[s] = g[x] + f[s \ {x}]
  BY <1>13, <1>14, <1>15
<1> QED BY <1>5, <1>16

\* What movements on record add to the stock.
Effect(S) == Ledger!MapThenSumSet(Ledger!StockDelta, S)

\* The fold of the community modules is such a sum.
LEMMA EffectAdds ==
  ASSUME NEW S, IsFiniteSet(S), NEW g, \A m \in S : g[m] = StockDelta(m), NEW f, SumsUp(f, g, S)
  PROVE  Effect(S) = f[S]
<1> DEFINE Eq(h) == h = [s \in SUBSET S |-> IF s = {} THEN 0
                          ELSE Ledger!StockDelta(CHOOSE x \in s : TRUE) + h[s \ {CHOOSE x \in s : TRUE}]]
<1>1. Effect(S) = (CHOOSE h : Eq(h))[S]
  BY DEF Effect, Ledger!MapThenSumSet, Ledger!MapThenFoldSet
<1>2. ASSUME NEW h PROVE Eq(h) <=> SumsUp(h, g, S)
  <2>1. \A s \in SUBSET S : s # {} => g[CHOOSE x \in s : TRUE] = Ledger!StockDelta(CHOOSE x \in s : TRUE)
    BY DEF StockDelta, Ledger!StockDelta
  <2>2. [s \in SUBSET S |-> IF s = {} THEN 0
            ELSE Ledger!StockDelta(CHOOSE x \in s : TRUE) + h[s \ {CHOOSE x \in s : TRUE}]] =
        [s \in SUBSET S |-> IF s = {} THEN 0
            ELSE g[CHOOSE x \in s : TRUE] + h[s \ {CHOOSE x \in s : TRUE}]]
    BY <2>1
  <2> QED BY <2>2 DEF SumsUp
<1>3. Eq(f)
  BY <1>2
<1>4. Eq(CHOOSE h : Eq(h))
  <2> HIDE DEF Eq
  <2> QED BY <1>3
<1>5. SumsUp(CHOOSE h : Eq(h), g, S)
  <2> HIDE DEF Eq
  <2> QED BY <1>2, <1>4
<1>6. (CHOOSE h : Eq(h))[S] = f[S]
  <2> HIDE DEF Eq
  <2> QED BY <1>5, SumsUpUnique
<1> QED BY <1>1, <1>6

\* Nothing on record has no effect, and one movement more has its own.
LEMMA EffectOf ==
  ASSUME NEW S, IsFiniteSet(S), S \subseteq Movements
  PROVE  /\ Effect(S) \in Int
         /\ S = {} => Effect(S) = 0
         /\ \A m \in S : Effect(S) = StockDelta(m) + Effect(S \ {m})
<1> DEFINE g == [m \in S |-> StockDelta(m)]
<1>1. \A m \in S : g[m] = StockDelta(m) /\ g[m] \in Int
  BY DEF Movements, StockDelta
<1> HIDE DEF g
<1>2. PICK f : SumsUp(f, g, S)
  BY SumsUpExists
<1>3. Effect(S) = f[S]
  BY <1>1, <1>2, EffectAdds
<1>4. Effect(S) \in Int
  <2>1. \A s \in SUBSET S : f[s] \in Int
    BY <1>1, <1>2, SumsUpType
  <2> QED
    BY <1>3, <2>1
<1>5. ASSUME S = {}
      PROVE  Effect(S) = 0
  BY <1>2, <1>3, <1>5 DEF SumsUp
<1>6. \A y \in S : g[y] \in Int
  BY <1>1
<1>7. ASSUME NEW x \in S
      PROVE  Effect(S) = StockDelta(x) + Effect(S \ {x})
  <2> DEFINE T == S \ {x}
             h == [s \in SUBSET T |-> f[s]]
  <2>1. T \subseteq S /\ IsFiniteSet(T)
    BY FS_Subset
  <2>2. h = [s \in SUBSET T |-> f[s]] /\ h[T] = f[T]
    OBVIOUS
  <2>3. SumsUp(h, g, T)
    <3> HIDE DEF T, h
    <3> QED
      BY <1>2, <2>1, <2>2, SumsUpRestricted
  <2>4. Effect(T) = h[T]
    <3> HIDE DEF T, h
    <3>1. \A m \in T : g[m] = StockDelta(m)
      BY <1>1, <2>1
    <3> QED
      BY <2>1, <2>3, <3>1, EffectAdds
  <2>5. f[S] = g[x] + f[S \ {x}]
    <3> HIDE DEF T, h
    <3> QED
      BY <1>2, <1>6, SumsUpElement
  <2> QED
    BY <1>1, <1>3, <2>2, <2>4, <2>5
<1> QED
  BY <1>4, <1>5, <1>7

\* A balance is an integer for every row.
LEMMA BalanceType ==
  ASSUME NEW S, IsFiniteSet(S), S \subseteq Movements
  PROVE  Ledger!BalanceOf(S) \in [Rows -> Int]
<1>1. ASSUME NEW r \in Rows
      PROVE  Opening[r] + Effect(Ledger!On(r, S)) \in Int
  <2>1. Ledger!On(r, S) \subseteq S
    BY DEF Ledger!On
  <2>2. Effect(Ledger!On(r, S)) \in Int
    BY <2>1, FS_Subset, EffectOf
  <2> QED
    BY <2>2, InventoryAssumption
<1> QED
  BY <1>1 DEF Ledger!BalanceOf, Effect

\* What a movement does to the balance of a row when it enters the record.
LEMMA BalanceWith ==
  ASSUME NEW S, IsFiniteSet(S), S \subseteq Movements, NEW m \in Movements, m \notin S
  PROVE  \A r \in Rows : Ledger!BalanceOf(S \cup {m})[r] =
           Ledger!BalanceOf(S)[r] + (IF m.row = r THEN StockDelta(m) ELSE 0)
<1>1. \A T : \A r \in Rows : Ledger!BalanceOf(T)[r] = Opening[r] + Effect(Ledger!On(r, T))
  BY DEF Ledger!BalanceOf, Effect
<1>2. ASSUME NEW r \in Rows
      PROVE  Ledger!BalanceOf(S \cup {m})[r] =
               Ledger!BalanceOf(S)[r] + (IF m.row = r THEN StockDelta(m) ELSE 0)
  <2> DEFINE O == Ledger!On(r, S)
  <2>1. O \subseteq Movements /\ IsFiniteSet(O) /\ m \notin O
    <3>1. O \subseteq S
      BY DEF Ledger!On
    <3> QED
      BY <3>1, FS_Subset
  <2>2. Opening[r] \in Int /\ Effect(O) \in Int
    BY <2>1, EffectOf, InventoryAssumption
  <2>3. CASE m.row = r
    <3>1. Ledger!On(r, S \cup {m}) = O \cup {m}
      BY <2>3 DEF Ledger!On
    <3>2. IsFiniteSet(O \cup {m}) /\ O \cup {m} \subseteq Movements /\ (O \cup {m}) \ {m} = O
      BY <2>1, FS_AddElement
    <3>3. Effect(O \cup {m}) = StockDelta(m) + Effect(O)
      <4> HIDE DEF O
      <4>1. m \in O \cup {m}
        OBVIOUS
      <4>2. Effect(O \cup {m}) = StockDelta(m) + Effect((O \cup {m}) \ {m})
        BY <3>2, <4>1, EffectOf
      <4> QED
        BY <3>2, <4>2
    <3>4. StockDelta(m) \in Int
      BY DEF StockDelta, Movements
    <3>5. /\ Ledger!BalanceOf(S \cup {m})[r] = Opening[r] + Effect(O \cup {m})
          /\ Ledger!BalanceOf(S)[r] = Opening[r] + Effect(O)
      BY <1>1, <3>1
    <3> HIDE DEF O
    <3> QED
      BY <2>2, <2>3, <3>3, <3>4, <3>5
  <2>4. CASE m.row # r
    <3>1. Ledger!On(r, S \cup {m}) = O
      BY <2>4 DEF Ledger!On
    <3> QED
      BY <1>1, <2>2, <2>4, <3>1
  <2> QED
    BY <2>2, <2>3, <2>4, <1>1
<1> QED
  BY <1>2

-----------------------------------------------------------------------------
(* The stock and the record.                                               *)

Book == movements \ Unapplied

UnderWay == {w \in Workers : pc[w] \in {"read", "write"}}
Pending == {Movement(w) : w \in UnderWay}

\* The other requests stay where they are.
Alone(w) == \A v \in Workers \ {w} : pc'[v] = pc[v] /\ job'[v] = job[v]

\* The movements that are not applied yet are those of the requests under way, of
\* what is left of them on record.
LEMMA BookIs ==
  ASSUME HoldsOK
  PROVE  Book = movements \ Pending
<1>1. \A w \in Workers : Movement(w).number = Number(w)
  BY DEF Movement
<1> QED
  BY <1>1 DEF Book, Unapplied, Pending, UnderWay, HoldsOK

LEMMA BookIsNext ==
  ASSUME HoldsOK'
  PROVE  Book' = movements' \ Pending'
<1>1. \A w \in Workers : Movement(w)'.number = Number(w)'
  BY DEF Movement
<1> QED
  BY <1>1 DEF Book, Unapplied, Pending, UnderWay, HoldsOK

\* The types of what a request holds.
LEMMA WorkerTypes ==
  ASSUME RecordInv, NEW w \in Workers
  PROVE  /\ job[w] \in Jobs /\ pc[w] \in Steps /\ movements \subseteq Movements
         /\ stock \in [Rows -> Int] /\ counter \in [Types -> Nat] /\ RowsOf[w] \subseteq Rows
         /\ pc \in [Workers -> Steps] /\ job \in [Workers -> Jobs]
         /\ pc[w] \in MakingSteps => job[w].type \in Types \ {"transfer"} /\ job[w].row \in Rows
BY InventoryAssumption DEF RecordInv, TypeOK, LocalsOK, MakingSteps

\* Folios on record, or listed by a deletion, and the movement a request makes.
LEMMA MovementTypes ==
  ASSUME RecordInv, NEW w \in Workers, pc[w] \in MakingSteps
  PROVE  /\ Movement(w) \in Movements /\ Movement(w).number = Number(w)
         /\ Movement(w).group = 0 /\ Movement(w).row = job[w].row
         /\ job[w].seq \in Nat /\ job[w].type \in Types /\ job[w].type # "transfer"
<1>1. job[w] \in Jobs /\ job[w].type \in Types \ {"transfer"} /\ job[w].row \in Rows
  BY WorkerTypes
<1>2. job[w].seq \in Nat /\ job[w].quantity \in Nat /\ IsAddition(w) \in BOOLEAN
  BY <1>1 DEF Jobs, IsAddition, Adds
<1> QED
  BY <1>1, <1>2 DEF Movement, Movements, Number

-----------------------------------------------------------------------------
(* Folios.                                                                 *)

\* A step that gives no folio and inserts nothing.
LEMMA HoldsKept ==
  ASSUME RecordInv, RecordInv', HoldsOK, NEW w \in Workers, Alone(w), movements' \subseteq movements,
         \A t \in Types : counter[t] <= counter'[t],
         pc'[w] \in Holding => pc[w] \in Holding /\ Movement(w)' = Movement(w),
         pc'[w] \in {"read", "write"} => pc[w] \in {"read", "write"},
         pc'[w] \in Holding => job'[w].seq = job[w].seq /\ job'[w].type = job[w].type
  PROVE  HoldsOK'
<1>1. \A v \in Workers : pc'[v] \in Holding =>
        /\ pc[v] \in Holding /\ Number(v)' = Number(v) /\ Movement(v)' = Movement(v)
        /\ job'[v].seq = job[v].seq /\ job'[v].type = job[v].type
  BY DEF Alone, Number, Movement, IsAddition
<1>2. \A v \in Workers : pc'[v] \in {"read", "write"} => pc[v] \in {"read", "write"} /\ pc'[v] \in Holding
  BY DEF Alone, Holding
<1>3. ASSUME NEW v \in Workers, pc'[v] \in Holding
      PROVE  job'[v].seq <= counter'[job'[v].type]
  <2>1. job[v].seq <= counter[job[v].type]
    BY <1>1, <1>3 DEF HoldsOK
  <2>2. /\ job[v].seq \in Nat /\ job[v].type \in Types
    BY <1>1, <1>3, MovementTypes DEF Holding, MakingSteps
  <2>3. counter \in [Types -> Nat] /\ counter' \in [Types -> Nat]
    BY DEF RecordInv, TypeOK
  <2>4. counter[job[v].type] \in Nat /\ counter'[job[v].type] \in Nat
        /\ counter[job[v].type] <= counter'[job[v].type]
    BY <2>2, <2>3
  <2>5. job[v].seq <= counter'[job[v].type]
    BY <2>1, <2>2, <2>4
  <2> QED
    BY <1>1, <1>3, <2>5
<1> QED
  BY <1>1, <1>2, <1>3 DEF HoldsOK

\* The folio that is given is above those that are held.
LEMMA HoldsGiven ==
  ASSUME RecordInv, RecordInv', HoldsOK, NEW w \in Workers, Alone(w), UNCHANGED movements,
         pc[w] = "number", pc'[w] = "insert",
         job'[w] = [job[w] EXCEPT !.seq = counter[job[w].type] + 1],
         counter' = [counter EXCEPT ![job[w].type] = @ + 1]
  PROVE  HoldsOK'
<1>1. /\ job[w] \in Jobs /\ job[w].type \in Types /\ counter \in [Types -> Nat]
      /\ job'[w].seq = counter[job[w].type] + 1 /\ job'[w].type = job[w].type
  BY WorkerTypes DEF MakingSteps, Jobs
<1>2. /\ \A t \in Types : counter[t] \in Nat /\ counter'[t] \in Nat /\ counter[t] <= counter'[t]
      /\ counter'[job[w].type] = counter[job[w].type] + 1
  BY <1>1
<1>3. ASSUME NEW v \in Workers \ {w}, pc'[v] \in Holding
      PROVE  /\ pc[v] \in Holding /\ job'[v] = job[v] /\ job[v].seq \in Nat /\ job[v].type \in Types
             /\ job[v].seq <= counter[job[v].type]
  <2>1. pc[v] \in Holding /\ job'[v] = job[v]
    BY <1>3 DEF Alone
  <2> QED
    BY <2>1, MovementTypes DEF HoldsOK, Holding, MakingSteps
<1>4. ASSUME NEW v \in Workers \ {w}, pc'[v] \in Holding
      PROVE  Number(v)' # Number(w)' /\ Number(v)' = Number(v)
  <2>1. job'[v] = job[v] /\ job[v].seq \in Nat /\ job[v].seq <= counter[job[v].type]
    BY <1>3, <1>4
  <2>2. job[v].type = job[w].type => job[v].seq # counter[job[w].type] + 1
    BY <1>1, <1>2, <2>1
  <2> QED
    BY <1>1, <2>1, <2>2 DEF Number
<1>5. ASSUME NEW v \in Workers, pc'[v] \in Holding
      PROVE  job'[v].seq <= counter'[job'[v].type]
  <2>1. CASE v = w
    <3>1. job'[v].seq = counter'[job'[v].type]
      BY <1>1, <1>2, <2>1
    <3>2. counter'[job'[v].type] \in Nat
      BY <1>1, <1>2, <2>1
    <3> QED
      BY <3>1, <3>2
  <2>2. CASE v # w
    <3>1. /\ job'[v] = job[v] /\ job[v].seq \in Nat /\ job[v].type \in Types
          /\ job[v].seq <= counter[job[v].type]
      BY <1>3, <1>5, <2>2
    <3>2. counter[job[v].type] \in Nat /\ counter'[job[v].type] \in Nat
          /\ counter[job[v].type] <= counter'[job[v].type]
      BY <1>2, <3>1
    <3>3. job[v].seq <= counter'[job[v].type]
      BY <3>1, <3>2
    <3> QED
      BY <3>1, <3>3
  <2> QED
    BY <2>1, <2>2
<1>6. \A u, v \in Workers : pc'[u] \in Holding /\ pc'[v] \in Holding /\ Number(u)' = Number(v)' => u = v
  BY <1>3, <1>4 DEF HoldsOK
<1>7. \A v \in Workers : pc'[v] \in {"read", "write"} =>
        \A m \in movements' : m.number = Number(v)' => m = Movement(v)'
  <2>1. \A v \in Workers : pc'[v] \in {"read", "write"} =>
          v # w /\ pc[v] = pc'[v] /\ Number(v)' = Number(v) /\ Movement(v)' = Movement(v)
    BY DEF Alone, Number, Movement, IsAddition
  <2> QED
    BY <2>1 DEF HoldsOK
<1> QED
  BY <1>5, <1>6, <1>7 DEF HoldsOK

\* What is inserted carries the folio of the request that inserts it, and of no other.
LEMMA HoldsSaved ==
  ASSUME RecordInv, RecordInv', HoldsOK, NEW w \in Workers, Alone(w), UNCHANGED counter,
         pc[w] = "insert", movements' = movements \cup {Movement(w)},
         \/ pc'[w] = "read" /\ UNCHANGED job
         \/ pc'[w] \in {"idle", "number"}
  PROVE  HoldsOK'
<1>1. \A v \in Workers : pc'[v] \in Holding => pc[v] \in Holding /\ job'[v] = job[v]
  BY DEF Alone, Holding
<1>2. \A v \in Workers : pc'[v] \in Holding => Number(v)' = Number(v) /\ Movement(v)' = Movement(v)
  BY <1>1 DEF Number, Movement, IsAddition
<1>3. Movement(w).number = Number(w) /\ \A m \in movements : m.number # Number(w)
  BY DEF Movement, RecordInv, FoliosGivenOnce
<1>4. ASSUME NEW v \in Workers, pc'[v] \in {"read", "write"}, NEW m \in movements', m.number = Number(v)'
      PROVE  m = Movement(v)'
  <2>1. pc'[v] \in Holding /\ Number(v)' = Number(v) /\ Movement(v)' = Movement(v)
    BY <1>2, <1>4 DEF Holding
  <2>2. CASE v = w
    BY <1>3, <1>4, <2>1, <2>2
  <2>3. CASE v # w
    <3>1. pc[v] = pc'[v] /\ pc[v] \in Holding /\ pc[w] \in Holding
      BY <1>4, <2>3 DEF Alone, Holding
    <3>2. Number(v) # Number(w)
      BY <2>3, <3>1 DEF HoldsOK
    <3> QED
      BY <1>3, <1>4, <2>1, <3>1, <3>2 DEF HoldsOK
  <2> QED
    BY <2>2, <2>3
<1> QED
  BY <1>1, <1>2, <1>4 DEF HoldsOK

-----------------------------------------------------------------------------
(* What deletions list.                                                    *)

\* Of two lists the one has all of the other or nothing of it.
LEMMA ListsApart ==
  ASSUME RecordInv, ListsOK, NEW v \in Workers, NEW w \in Workers, pc[v] = "reverse", pc[w] = "reverse",
         job[v].list \subseteq movements
  PROVE  job[v].list \subseteq job[w].list \/ job[v].list \cap job[w].list = {}
<1> SUFFICES ASSUME NEW m \in job[v].list, m \in job[w].list
             PROVE  job[v].list \subseteq job[w].list
  OBVIOUS
<1>1. Ledger!WholeOperation(job[v].list)
  BY DEF ListsOK
<1>2. CASE m.group = 0
  <2>1. job[v].list = {m}
    BY <1>1, <1>2 DEF Ledger!WholeOperation, Ledger!Halves
  <2> QED
    BY <2>1
<1>3. CASE m.group # 0
  <2>1. \A n \in job[v].list : n.group = m.group
    BY <1>1, <1>3 DEF Ledger!WholeOperation, Ledger!Halves
  <2> QED
    BY <1>3, <2>1 DEF RecordInv, ListsWhole
<1> QED
  BY <1>2, <1>3

\* A step by which nothing listed enters the record, and what leaves it does so by
\* whole lists.
LEMMA ListsKept ==
  ASSUME RecordInv, RecordInv', ListsOK, NEW w \in Workers, Alone(w),
         \A t \in Types : counter[t] <= counter'[t],
         pc'[w] # "reverse",
         \/ movements \subseteq movements'
            /\ \A v \in Workers : pc[v] = "reverse" => \A m \in movements' \ movements : m \notin job[v].list
         \/ pc[w] = "reverse" /\ movements' = movements \ job[w].list,
         pc'[w] = "insert" => \A v \in Workers : pc[v] = "reverse" =>
                                \A m \in job[v].list : m.number # Number(w)'
  PROVE  ListsOK'
<1> SUFFICES ASSUME NEW v \in Workers, pc'[v] = "reverse"
             PROVE  /\ Ledger!WholeOperation(job[v].list)
                    /\ job[v].list \subseteq movements' \/ job[v].list \cap movements' = {}
                    /\ \A m \in job[v].list :
                         /\ m.number[2] <= counter'[m.number[1]]
                         /\ \A x \in Workers : pc'[x] = "insert" => m.number # Number(x)'
  <2>1. \A v \in Workers : pc'[v] = "reverse" => job'[v] = job[v]
    BY DEF Alone
  <2> QED
    BY <2>1 DEF ListsOK, Ledger!WholeOperation, Ledger!Halves
<1>1. v # w /\ pc[v] = "reverse" /\ job'[v] = job[v]
  BY DEF Alone
<1>2. /\ Ledger!WholeOperation(job[v].list)
      /\ job[v].list \subseteq movements \/ job[v].list \cap movements = {}
      /\ \A m \in job[v].list :
           /\ m.number[2] <= counter[m.number[1]]
           /\ \A x \in Workers : pc[x] = "insert" => m.number # Number(x)
  BY <1>1 DEF ListsOK
<1>3. job[v].list \subseteq movements' \/ job[v].list \cap movements' = {}
  <2>1. CASE movements \subseteq movements' /\ \A m \in movements' \ movements : m \notin job[v].list
    BY <1>2, <2>1
  <2>2. CASE pc[w] = "reverse" /\ movements' = movements \ job[w].list
    <3>1. CASE job[v].list \subseteq movements
      BY <1>1, <2>2, <3>1, ListsApart
    <3>2. CASE job[v].list \cap movements = {}
      BY <2>2, <3>2
    <3> QED
      BY <1>2, <3>1, <3>2
  <2> QED
    BY <1>1, <2>1, <2>2
<1>4. ASSUME NEW m \in job[v].list
      PROVE  /\ m.number[2] <= counter'[m.number[1]]
             /\ \A x \in Workers : pc'[x] = "insert" => m.number # Number(x)'
  <2>1. m \in Movements
    BY WorkerTypes DEF Jobs
  <2>2. m.number[1] \in Types /\ m.number[2] \in Nat
    BY <2>1 DEF Movements
  <2>3. counter \in [Types -> Nat] /\ counter' \in [Types -> Nat]
    BY DEF RecordInv, TypeOK
  <2>4. counter[m.number[1]] \in Nat /\ counter'[m.number[1]] \in Nat
        /\ counter[m.number[1]] <= counter'[m.number[1]]
    BY <2>2, <2>3
  <2>5. m.number[2] <= counter[m.number[1]]
    BY <1>2
  <2>6. m.number[2] <= counter'[m.number[1]]
    BY <2>2, <2>4, <2>5
  <2>7. ASSUME NEW x \in Workers, pc'[x] = "insert"
        PROVE  m.number # Number(x)'
    <3>1. CASE x = w
      BY <1>1, <2>7, <3>1
    <3>2. CASE x # w
      BY <1>2, <2>7, <3>2 DEF Alone, Number
    <3> QED
      BY <3>1, <3>2
  <2> QED
    BY <2>6, <2>7
<1> QED
  BY <1>2, <1>3, <1>4

-----------------------------------------------------------------------------
(* What becomes of the book, and of the rows that follow it.               *)

\* The book is finite and of movements.
LEMMA BookTypes ==
  ASSUME RecordInv, IsFiniteSet(movements)
  PROVE  Book \subseteq Movements /\ Book \subseteq movements /\ IsFiniteSet(Book)
<1>1. Book \subseteq movements
  BY DEF Book
<1> QED
  BY <1>1, FS_Subset DEF RecordInv, TypeOK

\* A request that is under way before and after, or neither.
LEMMA PendingSame ==
  ASSUME NEW w \in Workers, Alone(w),
         pc'[w] \in {"read", "write"} <=> pc[w] \in {"read", "write"},
         pc[w] \in {"read", "write"} => Movement(w)' = Movement(w)
  PROVE  Pending' = Pending
<1>1. UnderWay' = UnderWay
  BY DEF UnderWay, Alone
<1>2. \A v \in UnderWay : Movement(v)' = Movement(v)
  BY DEF UnderWay, Alone, Movement, IsAddition, Number
<1> QED
  BY <1>1, <1>2 DEF Pending

\* One that no longer is.
LEMMA PendingLeft ==
  ASSUME HoldsOK, NEW w \in Workers, Alone(w), pc[w] \in {"read", "write"}, pc'[w] \notin {"read", "write"}
  PROVE  Pending' = Pending \ {Movement(w)} /\ Movement(w) \in Pending
<1> DEFINE M == Movement(w)
<1>1. UnderWay' = UnderWay \ {w} /\ w \in UnderWay /\ UnderWay \subseteq Workers
  BY DEF UnderWay, Alone
<1>2. \A v \in UnderWay \ {w} : Movement(v)' = Movement(v)
  BY <1>1 DEF Movement, IsAddition, Number, Alone
<1>3. \A v \in UnderWay \ {w} : Movement(v) # M
  <2> SUFFICES ASSUME NEW v \in UnderWay \ {w} PROVE Movement(v) # M
    OBVIOUS
  <2>1. Number(v) # Number(w)
    BY <1>1 DEF HoldsOK, Holding, UnderWay
  <2>2. Movement(v).number = Number(v) /\ M.number = Number(w)
    BY DEF Movement
  <2> QED
    BY <2>1, <2>2
<1>4. Pending' = {Movement(v) : v \in UnderWay \ {w}}
  BY <1>1, <1>2 DEF Pending
<1> HIDE DEF M
<1>5. Pending = {Movement(v) : v \in UnderWay \ {w}} \cup {M}
  BY <1>1 DEF Pending, M
<1>6. M \in Pending /\ Pending' = Pending \ {M}
  BY <1>3, <1>4, <1>5
<1> QED
  BY <1>6 DEF M

\* The balances where one movement more is on record.
LEMMA FollowedWith ==
  ASSUME RecordInv, IsFiniteSet(movements), Followed, NEW M \in Movements, M \notin Book,
         Book' = Book \cup {M},
         \A r \in Rows \ adrift' : /\ r \notin adrift
                                   /\ stock'[r] = stock[r] + (IF M.row = r THEN StockDelta(M) ELSE 0)
  PROVE  Followed'
<1>1. \A r \in Rows : Ledger!BalanceOf(Book')[r] =
                        Ledger!BalanceOf(Book)[r] + (IF M.row = r THEN StockDelta(M) ELSE 0)
  BY BookTypes, BalanceWith
<1>2. \A r \in Rows \ adrift' : stock[r] = Ledger!BalanceOf(Book)[r]
  BY DEF Followed, Book
<1>3. \A r \in Rows \ adrift' : stock'[r] = Ledger!BalanceOf(Book')[r]
  BY <1>1, <1>2
<1> QED
  BY <1>3 DEF Followed, Book

\* And where it is as it was.
LEMMA FollowedSame ==
  ASSUME Followed, Book' = Book, \A r \in Rows \ adrift' : r \notin adrift /\ stock'[r] = stock[r]
  PROVE  Followed'
<1>1. \A r \in Rows \ adrift' : stock'[r] = Ledger!BalanceOf(Book')[r]
  BY DEF Followed, Book
<1> QED
  BY <1>1 DEF Followed, Book

-----------------------------------------------------------------------------
(* What each step does to the ledger.                                      *)

\* What a step keeps of the invariant but for the checks, and what it is of the ledger.
Keeps ==
  /\ HoldsOK' /\ ListsOK' /\ GoneOK' /\ Followed'
  /\ IsFiniteSet(movements') /\ adrift' \subseteq Rows /\ adrift \subseteq adrift'
  /\ \/ Book \subseteq Book' /\ Ledger!WholeOperation(Book' \ Book)
     \/ Book' \subseteq Book /\ Ledger!WholeOperation(Book \ Book')
     \/ UNCHANGED Book

\* A step that neither enters nor applies a movement is none of the ledger's.
LEMMA QuietStep ==
  ASSUME RecordInv, RecordInv', LedgerInv, NEW w \in Workers, UNCHANGED <<stock, movements, adrift>>,
         Alone(w), HoldsOK', ListsOK',
         pc'[w] \in {"read", "write"} <=> pc[w] \in {"read", "write"},
         pc[w] \in {"read", "write"} => Movement(w)' = Movement(w)
  PROVE  Keeps
<1>1. Book' = Book
  BY PendingSame, BookIs, BookIsNext DEF LedgerInv
<1>2. GoneOK'
  <2>1. \A v \in Workers : pc'[v] \in {"read", "write"} =>
          pc[v] \in {"read", "write"} /\ Movement(v)' = Movement(v)
    BY DEF Alone, Movement, IsAddition, Number
  <2>2. \A v \in Workers : Movement(v).row = job[v].row /\ Movement(v)'.row = job'[v].row
    BY DEF Movement
  <2> QED
    BY <2>1, <2>2 DEF LedgerInv, GoneOK
<1>3. Followed'
  BY <1>1, FollowedSame DEF LedgerInv
<1> QED
  BY <1>1, <1>2, <1>3 DEF LedgerInv, Keeps

\* A request leaves off, or ends, with its movement applied or its row adrift.
LEMMA FinishStep ==
  ASSUME RecordInv, RecordInv', LedgerInv, NEW w \in Workers, UNCHANGED <<movements, counter>>, Alone(w),
         pc[w] \in {"read", "write"}, pc'[w] \in {"idle", "number"},
         NEW x \in Int, stock' = [stock EXCEPT ![job[w].row] = x],
         \/ adrift' = adrift \cup {job[w].row}
         \/ adrift' = adrift /\ x = stock[job[w].row] + StockDelta(Movement(w))
  PROVE  Keeps
<1> DEFINE M == Movement(w)
           row == job[w].row
<1>1. /\ M \in Movements /\ M.group = 0 /\ M.row = row /\ row \in Rows /\ stock \in [Rows -> Int]
      /\ counter \in [Types -> Nat]
  BY MovementTypes, WorkerTypes DEF MakingSteps
<1>2. HoldsOK'
  <2>1. /\ pc'[w] \notin Holding /\ \A t \in Types : counter[t] <= counter'[t]
    BY <1>1 DEF Holding
  <2> QED
    BY <2>1, HoldsKept DEF LedgerInv, Holding
<1>3. ListsOK'
  <2>1. \A t \in Types : counter[t] <= counter'[t]
    BY <1>1
  <2> QED
    BY <2>1, ListsKept DEF LedgerInv
<1>4. Pending' = Pending \ {M} /\ M \in Pending
  BY PendingLeft DEF LedgerInv
<1>5. adrift' \subseteq Rows /\ adrift \subseteq adrift'
  BY <1>1 DEF LedgerInv
<1>6. GoneOK'
  <2>1. \A v \in Workers : pc'[v] \in {"read", "write"} =>
          pc[v] \in {"read", "write"} /\ Movement(v)' = Movement(v) /\ job'[v] = job[v]
    BY DEF Alone, Movement, IsAddition, Number
  <2> QED
    BY <1>5, <2>1 DEF LedgerInv, GoneOK
<1>7. \A r \in Rows \ adrift' : /\ r \notin adrift
                                /\ r # row => stock'[r] = stock[r]
                                /\ r = row => stock'[r] = stock[r] + StockDelta(M)
  BY <1>1, <1>5
<1>8. CASE M \in movements
  <2>1. Book' = Book \cup {M} /\ M \notin Book
    BY <1>2, <1>4, <1>8, BookIs, BookIsNext DEF LedgerInv
  <2>2. \A r \in Rows \ adrift' : stock'[r] = stock[r] + (IF M.row = r THEN StockDelta(M) ELSE 0)
    BY <1>1, <1>7
  <2>3. Followed'
    BY <1>1, <1>7, <2>1, <2>2, FollowedWith DEF LedgerInv
  <2>4. Book' \ Book = {M}
    BY <2>1
  <2>5. Ledger!WholeOperation(Book' \ Book)
    BY <1>1, <2>4 DEF Ledger!WholeOperation
  <2> QED
    BY <1>2, <1>3, <1>5, <1>6, <2>1, <2>3, <2>5 DEF LedgerInv, Keeps
<1>9. CASE M \notin movements
  <2>1. Book' = Book
    BY <1>2, <1>4, <1>9, BookIs, BookIsNext DEF LedgerInv
  <2>2. row \in adrift
    BY <1>9 DEF LedgerInv, GoneOK
  <2>3. \A r \in Rows \ adrift' : r \notin adrift /\ stock'[r] = stock[r]
    BY <1>5, <1>7, <2>2
  <2>4. Followed'
    BY <2>1, <2>3, FollowedSame DEF LedgerInv
  <2> QED
    BY <1>2, <1>3, <1>5, <1>6, <2>1, <2>4 DEF LedgerInv, Keeps
<1> QED
  BY <1>8, <1>9

\* What a request that begins, ends or goes on to its next line does to the others.
LEMMA NextLineAlone ==
  ASSUME RecordInv, NEW w \in Workers, NextLine(w)
  PROVE  /\ Alone(w) /\ pc'[w] \in {"idle", "number"}
         /\ pc'[w] = "number" => job'[w].by = job[w].by /\ job'[w].lines = job[w].lines - 1 /\ job[w].lines # 0
<1>1. job[w] \in Jobs /\ pc \in [Workers -> Steps] /\ job \in [Workers -> Jobs]
  BY WorkerTypes
<1>2. CASE End(w)
  BY <1>1, <1>2 DEF End, Goto, Alone
<1>3. CASE ~ End(w)
  <2>1. job[w].lines # 0
    BY <1>3 DEF NextLine
  <2>2. PICK r \in RowsOf[w], q \in Quantities :
          /\ Goto(w, "number")
          /\ job' = [job EXCEPT ![w].row = r, ![w].quantity = q, ![w].lines = job[w].lines - 1]
    BY <2>1 DEF NextLine
  <2> QED
    BY <1>1, <2>1, <2>2 DEF Goto, Jobs, Alone
<1> QED
  BY <1>2, <1>3

\* A step of a request that is not under way and leaves the tables as they are, but for
\* counters, and gives no folio to insert.
LEMMA ElsewhereStep ==
  ASSUME RecordInv, RecordInv', LedgerInv, NEW w \in Workers, UNCHANGED <<stock, movements, adrift>>,
         Alone(w), pc[w] \notin {"read", "write"}, pc'[w] \in {"idle", "number"},
         \A t \in Types : counter[t] <= counter'[t]
  PROVE  Keeps
<1>1. HoldsOK'
  <2>1. pc'[w] \notin Holding /\ pc'[w] \notin {"read", "write"}
    BY DEF Holding
  <2> QED
    BY <2>1, HoldsKept DEF LedgerInv
<1>2. ListsOK'
  BY ListsKept DEF LedgerInv
<1> QED
  BY <1>1, <1>2, QuietStep

LEMMA BeginsKeep ==
  ASSUME RecordInv, RecordInv', LedgerInv, NEW w \in Workers, NEW type, NEW r, NEW q, NEW by, NEW n,
         Begin(w, type, r, q, by, n)
  PROVE  Keeps
<1>1. /\ pc[w] = "idle" /\ pc'[w] = "number" /\ Alone(w) /\ UNCHANGED <<stock, movements, counter, adrift>>
  BY WorkerTypes DEF Begin, Goto, Alone
<1>2. \A t \in Types : counter[t] <= counter'[t]
  BY <1>1, WorkerTypes
<1> QED
  BY <1>1, <1>2, ElsewhereStep

LEMMA NumbersKeep ==
  ASSUME RecordInv, RecordInv', LedgerInv, NEW w \in Workers, nextMovementNumber(w)
  PROVE  Keeps
<1> DEFINE t == job[w].type
<1>1. /\ pc[w] = "number" /\ UNCHANGED <<stock, movements, adrift>>
      /\ counter' = [counter EXCEPT ![t] = @ + 1]
      /\ \/ Goto(w, "insert") /\ job' = [job EXCEPT ![w].seq = counter[t] + 1]
         \/ NextLine(w)
  BY DEF nextMovementNumber
<1>2. /\ job[w] \in Jobs /\ t \in Types \ {"transfer"} /\ counter \in [Types -> Nat]
      /\ pc \in [Workers -> Steps] /\ job \in [Workers -> Jobs]
  BY <1>1, WorkerTypes DEF MakingSteps
<1>3. \A u \in Types : counter[u] <= counter'[u]
  BY <1>1, <1>2
<1>4. CASE NextLine(w)
  BY <1>1, <1>3, <1>4, NextLineAlone, ElsewhereStep
<1>5. CASE Goto(w, "insert") /\ job' = [job EXCEPT ![w].seq = counter[t] + 1]
  <2>1. Alone(w) /\ pc'[w] = "insert" /\ job'[w] = [job[w] EXCEPT !.seq = counter[t] + 1]
    BY <1>2, <1>5 DEF Goto, Alone
  <2>2. HoldsOK'
    BY <1>1, <2>1, HoldsGiven DEF LedgerInv
  <2>3. ASSUME NEW v \in Workers, pc[v] = "reverse", NEW m \in job[v].list
        PROVE  m.number # Number(w)'
    <3>1. m \in Movements /\ m.number[2] <= counter[m.number[1]]
      BY <2>3, WorkerTypes DEF LedgerInv, ListsOK, Jobs
    <3>2. m.number[1] \in Types /\ m.number[2] \in Nat
      BY <3>1 DEF Movements
    <3>3. Number(w)' = <<t, counter[t] + 1>>
      BY <1>2, <2>1 DEF Number, Jobs
    <3>4. m.number[1] = t => m.number[2] # counter[t] + 1
      BY <1>2, <3>1, <3>2
    <3> QED
      BY <3>3, <3>4
  <2>4. ListsOK'
    BY <1>1, <1>3, <2>1, <2>3, ListsKept DEF LedgerInv
  <2> QED
    BY <1>1, <2>1, <2>2, <2>4, QuietStep
<1> QED
  BY <1>1, <1>4, <1>5

LEMMA ReadsKeep ==
  ASSUME RecordInv, RecordInv', LedgerInv, NEW w \in Workers, GetStock(w)
  PROVE  Keeps
<1>1. /\ pc[w] = "read" /\ UNCHANGED <<stock, movements, adrift, counter>> /\ Goto(w, "write")
      /\ \E q : job' = [job EXCEPT ![w].currentQty = q]
  BY DEF GetStock
<1>2. PICK q : job' = [job EXCEPT ![w].currentQty = q]
  BY <1>1
<1>3. Alone(w) /\ pc'[w] = "write" /\ job'[w] = [job[w] EXCEPT !.currentQty = q]
  BY <1>1, <1>2, WorkerTypes DEF Goto, Alone
<1>4. /\ job'[w].row = job[w].row /\ job'[w].by = job[w].by /\ job'[w].type = job[w].type
      /\ job'[w].quantity = job[w].quantity /\ job'[w].seq = job[w].seq
  BY <1>3, WorkerTypes DEF Jobs
<1>5. Movement(w)' = Movement(w)
  BY <1>4 DEF Movement, IsAddition, Number
<1>6. \A t \in Types : counter[t] <= counter'[t]
  BY <1>1, WorkerTypes
<1>7. HoldsOK'
  BY <1>1, <1>3, <1>4, <1>5, <1>6, HoldsKept DEF LedgerInv, Holding
<1>8. ListsOK'
  BY <1>1, <1>3, <1>6, ListsKept DEF LedgerInv
<1> QED
  BY <1>1, <1>3, <1>5, <1>7, <1>8, QuietStep

\* What a deletion will reverse is one whole operation.
LEMMA SelectsKeep ==
  ASSUME RecordInv, RecordInv', LedgerInv, NEW w \in Workers, NEW m \in movements, SelectMovements(w, m)
  PROVE  Keeps
<1> DEFINE list == {n \in movements : n = m \/ (m.group # 0 /\ n.group = m.group)}
<1>1. /\ pc[w] = "idle" /\ UNCHANGED <<stock, movements, counter, adrift>> /\ Goto(w, "reverse")
      /\ job' = [job EXCEPT ![w].list = list]
  BY DEF SelectMovements
<1>2. pc'[w] = "reverse" /\ job'[w].list = list /\ Alone(w)
  BY <1>1, WorkerTypes DEF Goto, Jobs, Alone
<1>3. Ledger!WholeOperation(list)
  <2>1. CASE m.group = 0
    <3>1. list = {m}
      BY <2>1
    <3> QED
      BY <2>1, <3>1 DEF Ledger!WholeOperation
  <2>2. CASE m.group # 0
    <3>1. PICK n \in movements :
            /\ n.row # m.row /\ n.quantity = m.quantity /\ n.addition # m.addition
            /\ {k \in movements : k.group = m.group} = {m, n}
      BY <2>2 DEF RecordInv, TransferIsWhole
    <3>2. list = {m, n} /\ n.group = m.group
      BY <2>2, <3>1
    <3> HIDE DEF list
    <3>3. Ledger!Halves(m, n)
      BY <3>1, <3>2 DEF Ledger!Halves
    <3> QED
      BY <2>2, <3>2, <3>3 DEF Ledger!WholeOperation
  <2> QED
    BY <2>1, <2>2
<1>4. list \subseteq movements
  OBVIOUS
<1> HIDE DEF list
<1>5. HoldsOK'
  <2>1. pc'[w] \notin Holding /\ \A t \in Types : counter[t] <= counter'[t]
    BY <1>1, <1>2, WorkerTypes DEF Holding
  <2> QED
    BY <1>1, <1>2, <2>1, HoldsKept DEF LedgerInv, Holding
<1>6. ListsOK'
  <2>1. ASSUME NEW v \in Workers, pc'[v] = "reverse"
        PROVE  /\ Ledger!WholeOperation(job'[v].list)
               /\ job'[v].list \subseteq movements \/ job'[v].list \cap movements = {}
               /\ \A k \in job'[v].list :
                    /\ k.number[2] <= counter[k.number[1]]
                    /\ \A x \in Workers : pc[x] = "insert" => k.number # Number(x)
    <3>1. CASE v = w
      BY <1>2, <1>3, <1>4, <3>1 DEF RecordInv, FoliosGivenOnce
    <3>2. CASE v # w
      BY <1>2, <2>1, <3>2 DEF LedgerInv, ListsOK, Alone
    <3> QED
      BY <3>1, <3>2
  <2>2. \A x \in Workers : pc'[x] = "insert" => pc[x] = "insert" /\ Number(x)' = Number(x)
    BY <1>2 DEF Alone, Number
  <2> QED
    BY <1>1, <2>1, <2>2 DEF ListsOK, Ledger!WholeOperation, Ledger!Halves
<1> QED
  BY <1>1, <1>2, <1>5, <1>6, QuietStep

\* A movement that enters the record is not applied yet, and its row goes adrift if the
\* reply is lost.
LEMMA SavesKeep ==
  ASSUME RecordInv, RecordInv', LedgerInv, NEW w \in Workers, SaveMovement(w)
  PROVE  Keeps
<1> DEFINE M == Movement(w)
<1>1. /\ pc[w] = "insert" /\ UNCHANGED <<stock, counter>> /\ movements' = movements \cup {M}
      /\ \/ Goto(w, "read") /\ UNCHANGED <<job, adrift>>
         \/ NextLine(w) /\ adrift' = adrift \cup {job[w].row}
  BY DEF SaveMovement, Adrift
<1>2. /\ M \in Movements /\ M.number = Number(w) /\ M.group = 0 /\ M.row = job[w].row /\ job[w].row \in Rows
      /\ stock \in [Rows -> Int] /\ counter \in [Types -> Nat]
  BY <1>1, MovementTypes, WorkerTypes DEF MakingSteps
<1>3. /\ Alone(w)
      /\ \/ pc'[w] = "read" /\ UNCHANGED <<job, adrift>>
         \/ pc'[w] \in {"idle", "number"} /\ adrift' = adrift \cup {job[w].row}
  <2>1. CASE Goto(w, "read") /\ UNCHANGED <<job, adrift>>
    BY <2>1, WorkerTypes DEF Goto, Alone
  <2>2. CASE NextLine(w) /\ adrift' = adrift \cup {job[w].row}
    BY <2>2, NextLineAlone
  <2> QED
    BY <1>1, <2>1, <2>2
<1>4. HoldsOK'
  BY <1>1, <1>3, HoldsSaved DEF LedgerInv
<1>5. \A m \in movements : m.number # M.number
  BY <1>1, <1>2 DEF RecordInv, FoliosGivenOnce
<1>6. ListsOK'
  <2>1. \A t \in Types : counter[t] <= counter'[t]
    BY <1>1, <1>2
  <2>2. \A v \in Workers : pc[v] = "reverse" => M \notin job[v].list
    BY <1>1, <1>2 DEF LedgerInv, ListsOK
  <2>3. pc'[w] # "reverse" /\ pc'[w] # "insert"
    BY <1>3
  <2> HIDE DEF M
  <2> QED
    BY <1>1, <1>3, <2>1, <2>2, <2>3, ListsKept DEF LedgerInv
<1>7. M \notin Pending
  <2> SUFFICES ASSUME NEW v \in UnderWay, Movement(v) = M PROVE FALSE
    BY DEF Pending
  <2>1. v \in Workers /\ pc[v] \in Holding /\ pc[w] \in Holding /\ v # w
    BY <1>1 DEF UnderWay, Holding
  <2>2. Number(v) = Number(w)
    BY <1>2 DEF Movement
  <2> QED
    BY <2>1, <2>2 DEF LedgerInv, HoldsOK
<1>8. IsFiniteSet(movements') /\ adrift' \subseteq Rows /\ adrift \subseteq adrift'
  BY <1>1, <1>2, <1>3, FS_AddElement DEF LedgerInv
<1>9. \A v \in Workers \ {w} : Movement(v)' = Movement(v) /\ job'[v] = job[v] /\ pc'[v] = pc[v]
  BY <1>3 DEF Alone, Movement, IsAddition, Number
<1>10. CASE pc'[w] = "read" /\ UNCHANGED <<job, adrift>>
  <2>1. Movement(w)' = M
    BY <1>10 DEF Movement, IsAddition, Number
  <2>2. GoneOK'
    <3> HIDE DEF M
    <3> QED
      BY <1>1, <1>8, <1>9, <2>1 DEF LedgerInv, GoneOK
  <2>3. Pending' = Pending \cup {M}
    <3>1. UnderWay' = UnderWay \cup {w} /\ UnderWay \subseteq Workers /\ w \notin UnderWay
      BY <1>1, <1>3, <1>10 DEF UnderWay, Alone
    <3>2. \A v \in UnderWay : Movement(v)' = Movement(v)
      BY <1>9, <3>1
    <3> HIDE DEF M
    <3>3. {Movement(v)' : v \in UnderWay \cup {w}} = {Movement(v) : v \in UnderWay} \cup {M}
      BY <2>1, <3>2
    <3> QED
      BY <3>1, <3>3 DEF Pending
  <2> HIDE DEF M
  <2>4. Book' = Book
    BY <1>1, <1>4, <1>5, <2>3, BookIs, BookIsNext DEF LedgerInv
  <2>5. Followed'
    BY <1>1, <1>10, <2>4, FollowedSame DEF LedgerInv
  <2> QED
    BY <1>4, <1>6, <1>8, <2>2, <2>4, <2>5 DEF Keeps
<1>11. CASE pc'[w] \in {"idle", "number"} /\ adrift' = adrift \cup {job[w].row}
  <2>1. GoneOK'
    <3> HIDE DEF M
    <3> QED
      BY <1>1, <1>8, <1>9, <1>11 DEF LedgerInv, GoneOK
  <2>2. Pending' = Pending
    BY <1>1, <1>3, <1>11, PendingSame
  <2> HIDE DEF M
  <2>3. Book' = Book \cup {M} /\ M \notin Book
    BY <1>1, <1>4, <1>5, <1>7, <2>2, BookIs, BookIsNext DEF LedgerInv
  <2>4. \A r \in Rows \ adrift' : /\ r \notin adrift
                                  /\ stock'[r] = stock[r] + (IF M.row = r THEN StockDelta(M) ELSE 0)
    BY <1>1, <1>2, <1>11
  <2>5. Followed'
    BY <1>2, <2>3, <2>4, FollowedWith DEF LedgerInv
  <2>6. Book' \ Book = {M}
    BY <2>3
  <2>7. Ledger!WholeOperation(Book' \ Book)
    BY <1>2, <2>6 DEF Ledger!WholeOperation
  <2> QED
    BY <1>4, <1>6, <1>8, <2>1, <2>3, <2>5, <2>7 DEF Keeps
<1> QED
  BY <1>3, <1>10, <1>11

\* A request that stops where it is.
LEMMA LeavesOff ==
  ASSUME RecordInv, RecordInv', LedgerInv, NEW w \in Workers, UNCHANGED <<stock, movements, counter>>,
         Alone(w), pc'[w] \in {"idle", "number"}, adrift' = adrift \cup LeftOff(w)
  PROVE  Keeps
<1>1. stock \in [Rows -> Int] /\ counter \in [Types -> Nat] /\ \A t \in Types : counter[t] <= counter'[t]
  BY WorkerTypes
<1>2. CASE pc[w] \in {"read", "write"}
  <2>1. adrift' = adrift \cup {job[w].row} /\ job[w].row \in Rows
    BY <1>2, WorkerTypes DEF LeftOff, MakingSteps
  <2>2. stock[job[w].row] \in Int /\ stock' = [stock EXCEPT ![job[w].row] = stock[job[w].row]]
    BY <1>1, <2>1
  <2> QED
    BY <1>2, <2>1, <2>2, FinishStep
<1>3. CASE pc[w] \notin {"read", "write"}
  <2>1. adrift' = adrift
    BY <1>3 DEF LeftOff
  <2> QED
    BY <1>1, <1>3, <2>1, ElsewhereStep
<1> QED
  BY <1>2, <1>3

LEMMA StopsKeep ==
  ASSUME RecordInv, RecordInv', LedgerInv, NEW w \in Workers, StatementFails(w) \/ ReverseRefused(w) \/ Crash(w)
  PROVE  Keeps
<1>1. ASSUME End(w) PROVE Alone(w) /\ pc'[w] = "idle"
  BY <1>1, WorkerTypes DEF End, Goto, Alone
<1>2. CASE StatementFails(w)
  BY <1>2, NextLineAlone, LeavesOff DEF StatementFails, Adrift
<1>3. CASE ReverseRefused(w)
  <2>1. adrift' = adrift \cup LeftOff(w)
    BY <1>3 DEF ReverseRefused, LeftOff
  <2> QED
    BY <1>1, <1>3, <2>1, LeavesOff DEF ReverseRefused
<1>4. CASE Crash(w)
  BY <1>1, <1>4, LeavesOff DEF Crash, Adrift
<1> QED
  BY <1>2, <1>3, <1>4

\* The row follows the record if it is as it was read and the movement has its sign.
LEMMA UpsertsKeep ==
  ASSUME RecordInv, RecordInv', LedgerInv, NEW w \in Workers, UpsertStock(w)
  PROVE  Keeps
<1> DEFINE j == job[w]
           x == IF Adds(j.type) THEN j.currentQty + j.quantity ELSE j.currentQty - j.quantity
           fits == j.currentQty = stock[j.row] /\ Adds(j.type) = IsAddition(w)
<1>1. /\ pc[w] = "write" /\ stock' = [stock EXCEPT ![j.row] = x] /\ NextLine(w)
      /\ adrift' = adrift \cup (IF fits THEN {} ELSE {j.row}) /\ UNCHANGED <<movements, counter>>
  BY DEF UpsertStock, Adrift
<1>2. j.currentQty \in Int /\ j.quantity \in Nat
  BY WorkerTypes DEF Jobs
<1>3. x \in Int
  BY <1>2
<1>4. ASSUME fits PROVE x = stock[j.row] + StockDelta(Movement(w))
  <2>1. Movement(w).quantity = j.quantity /\ Movement(w).addition = Adds(j.type)
    BY <1>4 DEF Movement
  <2> QED
    BY <1>2, <1>4, <2>1 DEF StockDelta
<1>5. \/ adrift' = adrift \cup {j.row}
      \/ adrift' = adrift /\ x = stock[j.row] + StockDelta(Movement(w))
  <2> HIDE DEF x, fits
  <2> QED
    BY <1>1, <1>4
<1>6. Alone(w) /\ pc'[w] \in {"idle", "number"} /\ pc[w] \in {"read", "write"}
  BY <1>1, NextLineAlone
<1> HIDE DEF x, fits
<1> QED
  BY <1>1, <1>3, <1>5, <1>6, FinishStep

\* Both halves of a transfer enter the book at once, with their effects.
LEMMA TransferKeeps ==
  ASSUME RecordInv, RecordInv', LedgerInv, NEW w \in Workers, NEW from \in Rows, NEW to \in Rows,
         NEW q \in Quantities, Transfer(w, from, to, q)
  PROVE  Keeps
<1> DEFINE c == counter["transfer"]
           h == Half(c + 1, from, q, FALSE, c + 1)
           i == Half(c + 1 + 1, to, q, TRUE, c + 1)
<1>1. /\ from # to /\ movements' = movements \cup {h, i}
      /\ stock' = [stock EXCEPT ![from] = @ - q, ![to] = @ + q]
      /\ counter' = [counter EXCEPT !["transfer"] = @ + 2]
      /\ pc[w] = "idle" /\ pc' = pc /\ job' = job /\ adrift' = adrift
  BY DEF Transfer
<1>2. /\ movements \subseteq Movements /\ stock \in [Rows -> Int] /\ counter \in [Types -> Nat]
      /\ q \in Nat /\ "transfer" \in Types /\ c \in Nat
  BY InventoryAssumption DEF RecordInv, TypeOK, Types
<1>3. /\ h \in Movements /\ i \in Movements /\ h # i
      /\ h.group = c + 1 /\ i.group = c + 1
      /\ h.row = from /\ i.row = to /\ h.quantity = q /\ i.quantity = q
      /\ h.addition = FALSE /\ i.addition = TRUE
      /\ h.number[1] = "transfer" /\ i.number[1] = "transfer"
  BY <1>1, <1>2 DEF Half, Movements
<1>4. \A m \in movements : m.group \in Nat /\ m.group <= c
  BY <1>2 DEF RecordInv, Counted, Movements
<1>5. \A v \in Workers : \A m \in job[v].list : m.group \in Nat /\ m.group <= c
  BY WorkerTypes DEF RecordInv, Counted, Jobs, Movements
<1>6. /\ \A t \in Types : counter[t] <= counter'[t]
      /\ \A t \in Types \ {"transfer"} : counter'[t] = counter[t]
  BY <1>1, <1>2
<1> HIDE DEF c, h, i
<1>7. h \notin movements /\ i \notin movements
  BY <1>2, <1>3, <1>4
<1>8. StockDelta(h) = -q /\ StockDelta(i) = q
  BY <1>3 DEF StockDelta
<1>9. \A v \in Workers : Movement(v)' = Movement(v) /\ Number(v)' = Number(v)
  BY <1>1 DEF Movement, IsAddition, Number
<1>10. HoldsOK'
  <2>1. ASSUME NEW v \in Workers, pc[v] \in Holding
        PROVE  job[v].type \in Types \ {"transfer"} /\ job[v].seq <= counter[job[v].type]
    BY <2>1, WorkerTypes DEF LedgerInv, HoldsOK, Holding, MakingSteps
  <2>2. ASSUME NEW v \in Workers, pc[v] \in {"read", "write"}, NEW m \in movements', m.number = Number(v)
        PROVE  m = Movement(v)
    <3>1. Number(v)[1] # "transfer"
      BY <2>1, <2>2 DEF Number, Holding
    <3>2. m \in movements
      BY <1>1, <1>3, <2>2, <3>1
    <3> QED
      BY <2>2, <3>2 DEF LedgerInv, HoldsOK
  <2> QED
    BY <1>1, <1>6, <1>9, <2>1, <2>2 DEF LedgerInv, HoldsOK
<1>11. ListsOK'
  <2>1. \A v \in Workers : h \notin job[v].list /\ i \notin job[v].list
    BY <1>2, <1>3, <1>5
  <2>2. Alone(w) /\ pc'[w] # "reverse" /\ pc'[w] # "insert"
    BY <1>1 DEF Alone
  <2> QED
    BY <1>1, <1>6, <2>1, <2>2, ListsKept DEF LedgerInv
<1>12. GoneOK'
  BY <1>1, <1>9 DEF LedgerInv, GoneOK
<1>13. Pending' = Pending /\ h \notin Pending /\ i \notin Pending
  <2>1. UnderWay' = UnderWay /\ UnderWay \subseteq Workers
    BY <1>1 DEF UnderWay
  <2>2. Pending' = Pending
    BY <1>9, <2>1 DEF Pending
  <2>3. \A v \in UnderWay : Movement(v).group = 0
    BY DEF Movement
  <2>4. \A m \in Pending : m.group = 0
    BY <2>3 DEF Pending
  <2>5. h.group # 0 /\ i.group # 0
    BY <1>2, <1>3
  <2> QED
    BY <2>2, <2>4, <2>5
<1>14. Book' = (Book \cup {h}) \cup {i} /\ h \notin Book /\ i \notin Book \cup {h}
  BY <1>1, <1>3, <1>7, <1>10, <1>13, BookIs, BookIsNext DEF LedgerInv
<1>15. /\ Book \subseteq Movements /\ IsFiniteSet(Book)
       /\ Book \cup {h} \subseteq Movements /\ IsFiniteSet(Book \cup {h})
  BY <1>3, BookTypes, FS_AddElement DEF LedgerInv
<1>16. Followed'
  <2>1. \A r \in Rows : Ledger!BalanceOf(Book \cup {h})[r] =
                          Ledger!BalanceOf(Book)[r] + (IF from = r THEN -q ELSE 0)
    BY <1>3, <1>8, <1>14, <1>15, BalanceWith
  <2>2. \A r \in Rows : Ledger!BalanceOf(Book')[r] =
                          Ledger!BalanceOf(Book \cup {h})[r] + (IF to = r THEN q ELSE 0)
    BY <1>3, <1>8, <1>14, <1>15, BalanceWith
  <2>3. \A r \in Rows : stock'[r] = stock[r] + (IF from = r THEN -q ELSE 0) + (IF to = r THEN q ELSE 0)
    BY <1>1, <1>2
  <2>4. \A r \in Rows \ adrift : stock[r] = Ledger!BalanceOf(Book)[r]
    BY DEF LedgerInv, Followed, Book
  <2>5. ASSUME NEW r \in Rows \ adrift'
        PROVE  stock'[r] = Ledger!BalanceOf(Book')[r]
    <3>1. r \in Rows /\ r \notin adrift
      BY <1>1
    <3>2. Ledger!BalanceOf(Book)[r] = stock[r]
      BY <2>4, <3>1
    <3>3. Ledger!BalanceOf(Book')[r] = (stock[r] + (IF from = r THEN -q ELSE 0)) + (IF to = r THEN q ELSE 0)
      BY <2>1, <2>2, <3>1, <3>2
    <3> QED
      BY <2>3, <3>1, <3>3
  <2> QED
    BY <2>5 DEF Followed, Book
<1>17. IsFiniteSet(movements')
  <2>1. movements' = (movements \cup {h}) \cup {i}
    BY <1>1
  <2> QED
    BY <2>1, FS_AddElement DEF LedgerInv
<1>18. Ledger!WholeOperation(Book' \ Book)
  <2>1. Book' \ Book = {h, i}
    BY <1>14
  <2>2. Ledger!Halves(h, i) /\ h.group # 0
    BY <1>1, <1>2, <1>3 DEF Ledger!Halves
  <2> QED
    BY <2>1, <2>2 DEF Ledger!WholeOperation
<1>19. Book \subseteq Book'
  BY <1>14
<1> QED
  BY <1>1, <1>10, <1>11, <1>12, <1>16, <1>17, <1>18, <1>19 DEF LedgerInv, Keeps

\* What a deletion writes to a row that follows the record: for one movement, or for two
\* on different rows, the balance without them.
LEMMA ReversedIs ==
  ASSUME NEW list, Ledger!WholeOperation(list), NEW S, S \subseteq Movements, IsFiniteSet(S), list \subseteq S,
         NEW r \in Rows, stock[r] = Ledger!BalanceOf(S)[r]
  PROVE  Reversed(list)[r] = Ledger!BalanceOf(S \ list)[r]
<1> DEFINE b == Ledger!BalanceOf(S \ list)[r]
<1>1. S \ list \subseteq Movements /\ IsFiniteSet(S \ list)
  BY FS_Subset
<1>2. /\ b \in Int /\ stock[r] \in Int
      /\ \A m \in Movements : StockDelta(m) \in Int
  BY <1>1, BalanceType DEF StockDelta, Movements
<1>3. ASSUME NEW m \in list, m.row = r, \A k \in list : k.row = r => k = m
      PROVE  Reversed(list)[r] = stock[r] - StockDelta(m)
  <2>1. (CHOOSE k \in list : k.row = r) = m
    BY <1>3
  <2> QED
    BY <1>3, <2>1 DEF Reversed
<1>4. ASSUME \A k \in list : k.row # r
      PROVE  Reversed(list)[r] = stock[r]
  BY <1>4 DEF Reversed
<1>5. CASE \E m \in list : list = {m} /\ m.group = 0
  <2>1. PICK m \in list : list = {m}
    BY <1>5
  <2>2. S = (S \ list) \cup {m} /\ m \notin S \ list /\ m \in Movements
    BY <2>1
  <2>3. Ledger!BalanceOf((S \ list) \cup {m})[r] = b + (IF m.row = r THEN StockDelta(m) ELSE 0)
    BY <1>1, <2>2, BalanceWith
  <2>4. stock[r] = b + (IF m.row = r THEN StockDelta(m) ELSE 0)
    BY <2>2, <2>3
  <2>5. StockDelta(m) \in Int
    BY <1>2, <2>2
  <2> HIDE DEF b
  <2>6. CASE m.row = r
    BY <1>2, <1>3, <2>1, <2>4, <2>5, <2>6 DEF b
  <2>7. CASE m.row # r
    <3>1. Reversed(list)[r] = stock[r]
      BY <1>4, <2>1, <2>7
    <3> QED
      BY <1>2, <2>4, <2>7, <3>1 DEF b
  <2> QED
    BY <2>6, <2>7
<1>6. CASE \E m, n \in list : list = {m, n} /\ m.group # 0 /\ Ledger!Halves(m, n)
  <2>1. PICK m \in list, n \in list : list = {m, n} /\ m.row # n.row
    BY <1>6 DEF Ledger!Halves
  <2> DEFINE T == (S \ list) \cup {m}
  <2>2. /\ m \notin S \ list /\ m \in Movements /\ n \notin T /\ n \in Movements /\ S = T \cup {n}
        /\ T \subseteq Movements
    BY <2>1
  <2>3. IsFiniteSet(T)
    BY <1>1, FS_AddElement
  <2>4. Ledger!BalanceOf(T)[r] = b + (IF m.row = r THEN StockDelta(m) ELSE 0)
    BY <1>1, <2>2, BalanceWith
  <2> HIDE DEF T
  <2>5. Ledger!BalanceOf(T \cup {n})[r] =
          Ledger!BalanceOf(T)[r] + (IF n.row = r THEN StockDelta(n) ELSE 0)
    BY <2>2, <2>3, BalanceWith
  <2>6. stock[r] = b + (IF m.row = r THEN StockDelta(m) ELSE 0) + (IF n.row = r THEN StockDelta(n) ELSE 0)
    BY <2>2, <2>4, <2>5
  <2>7. StockDelta(m) \in Int /\ StockDelta(n) \in Int
    BY <1>2, <2>2
  <2> HIDE DEF b
  <2>8. CASE m.row = r
    <3>1. Reversed(list)[r] = stock[r] - StockDelta(m) /\ n.row # r
      BY <1>3, <2>1, <2>8
    <3> QED
      BY <1>2, <2>6, <2>7, <2>8, <3>1 DEF b
  <2>9. CASE n.row = r
    <3>1. Reversed(list)[r] = stock[r] - StockDelta(n) /\ m.row # r
      BY <1>3, <2>1, <2>9
    <3> QED
      BY <1>2, <2>6, <2>7, <2>9, <3>1 DEF b
  <2>10. CASE m.row # r /\ n.row # r
    <3>1. Reversed(list)[r] = stock[r]
      BY <1>4, <2>1, <2>10
    <3> QED
      BY <1>2, <2>6, <2>10, <3>1 DEF b
  <2> QED
    BY <2>8, <2>9, <2>10
<1> QED
  BY <1>5, <1>6 DEF Ledger!WholeOperation

\* A deletion takes one whole operation out of the book with its effect, or nothing: its
\* rows go adrift if what it reverses is gone already or was never applied.
LEMMA ReversesKeep ==
  ASSUME RecordInv, RecordInv', LedgerInv, NEW w \in Workers, Reverse(w)
  PROVE  Keeps
<1> DEFINE list == job[w].list
<1>1. /\ pc[w] = "reverse" /\ stock' = Reversed(list) /\ movements' = movements \ list /\ End(w)
      /\ adrift' = adrift \cup (IF list \subseteq Book THEN {} ELSE {m.row : m \in list})
      /\ counter' = counter
  BY DEF Reverse, Adrift, Book
<1>2. pc'[w] = "idle" /\ Alone(w)
  BY <1>1, WorkerTypes DEF End, Goto, Alone
<1>3. /\ list \subseteq movements \/ list \cap movements = {}
      /\ Ledger!WholeOperation(list)
      /\ list \subseteq Movements /\ movements \subseteq Movements
  BY <1>1, WorkerTypes DEF LedgerInv, ListsOK, Jobs
<1>4. HoldsOK' /\ ListsOK'
  <2>1. \A t \in Types : counter[t] <= counter'[t]
    BY <1>1, WorkerTypes
  <2>2. movements' \subseteq movements /\ pc'[w] \notin Holding /\ pc'[w] \notin {"read", "write"}
    BY <1>1, <1>2 DEF Holding
  <2>3. HoldsOK'
    BY <1>2, <2>1, <2>2, HoldsKept DEF LedgerInv
  <2>4. ListsOK'
    BY <1>1, <1>2, <2>1, ListsKept DEF LedgerInv
  <2> QED
    BY <2>3, <2>4
<1>5. Pending' = Pending
  BY <1>1, <1>2, PendingSame
<1> HIDE DEF list
<1>6. IsFiniteSet(movements') /\ adrift' \subseteq Rows /\ adrift \subseteq adrift'
  <2>1. \A m \in list : m.row \in Rows
    BY <1>3 DEF Movements
  <2> QED
    BY <1>1, <2>1, FS_Subset DEF LedgerInv
<1>7. Book = movements \ Pending /\ Book' = (movements \ list) \ Pending
  BY <1>1, <1>4, <1>5, BookIs, BookIsNext DEF LedgerInv
<1>8. ASSUME NEW v \in Workers, pc'[v] \in {"read", "write"}, Movement(v)' \notin movements'
      PROVE  job'[v].row \in adrift'
  <2>1. /\ pc[v] \in {"read", "write"} /\ job'[v] = job[v] /\ Movement(v)' = Movement(v)
        /\ Movement(v).row = job[v].row /\ Movement(v) \in Pending
    BY <1>2, <1>8 DEF Alone, Movement, IsAddition, Number, Pending, UnderWay
  <2>2. CASE Movement(v) \notin movements
    BY <1>6, <2>1, <2>2 DEF LedgerInv, GoneOK
  <2>3. CASE Movement(v) \in movements
    <3>1. Movement(v) \in list
      BY <1>1, <1>8, <2>1, <2>3
    <3>2. ~ (list \subseteq Book)
      BY <1>7, <2>1, <3>1
    <3> QED
      BY <1>1, <2>1, <3>1, <3>2
  <2> QED
    BY <2>2, <2>3
<1>9. GoneOK'
  BY <1>8 DEF GoneOK
<1>10. CASE list \subseteq Book
  <2>1. Book' = Book \ list /\ Book \ Book' = list /\ adrift' = adrift
    BY <1>1, <1>7, <1>10
  <2>2. ASSUME NEW r \in Rows \ adrift'
        PROVE  stock'[r] = Ledger!BalanceOf(Book')[r]
    <3>1. r \in Rows /\ stock[r] = Ledger!BalanceOf(Book)[r]
      BY <2>1 DEF LedgerInv, Followed, Book
    <3>2. Book \subseteq Movements /\ IsFiniteSet(Book)
      BY BookTypes DEF LedgerInv
    <3>3. Reversed(list)[r] = Ledger!BalanceOf(Book \ list)[r]
      BY <1>3, <1>10, <3>1, <3>2, ReversedIs
    <3> QED
      BY <1>1, <2>1, <3>3
  <2>3. Followed'
    BY <2>2 DEF Followed, Book
  <2>4. Book' \subseteq Book /\ Ledger!WholeOperation(Book \ Book')
    BY <1>3, <2>1
  <2> QED
    BY <1>4, <1>6, <1>9, <2>3, <2>4 DEF Keeps
<1>11. CASE ~ (list \subseteq Book)
  <2>1. Book' = Book
    <3>1. CASE list \cap movements = {}
      BY <1>7, <3>1
    <3>2. CASE list \subseteq movements
      <4>1. PICK m \in list : m \in Pending
        BY <1>7, <1>11, <3>2
      <4>2. m.group = 0
        BY <4>1 DEF Pending, Movement
      <4>3. list = {m}
        BY <1>3, <4>2 DEF Ledger!WholeOperation, Ledger!Halves
      <4> QED
        BY <1>7, <4>1, <4>3
    <3> QED
      BY <1>3, <3>1, <3>2
  <2>2. \A r \in Rows \ adrift' : r \notin adrift /\ stock'[r] = stock[r]
    <3>1. \A r \in Rows \ adrift' : \A m \in list : m.row # r
      BY <1>1, <1>11
    <3> QED
      BY <1>1, <3>1 DEF Reversed
  <2>3. Followed'
    BY <2>1, <2>2, FollowedSame DEF LedgerInv
  <2> QED
    BY <1>4, <1>6, <1>9, <2>1, <2>3 DEF Keeps
<1> QED
  BY <1>10, <1>11

-----------------------------------------------------------------------------
(* What exits checked.                                                     *)

\* A check still holds while its request goes on, unless it is overtaken.
LEMMA CheckKept ==
  ASSUME RecordInv, RecordInv', Overtaking, NEW v \in Workers, CheckOK(v),
         pc'[v] \in MakingSteps =>
           /\ pc[v] \in MakingSteps
           /\ job'[v].by = job[v].by /\ job'[v].type = job[v].type /\ job'[v].row = job[v].row
           /\ job'[v].quantity = job[v].quantity /\ job'[v].lines = job[v].lines
           /\ pc[v] = "write" => pc'[v] = "write" /\ job'[v].currentQty = job[v].currentQty
  PROVE  CheckOK(v)'
<1> SUFFICES ASSUME pc'[v] \in MakingSteps, job'[v].by = "request"
             PROVE  /\ job'[v].lines = 0
                    /\ job'[v].type = "exit" /\ v \notin overtaken' =>
                         job'[v].quantity <= (IF pc'[v] = "write" THEN job'[v].currentQty
                                                                 ELSE stock'[job'[v].row])
  BY DEF CheckOK
<1>1. job'[v].lines = 0
  BY DEF CheckOK
<1>2. ASSUME job'[v].type = "exit", v \notin overtaken'
      PROVE  job'[v].quantity <= (IF pc'[v] = "write" THEN job'[v].currentQty ELSE stock'[job'[v].row])
  <2> DEFINE row == job[v].row
  <2>1. v \notin overtaken /\ ~ Falls(v)
    BY <1>2 DEF Overtaking, MakingSteps
  <2>2. job[v].quantity <= (IF pc[v] = "write" THEN job[v].currentQty ELSE stock[row])
    BY <1>2, <2>1 DEF CheckOK
  <2>3. job[v].quantity \in Nat /\ row \in Rows /\ stock[row] \in Int /\ stock'[row] \in Int
        /\ job'[v].currentQty \in Int
    BY WorkerTypes DEF Jobs, RecordInv, TypeOK
  <2>4. CASE pc[v] = "write"
    BY <2>2, <2>4
  <2>5. CASE pc[v] # "write"
    <3>1. /\ ~ (stock'[row] < stock[row])
          /\ ~ (pc'[v] = "write" /\ job'[v].currentQty < stock[row])
      BY <1>2, <2>1, <2>5 DEF Falls, MakingSteps
    <3> QED
      BY <2>2, <2>3, <2>5, <3>1
  <2> QED
    BY <2>4, <2>5
<1> QED
  BY <1>1, <1>2

\* So it is enough to look at the request that takes the step.
LEMMA ChecksFrom ==
  ASSUME RecordInv, RecordInv', Overtaking, ChecksOK, NEW w \in Workers, Alone(w), CheckOK(w)'
  PROVE  ChecksOK'
<1>1. ASSUME NEW v \in Workers \ {w} PROVE CheckOK(v)'
  BY CheckKept DEF Alone, ChecksOK
<1> QED
  BY <1>1 DEF ChecksOK

\* A request has one line: what goes on with another is an event handler.
LEMMA NextLineChecks ==
  ASSUME RecordInv, RecordInv', Overtaking, ChecksOK, NEW w \in Workers, NextLine(w), pc[w] \in MakingSteps
  PROVE  ChecksOK'
<1>1. /\ Alone(w) /\ pc'[w] \in {"idle", "number"}
      /\ pc'[w] = "number" => job'[w].by = job[w].by /\ job[w].lines # 0
  BY NextLineAlone
<1>2. CheckOK(w)'
  BY <1>1 DEF ChecksOK, CheckOK, MakingSteps
<1> QED
  BY <1>1, <1>2, ChecksFrom

\* An exit by request begins where there is enough.
LEMMA BeginsChecked ==
  ASSUME RecordInv, RecordInv', Overtaking, ChecksOK, NEW w \in Workers,
         NEW type, NEW r, NEW q, NEW by, NEW n, Begin(w, type, r, q, by, n),
         by = "request" => n = 0,
         by = "request" /\ type = "exit" => q <= stock[r]
  PROVE  ChecksOK'
<1>1. /\ Alone(w) /\ pc'[w] = "number" /\ job'[w] = Making(type, r, q, by, n) /\ stock' = stock
  BY WorkerTypes DEF Begin, Goto, Alone
<1>2. CheckOK(w)'
  BY <1>1 DEF CheckOK, Making
<1> QED
  BY <1>1, <1>2, ChecksFrom

\* A request that ends has nothing to check.
LEMMA EndsChecked ==
  ASSUME RecordInv, RecordInv', Overtaking, ChecksOK, NEW w \in Workers, End(w)
  PROVE  ChecksOK'
<1>1. Alone(w) /\ pc'[w] = "idle"
  BY WorkerTypes DEF End, Goto, Alone
<1>2. CheckOK(w)'
  BY <1>1 DEF CheckOK, MakingSteps
<1> QED
  BY <1>1, <1>2, ChecksFrom

LEMMA StepChecked ==
  ASSUME RecordInv, RecordInv', Overtaking, ChecksOK, NEW w \in Workers, Step(w)
  PROVE  ChecksOK'
<1>1. CASE nextMovementNumber(w)
  <2>1. CASE NextLine(w)
    BY <1>1, <2>1, NextLineChecks DEF nextMovementNumber, MakingSteps
  <2>2. CASE Goto(w, "insert") /\ job' = [job EXCEPT ![w].seq = counter[job[w].type] + 1]
    <3>1. Alone(w) /\ pc[w] = "number" /\ pc'[w] = "insert"
          /\ job'[w] = [job[w] EXCEPT !.seq = counter[job[w].type] + 1]
      BY <1>1, <2>2, WorkerTypes DEF nextMovementNumber, Goto, Alone
    <3>2. CheckOK(w)'
      BY <3>1, WorkerTypes, CheckKept DEF ChecksOK, MakingSteps, Jobs
    <3> QED
      BY <3>1, <3>2, ChecksFrom
  <2> QED
    BY <1>1, <2>1, <2>2 DEF nextMovementNumber
<1>2. CASE SaveMovement(w)
  <2>1. CASE NextLine(w)
    BY <1>2, <2>1, NextLineChecks DEF SaveMovement, MakingSteps
  <2>2. CASE Goto(w, "read") /\ UNCHANGED job
    <3>1. Alone(w) /\ pc[w] = "insert" /\ pc'[w] = "read" /\ job'[w] = job[w]
      BY <1>2, <2>2, WorkerTypes DEF SaveMovement, Goto, Alone
    <3>2. CheckOK(w)'
      BY <3>1, CheckKept DEF ChecksOK, MakingSteps
    <3> QED
      BY <3>1, <3>2, ChecksFrom
  <2> QED
    BY <1>2, <2>1, <2>2 DEF SaveMovement
<1>3. CASE GetStock(w)
  <2>1. PICK q : job' = [job EXCEPT ![w].currentQty = q]
    BY <1>3 DEF GetStock
  <2>2. Alone(w) /\ pc[w] = "read" /\ pc'[w] = "write" /\ job'[w] = [job[w] EXCEPT !.currentQty = q]
    BY <1>3, <2>1, WorkerTypes DEF GetStock, Goto, Alone
  <2>3. CheckOK(w)'
    BY <2>2, WorkerTypes, CheckKept DEF ChecksOK, MakingSteps, Jobs
  <2> QED
    BY <2>2, <2>3, ChecksFrom
<1>4. CASE UpsertStock(w)
  BY <1>4, NextLineChecks DEF UpsertStock, MakingSteps
<1>5. CASE StatementFails(w)
  BY <1>5, NextLineChecks DEF StatementFails, MakingSteps
<1>6. CASE Reverse(w) \/ ReverseRefused(w) \/ Crash(w)
  BY <1>6, EndsChecked DEF Reverse, ReverseRefused, Crash
<1> QED
  BY <1>1, <1>2, <1>3, <1>4, <1>5, <1>6 DEF Step

-----------------------------------------------------------------------------
(* The theorems.                                                           *)

\* Before the first request nothing is on record and the stock is the opening one.
LEMMA LedgerInit ==
  ASSUME Init
  PROVE  LedgerInv /\ Ledger!Init
<1>1. /\ stock = Opening /\ movements = {} /\ adrift = {} /\ \A w \in Workers : pc[w] = "idle"
  BY DEF Init
<1>2. Book = {} /\ IsFiniteSet(movements)
  BY <1>1, FS_EmptySet DEF Book
<1>3. \A r \in Rows : Ledger!BalanceOf({})[r] = Opening[r]
  <2>1. Effect({}) = 0
    BY FS_EmptySet, EffectOf
  <2>2. \A r \in Rows : Ledger!On(r, {}) = {}
    BY DEF Ledger!On
  <2>3. ASSUME NEW r \in Rows
        PROVE  Opening[r] + Effect(Ledger!On(r, {})) = Opening[r]
    <3>1. Effect(Ledger!On(r, {})) = 0 /\ Opening[r] \in Int
      BY <2>1, <2>2, InventoryAssumption
    <3> QED
      BY <3>1
  <2> QED
    BY <2>3 DEF Ledger!BalanceOf, Effect
<1>4. Followed
  BY <1>1, <1>2, <1>3 DEF Followed, Book
<1>5. HoldsOK /\ ListsOK /\ GoneOK /\ ChecksOK
  BY <1>1 DEF HoldsOK, ListsOK, GoneOK, ChecksOK, CheckOK, Holding, MakingSteps
<1> QED
  BY <1>1, <1>2, <1>4, <1>5 DEF LedgerInv, Ledger!Init, Book

\* What a request does when it begins or is served at once.
LEMMA RequestKeeps ==
  ASSUME RecordInv, RecordInv', LedgerInv, Request, Overtaking
  PROVE  Keeps /\ ChecksOK'
<1>1. ChecksOK
  BY DEF LedgerInv
<1>2. ASSUME NEW w \in Movers, NEW r \in Rows, NEW q \in Quantities, MoveOut(w, r, q)
      PROVE  Keeps /\ ChecksOK'
  <2>1. q \in Int /\ stock[r] \in Int
    BY InventoryAssumption DEF RecordInv, TypeOK
  <2>2. w \in Workers /\ Begin(w, "exit", r, q, "request", 0) /\ q <= stock[r]
    BY <1>2, <2>1 DEF MoveOut, Workers
  <2> QED
    BY <1>1, <2>2, BeginsKeep, BeginsChecked
<1>3. ASSUME NEW w \in Movers, NEW r \in Rows, NEW q \in Quantities, NEW t \in Types, MoveIn(w, t, r, q)
      PROVE  Keeps /\ ChecksOK'
  <2>1. w \in Workers /\ Begin(w, t, r, q, "request", 0) /\ t # "exit"
    BY <1>3 DEF MoveIn, Adds, Workers
  <2> QED
    BY <1>1, <2>1, BeginsKeep, BeginsChecked
<1>4. ASSUME NEW w \in Movers, NEW from \in Rows, NEW to \in Rows, NEW q \in Quantities,
             Transfer(w, from, to, q)
      PROVE  Keeps /\ ChecksOK'
  <2>1. w \in Workers /\ Alone(w) /\ pc'[w] = "idle"
    BY <1>4 DEF Transfer, Workers, Alone
  <2>2. CheckOK(w)'
    BY <2>1 DEF CheckOK, MakingSteps
  <2> QED
    BY <1>1, <1>4, <2>1, <2>2, TransferKeeps, ChecksFrom
<1>5. ASSUME NEW w \in Sales \cup Purchases, NEW r \in Rows, NEW q \in Quantities, NEW n \in 1 .. MaxLines,
             SaleConfirmed(w, r, q, n) \/ PurchaseReceived(w, r, q, n)
      PROVE  Keeps /\ ChecksOK'
  <2>1. w \in Workers /\ \E t \in Types : Begin(w, t, r, q, "handler", n - 1)
    BY <1>5 DEF SaleConfirmed, PurchaseReceived, Workers, Types
  <2> QED
    BY <1>1, <2>1, BeginsKeep, BeginsChecked
<1>6. ASSUME NEW w \in Deleters, NEW m \in movements, SelectMovements(w, m)
      PROVE  Keeps /\ ChecksOK'
  <2>1. w \in Workers
    BY DEF Workers
  <2>2. Alone(w) /\ pc'[w] = "reverse"
    BY <1>6, <2>1, WorkerTypes DEF SelectMovements, Goto, Alone
  <2>3. CheckOK(w)'
    BY <2>2 DEF CheckOK, MakingSteps
  <2> QED
    BY <1>1, <1>6, <2>1, <2>2, <2>3, SelectsKeep, ChecksFrom
<1> QED
  BY <1>2, <1>3, <1>4, <1>5, <1>6 DEF Request

\* Every step is one of the ledger's, or none of its concern.
LEMMA LedgerStep ==
  ASSUME RecordInv, RecordInv', LedgerInv, [Next]_vars
  PROVE  LedgerInv' /\ [Ledger!Next]_<<Book, stock, adrift>>
<1>1. CASE UNCHANGED vars
  <2>1. UNCHANGED <<movements, stock, pc, job, counter, adrift, overtaken>>
    BY <1>1 DEF vars
  <2>2. Book' = Book
    BY <2>1 DEF Book, Unapplied, Number
  <2>3. HoldsOK' /\ GoneOK' /\ ListsOK'
    BY <2>1 DEF LedgerInv, HoldsOK, GoneOK, ListsOK, Number, Movement, IsAddition,
                Ledger!WholeOperation, Ledger!Halves
  <2>4. ChecksOK'
    BY <2>1 DEF LedgerInv, ChecksOK, CheckOK
  <2>5. Followed'
    BY <2>1, <2>2, FollowedSame DEF LedgerInv
  <2> QED
    BY <2>1, <2>2, <2>3, <2>4, <2>5 DEF LedgerInv
<1>2. CASE Next
  <2>1. Overtaking /\ ChecksOK
    BY <1>2 DEF Next, LedgerInv
  <2>2. Keeps /\ ChecksOK'
    <3>1. CASE Request
      BY <2>1, <3>1, RequestKeeps
    <3>2. ASSUME NEW w \in Workers, Step(w)
          PROVE  Keeps /\ ChecksOK'
      <4>1. ChecksOK'
        BY <2>1, <3>2, StepChecked
      <4>2. Keeps
        BY <3>2, NumbersKeep, SavesKeep, ReadsKeep, UpsertsKeep, StopsKeep, ReversesKeep DEF Step
      <4> QED
        BY <4>1, <4>2
    <3> QED
      BY <1>2, <3>1, <3>2 DEF Next
  <2>3. LedgerInv'
    BY <2>2 DEF Keeps, LedgerInv
  <2>4. Ledger!Next
    <3>1. \/ Ledger!Record \/ Ledger!Remove \/ UNCHANGED Book
      BY <2>2 DEF Keeps, Ledger!Record, Ledger!Remove, Book
    <3>2. adrift \subseteq adrift' /\ \A r \in Rows \ adrift' : stock'[r] = Ledger!BalanceOf(Book')[r]
      BY <2>2 DEF Keeps, Followed, Book
    <3> QED
      BY <3>1, <3>2 DEF Ledger!Next, Book
  <2> QED
    BY <2>3, <2>4
<1> QED
  BY <1>1, <1>2

\* What takes a row further below zero.
LEMMA OversoldStep ==
  ASSUME RecordInv, RecordInv', LedgerInv, [Next]_vars, NEW r \in Rows, stock'[r] < 0, stock'[r] < stock[r]
  PROVE  \E w \in Workers :
           /\ pc[w] = "write" /\ job[w].row = r
           /\ job[w].by = "handler" \/ w \in overtaken \/ job[w].currentQty < 0
<1>1. stock \in [Rows -> Int] /\ stock' \in [Rows -> Int] /\ stock' # stock
  BY DEF RecordInv, TypeOK
<1>2. ASSUME NEW w \in Workers, NEW from \in Rows, NEW to \in Rows, NEW q \in Quantities,
             Transfer(w, from, to, q)
      PROVE  FALSE
  <2>1. q \in Nat /\ stock[from] \in Int /\ stock[to] \in Int /\ stock[r] \in Int
    BY <1>1, InventoryAssumption
  <2>2. stock[from] >= q /\ stock' = [stock EXCEPT ![from] = @ - q, ![to] = @ + q] /\ from # to
    BY <1>2 DEF Transfer
  <2>3. /\ r = from => stock'[r] = stock[r] - q
        /\ r = to => stock'[r] = stock[r] + q
        /\ r # from /\ r # to => stock'[r] = stock[r]
    BY <1>1, <2>2
  <2> QED
    BY <2>1, <2>2, <2>3
<1>3. ASSUME NEW w \in Workers, UpsertStock(w),
             job[w].by # "handler", w \notin overtaken, ~ (job[w].currentQty < 0)
      PROVE  FALSE
  <2> DEFINE row == job[w].row
             new == IF Adds(job[w].type) THEN job[w].currentQty + job[w].quantity
                                         ELSE job[w].currentQty - job[w].quantity
  <2>1. pc[w] = "write" /\ stock' = [stock EXCEPT ![row] = new]
    BY <1>3 DEF UpsertStock
  <2>2. stock'[r] = new
    <3>1. r # row => stock'[r] = stock[r]
      BY <2>1, <1>1
    <3>2. stock[r] \in Int
      BY <1>1
    <3>3. r = row
      BY <3>1, <3>2
    <3> QED
      BY <1>1, <2>1, <3>3
  <2>3. job[w] \in Jobs /\ job[w].type \in Types \ {"transfer"}
    BY <2>1, WorkerTypes DEF MakingSteps
  <2>4. job[w].quantity \in Nat /\ job[w].currentQty \in Int /\ job[w].by = "request"
    BY <1>3, <2>3 DEF Jobs
  <2>5. job[w].type = "exit" => job[w].quantity <= job[w].currentQty
    BY <1>3, <2>1, <2>4 DEF LedgerInv, ChecksOK, CheckOK, MakingSteps
  <2>6. Adds(job[w].type) \/ job[w].type = "exit"
    BY <2>3 DEF Adds, Types
  <2>7. new >= 0
    BY <1>3, <2>4, <2>5, <2>6
  <2>8. new \in Int
    BY <2>4
  <2> HIDE DEF new
  <2> QED
    BY <2>2, <2>7, <2>8
<1>4. ASSUME NEW w \in Workers, Reverse(w)
      PROVE  FALSE
  <2>1. /\ stock' = Reversed(job[w].list) /\ \A m \in job[w].list : Reversed(job[w].list)[m.row] >= 0
    BY <1>4 DEF Reverse
  <2>2. (\A m \in job[w].list : m.row # r) => stock'[r] = stock[r]
    BY <2>1 DEF Reversed
  <2>3. stock[r] \in Int /\ stock'[r] \in Int
    BY <1>1
  <2>4. PICK m \in job[w].list : m.row = r
    BY <2>2, <2>3
  <2>5. stock'[r] >= 0
    BY <2>1, <2>4
  <2> QED
    BY <2>3, <2>5
<1>5. CASE Request
  BY <1>1, <1>2, <1>5 DEF Request, MoveOut, MoveIn, SaleConfirmed, PurchaseReceived, Begin, SelectMovements, Workers
<1>6. ASSUME NEW w \in Workers, Step(w)
      PROVE  \E v \in Workers :
               /\ pc[v] = "write" /\ job[v].row = r
               /\ job[v].by = "handler" \/ v \in overtaken \/ job[v].currentQty < 0
  <2>1. UpsertStock(w)
    BY <1>1, <1>4, <1>6 DEF Step, nextMovementNumber, SaveMovement, GetStock, StatementFails, ReverseRefused, Crash
  <2>2. pc[w] = "write" /\ job[w].row = r
    <3>1. pc[w] = "write" /\ \E x : stock' = [stock EXCEPT ![job[w].row] = x]
      BY <2>1 DEF UpsertStock
    <3>2. job[w].row # r => stock'[r] = stock[r]
      BY <1>1, <3>1
    <3>3. stock[r] \in Int
      BY <1>1
    <3> QED
      BY <3>1, <3>2, <3>3
  <2>3. job[w].by = "handler" \/ w \in overtaken \/ job[w].currentQty < 0
    BY <1>3, <2>1
  <2> QED
    BY <2>2, <2>3
<1>7. CASE UNCHANGED vars
  BY <1>1, <1>7 DEF vars
<1> QED
  BY <1>5, <1>6, <1>7 DEF Next

\* However requests to move, transfer and delete and the handlers of both events overlap
\* and fail, the stock of a row that is not adrift is the opening one with the effect of
\* the movements on record that are applied; a deletion takes a whole operation or
\* nothing of it; a movement deleted before it was applied has its row adrift; and an
\* exit that was not overtaken still has the stock it checked.
THEOREM StockAsRecorded == Spec => []LedgerInv
<1>1. Init => LedgerInv
  BY LedgerInit
<1>2. RecordInv /\ RecordInv' /\ LedgerInv /\ [Next]_vars => LedgerInv'
  BY LedgerStep
<1> QED
  BY <1>1, <1>2, RecordInvariant, PTL DEF Spec

\* The program implements the ledger, with everything that overlaps and fails: what enters
\* and leaves the record is a movement or both halves of a transfer, and each row follows
\* the record until one of the five things ImplementsLedger names sets it adrift.
THEOREM StockImplementsLedger == Spec => ImplementsLedger
<1>1. Init => Ledger!Init
  BY LedgerInit
<1>2. RecordInv /\ RecordInv' /\ LedgerInv /\ [Next]_vars =>
        [Ledger!Next]_<<movements \ Unapplied, stock, adrift>>
  BY LedgerStep DEF Book
<1> QED
  BY <1>1, <1>2, RecordInvariant, StockAsRecorded, PTL DEF Spec, ImplementsLedger, Ledger!Spec

\* No transfer, deletion, entry or adjustment takes a row below zero; of the exits, only
\* those of the handler of SaleConfirmed, those whose stock fell between the check of
\* Execute and its second reading, and those that read a row below zero already.
THEOREM OversellingHasItsCause == Spec => OversoldBySalesOrStaleChecks
<1>1. RecordInv /\ RecordInv' /\ LedgerInv /\ [Next]_vars =>
        [\A r \in Rows : stock'[r] < 0 /\ stock'[r] < stock[r] =>
           \E w \in Workers :
             /\ pc[w] = "write" /\ job[w].row = r
             /\ job[w].by = "handler" \/ w \in overtaken \/ job[w].currentQty < 0]_vars
  BY OversoldStep
<1> QED
  BY <1>1, RecordInvariant, StockAsRecorded, PTL DEF Spec, OversoldBySalesOrStaleChecks
=============================================================================
