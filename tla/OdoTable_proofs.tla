--------------------------- MODULE OdoTable_proofs ---------------------------
(***************************************************************************)
(* Proofs about OdoTable, for all programs, bounds, keys and profiles.     *)
(*                                                                         *)
(* Init, Statement and Probe are taken in turn; the statements that resize *)
(* a table rest on lemma ResizeStep, the searches on the loop invariant    *)
(* LoopInv.                                                                *)
(***************************************************************************)
EXTENDS OdoTable, TLAPS

\* What a SEARCH knows between two of its steps: the part of the table it has
\* not looked at holds every match there is.
LoopInv ==
  outcome = "open" =>
    /\ kind \in {"serial", "all"}
    /\ from \in 1..low /\ low <= high /\ high <= active[who]
    /\ kind = "serial" => high = active[who] /\ Matches(low - 1) = {}
    /\ kind = "all" =>
         /\ from = 1
         /\ Sorted => \A i \in 1..active[who] :
                        cells[who][i] = key => low <= i /\ i <= high

TableInv == TypeOK /\ ActiveCellsExist /\ FreshUntilWritten /\ CountsAgree

IInv == TableInv /\ LoopInv /\ SearchIsRight

-----------------------------------------------------------------------------
\* The storage pool's part of the invariant.
PoolOK ==
  /\ pool \in [Programs -> Nat]
  /\ cells \in [Programs -> [Occ -> Data \cup {Absent}]]
  /\ touched \in [Programs -> SUBSET Occ]
  /\ \A p \in Programs :
       InRange(p, pool[p]) /\ \A i \in 1..pool[p] : cells[p][i] # Absent
  /\ FreshUntilWritten

\* A resize gives the tables it reaches v active occurrences, each with a
\* cell, and takes from no occurrence what was written to it while active.
LEMMA ResizeStep ==
  ASSUME TypeOK, ActiveCellsExist, FreshUntilWritten,
         NEW ps \in SUBSET Programs, NEW v \in Int,
         \A q \in ps : InRange(q, v), ResizeAll(ps, v)
  PROVE  PoolOK'
<1>1. ASSUME NEW p \in Programs
      PROVE  /\ MinOf[p] \in Nat /\ MaxOf[p] \in 1..Top
             /\ pool[p] \in Nat /\ MinOf[p] <= pool[p] /\ pool[p] <= MaxOf[p]
             /\ cells[p] \in [Occ -> Data \cup {Absent}]
             /\ touched[p] \in SUBSET Occ /\ touched[p] \subseteq 1..pool[p]
             /\ \A i \in 1..pool[p] : cells[p][i] # Absent
             /\ \A i \in Occ \ touched[p] : cells[p][i] \in {Value, Absent}
  BY OdoTableAssumption
     DEF TypeOK, ActiveCellsExist, FreshUntilWritten, InRange
<1>2. Top \in Nat /\ Value \in Data /\ Value # Absent
  BY OdoTableAssumption
<1>3. ASSUME NEW p \in Programs, p \notin ps
      PROVE  pool'[p] = pool[p] /\ cells'[p] = cells[p]
             /\ touched'[p] = touched[p]
  BY <1>3 DEF ResizeAll
<1>4. ASSUME NEW p \in ps
      PROVE  /\ pool'[p] = v /\ cells'[p] = Resized(p, v)
             /\ touched'[p] = touched[p] \ ((v + 1)..pool[p])
             /\ v \in Nat /\ MinOf[p] <= v /\ v <= MaxOf[p] /\ v <= Top
  <2>1. p \in Programs /\ MinOf[p] <= v /\ v <= MaxOf[p]
    BY DEF InRange
  <2>2. v \in Nat /\ v <= Top
    BY <2>1, <1>1, <1>2
  <2> QED BY <2>1, <2>2 DEF ResizeAll
<1>5. ASSUME NEW p \in Programs
      PROVE  /\ pool'[p] \in Nat
             /\ cells'[p] \in [Occ -> Data \cup {Absent}]
             /\ touched'[p] \in SUBSET Occ
             /\ InRange(p, pool'[p])
             /\ \A i \in 1..pool'[p] : cells'[p][i] # Absent
             /\ touched'[p] \subseteq 1..pool'[p]
             /\ \A i \in Occ \ touched'[p] : cells'[p][i] \in {Value, Absent}
  <2>1. CASE p \in ps
    <3>1. Resized(p, v) \in [Occ -> Data \cup {Absent}]
      BY <1>1, <1>2 DEF Resized
    <3>2. ASSUME NEW i \in 1..v PROVE Resized(p, v)[i] # Absent
      <4>1. i \in Occ /\ ~(v < i)
        BY <2>1, <1>2, <1>4 DEF Occ
      <4>2. i \in 1..pool[p] => cells[p][i] # Absent
        BY <1>1
      <4> QED BY <4>1, <4>2, <1>1, <1>2, <1>4, <2>1 DEF Resized
    <3>3. ASSUME NEW i \in Occ, i \notin touched'[p]
          PROVE  Resized(p, v)[i] \in {Value, Absent}
      <4>1. CASE i \in touched[p]
        <5>1. v < i /\ i <= pool[p]
          BY <2>1, <3>3, <4>1, <1>1, <1>4
        <5> QED BY <5>1, <2>1, <1>1, <1>4 DEF Resized, Occ
      <4>2. CASE i \notin touched[p]
        BY <4>2, <1>1 DEF Resized
      <4> QED BY <4>1, <4>2
    <3>4. touched'[p] \subseteq 1..v
      BY <2>1, <1>1, <1>4
    <3> QED BY <2>1, <3>1, <3>2, <3>3, <3>4, <1>1, <1>4 DEF InRange
  <2>2. CASE p \notin ps
    BY <2>2, <1>1, <1>3 DEF InRange
  <2> QED BY <2>1, <2>2
<1>6. pool' \in [Programs -> Nat]
  BY <1>5 DEF ResizeAll
<1>7. cells' \in [Programs -> [Occ -> Data \cup {Absent}]]
  BY <1>5 DEF ResizeAll
<1>8. touched' \in [Programs -> SUBSET Occ]
  BY <1>5 DEF ResizeAll
<1>9. FreshUntilWritten'
  BY <1>5 DEF FreshUntilWritten
<1> QED BY <1>5, <1>6, <1>7, <1>8, <1>9 DEF PoolOK

-----------------------------------------------------------------------------
\* The generated code's definitions of the tables satisfy the invariant.
LEMMA InitInv == ASSUME Init PROVE IInv
<1>1. Someone \in Programs
  BY OdoTableAssumption DEF Someone
<1>2. TypeOK
  <2>1. StartOf \in [Programs -> Nat] /\ Value \in Data /\ Top \in Nat
    BY OdoTableAssumption
  <2>2. cells \in [Programs -> [Occ -> Data \cup {Absent}]]
    <3>1. cells = [p \in Programs |-> AllCells(p)]
      BY DEF Init
    <3>2. \A p \in Programs : AllCells(p) \in [Occ -> Data \cup {Absent}]
      BY <2>1 DEF AllCells
    <3> QED BY <3>1, <3>2
  <2>3. touched \in [Programs -> SUBSET Occ]
    BY DEF Init
  <2>4. index \in [Programs -> 0..Top]
    BY <2>1 DEF Init
  <2>5. use \in Profiles /\ who \in Programs /\ key \in Data
    BY <1>1, <2>1 DEF Init
  <2>6. active \in [Programs -> Nat] /\ pool \in [Programs -> Nat]
    BY <2>1 DEF Init
  <2>7. count \in [Programs -> Int]
    BY <2>1 DEF Init
  <2> QED BY <2>2, <2>3, <2>4, <2>5, <2>6, <2>7 DEF Init, TypeOK
<1>3. ActiveCellsExist /\ FreshUntilWritten /\ CountsAgree
  BY OdoTableAssumption
     DEF Init, AllCells, Occ, InRange, ActiveCellsExist, FreshUntilWritten,
         CountsAgree
<1> QED BY <1>2, <1>3 DEF Init, IInv, TableInv, LoopInv, SearchIsRight

-----------------------------------------------------------------------------
\* Statements other than SEARCH leave none open.
LEMMA NoSearchStep ==
  ASSUME NoSearch
  PROVE  LoopInv' /\ SearchIsRight'
BY DEF NoSearch, LoopInv, SearchIsRight

\* MOVE to the counter: what it resizes is resized as ResizeStep has it, also
\* when one of the tables it reaches rejects the count, and in a plain program
\* it reaches one table only and brings its counts together.
LEMMA WriteCountStep ==
  ASSUME TableInv, NEW p \in Programs, NEW v \in Counts, WriteCount(p, v)
  PROVE  TableInv'
<1>1. v \in Int
  BY OdoTableAssumption DEF Counts
<1>2. PICK ps \in SUBSET Programs :
        /\ \A q \in ps : InRange(q, v)
        /\ ResizeAll(ps, v)
        /\ active' = active \/ (p \in ps /\ active' = ActiveAfter(p, v))
        /\ ~failed' => ps = Reached(p) /\ active' = ActiveAfter(p, v)
  <2>1. CASE \A q \in Reached(p) : InRange(q, v)
    <3>1. Reached(p) \in SUBSET Programs /\ p \in Reached(p)
      BY DEF Reached
    <3> QED BY <2>1, <3>1 DEF WriteCount
  <2>2. CASE ~ \A q \in Reached(p) : InRange(q, v)
    <3>1. PICK ps \in SUBSET {q \in Reached(p) : InRange(q, v)} :
            /\ ResizeAll(ps, v)
            /\ active' = active \/ (p \in ps /\ active' = ActiveAfter(p, v))
      BY <2>2 DEF WriteCount
    <3>2. failed' = TRUE
      BY <2>2 DEF WriteCount
    <3>3. ps \in SUBSET Programs /\ \A q \in ps : InRange(q, v)
      BY DEF Reached
    <3> QED BY <3>1, <3>2, <3>3
  <2> QED BY <2>1, <2>2
<1>3. PoolOK'
  BY <1>1, <1>2, ResizeStep DEF TableInv
<1>4. active' \in [Programs -> Nat]
      /\ \A q \in Programs : InRange(q, active'[q])
  <2>1. active \in [Programs -> Nat]
        /\ \A q \in Programs : InRange(q, active[q])
    BY DEF TableInv, TypeOK, ActiveCellsExist
  <2>2. CASE p \in ps /\ active' = ActiveAfter(p, v)
    <3>1. InRange(p, v) /\ MinOf[p] \in Nat
      BY <1>2, <2>2, OdoTableAssumption
    <3>2. v \in Nat
      BY <1>1, <3>1 DEF InRange
    <3> QED BY <2>1, <2>2, <3>1, <3>2 DEF ActiveAfter
  <2> QED BY <1>2, <2>1, <2>2
<1>5. TypeOK'
  BY <1>1, <1>3, <1>4, OdoTableAssumption
     DEF TableInv, TypeOK, WriteCount, NoSearch, Someone, PoolOK
<1>6. ActiveCellsExist' /\ FreshUntilWritten'
  BY <1>3, <1>4 DEF ActiveCellsExist, PoolOK
<1>7. CountsAgree'
  <2> SUFFICES ASSUME Plain', ~failed', NEW q \in Programs
               PROVE  count'[q] = active'[q] /\ active'[q] = pool'[q]
    BY DEF CountsAgree
  <2>1. use' = use /\ ~failed /\ count' = [count EXCEPT ![p] = v]
    BY DEF WriteCount, NoSearch, Idle
  <2>2. Plain /\ Reached(p) = {p}
    BY <2>1 DEF Plain, Reached
  <2>3. count[q] = active[q] /\ active[q] = pool[q]
    BY <2>1, <2>2 DEF TableInv, CountsAgree
  <2>4. pool' = [r \in Programs |-> IF r \in {p} THEN v ELSE pool[r]]
        /\ active' = [active EXCEPT ![p] = v]
    BY <1>2, <2>2 DEF ResizeAll, ActiveAfter
  <2> QED BY <2>1, <2>3, <2>4 DEF TableInv, TypeOK
<1> QED BY <1>5, <1>6, <1>7 DEF TableInv

\* SetOdo resizes one table, and only programs that are not plain use it.
LEMMA SetOdoStep ==
  ASSUME TableInv, NEW p \in Programs, NEW v \in Counts, SetOdo(p, v)
  PROVE  TableInv'
<1>1. v \in Int
  BY OdoTableAssumption DEF Counts
<1>2. CASE InRange(p, v)
  <2>1. ResizeAll({p}, v) /\ active' = [active EXCEPT ![p] = v]
        /\ failed' = failed
    BY <1>2 DEF SetOdo, ActiveAfter
  <2>2. PoolOK'
    BY <1>1, <1>2, <2>1, ResizeStep DEF TableInv
  <2>3. v \in Nat
    BY <1>1, <1>2, OdoTableAssumption DEF InRange
  <2>4. active' \in [Programs -> Nat]
        /\ \A q \in Programs : InRange(q, active'[q])
    BY <1>2, <2>1, <2>3 DEF TableInv, TypeOK, ActiveCellsExist
  <2>5. TypeOK'
    BY <2>1, <2>2, <2>4, OdoTableAssumption
       DEF TableInv, TypeOK, SetOdo, NoSearch, Someone, PoolOK
  <2>6. ActiveCellsExist' /\ FreshUntilWritten'
    BY <2>2, <2>4 DEF ActiveCellsExist, PoolOK
  <2>7. ~Plain'
    BY DEF SetOdo, NoSearch, Plain
  <2> QED BY <2>5, <2>6, <2>7 DEF TableInv, CountsAgree
<1>3. CASE ~InRange(p, v)
  <2>1. UNCHANGED table /\ failed'
    BY <1>3 DEF SetOdo, table
  <2> QED BY <2>1, OdoTableAssumption
          DEF table, TableInv, TypeOK, ActiveCellsExist, FreshUntilWritten,
              CountsAgree, SetOdo, NoSearch, Someone
<1> QED BY <1>2, <1>3

\* MOVE to an occurrence writes an active one.
LEMMA WriteItemStep ==
  ASSUME TableInv, NEW p \in Programs, NEW i \in 0..(Top + 1), NEW x \in Data,
         WriteItem(p, i, x)
  PROVE  TableInv'
<1>1. use' = use /\ index' = index /\ UNCHANGED <<count, active, pool>>
      /\ ~failed
  BY DEF WriteItem, NoSearch, Idle
<1>2. x # Absent /\ who' \in Programs /\ key' \in Data
  BY OdoTableAssumption DEF WriteItem, NoSearch, Someone
<1>3. CASE i \in 1..pool[p]
  <2>1. cells' = [cells EXCEPT ![p][i] = x] /\ failed' = failed
        /\ touched' = [touched EXCEPT ![p] = @ \cup {i}]
    BY <1>3 DEF WriteItem
  <2>2. i \in Occ
    <3>1. pool[p] <= MaxOf[p] /\ pool[p] \in Nat
      BY DEF TableInv, TypeOK, ActiveCellsExist, InRange
    <3>2. MaxOf[p] \in 1..Top /\ Top \in Nat
      BY OdoTableAssumption
    <3> QED BY <1>3, <3>1, <3>2 DEF Occ
  <2>3. TypeOK'
    <3>1. cells' \in [Programs -> [Occ -> Data \cup {Absent}]]
      BY <1>2, <2>1, <2>2 DEF TableInv, TypeOK
    <3>2. touched' \in [Programs -> SUBSET Occ]
      BY <2>1, <2>2 DEF TableInv, TypeOK
    <3> QED BY <1>1, <1>2, <2>1, <3>1, <3>2
            DEF TableInv, TypeOK, WriteItem, NoSearch
  <2>4. ActiveCellsExist'
    <3>1. cells \in [Programs -> [Occ -> Data \cup {Absent}]]
          /\ \A q \in Programs : \A j \in 1..pool[q] : cells[q][j] # Absent
      BY DEF TableInv, TypeOK, ActiveCellsExist
    <3>2. ASSUME NEW q \in Programs, NEW j \in 1..pool[q]
          PROVE  cells'[q][j] # Absent
      BY <1>2, <2>1, <2>2, <3>1
    <3> QED BY <1>1, <3>2 DEF TableInv, ActiveCellsExist
  <2>5. FreshUntilWritten'
    BY <1>1, <1>3, <2>1, <2>2 DEF TableInv, TypeOK, FreshUntilWritten
  <2>6. CountsAgree'
    BY <1>1, <2>1 DEF TableInv, CountsAgree, Plain
  <2> QED BY <2>3, <2>4, <2>5, <2>6 DEF TableInv
<1>4. CASE i \notin 1..pool[p]
  <2>1. UNCHANGED <<cells, touched>> /\ failed' = TRUE
    BY <1>4 DEF WriteItem
  <2> QED BY <1>1, <1>2, <2>1
          DEF TableInv, TypeOK, ActiveCellsExist, FreshUntilWritten,
              CountsAgree, WriteItem, NoSearch
<1> QED BY <1>3, <1>4

\* SET moves the index within the table and nothing else.
LEMMA SetIndexStep ==
  ASSUME TableInv, NEW p \in Programs, NEW i \in 0..(Top + 1), SetIndex(p, i)
  PROVE  TableInv'
<1>1. who' \in Programs /\ key' \in Data /\ use' = use /\ UNCHANGED table
  BY OdoTableAssumption DEF SetIndex, NoSearch, Someone
<1>2. index' \in [Programs -> 0..Top] /\ failed' \in BOOLEAN
      /\ (~failed' => ~failed)
  <2>1. MaxOf[p] \in 1..Top /\ Top \in Nat
    BY OdoTableAssumption
  <2>2. index \in [Programs -> 0..Top] /\ failed \in BOOLEAN
    BY DEF TableInv, TypeOK
  <2>3. CASE i \in 1..MaxOf[p]
    <3>1. index' = [index EXCEPT ![p] = i] /\ failed' = failed
      BY <2>3 DEF SetIndex
    <3>2. i \in 0..Top
      BY <2>1, <2>3
    <3> QED BY <2>2, <3>1, <3>2
  <2>4. CASE i \notin 1..MaxOf[p]
    BY <2>2, <2>4 DEF SetIndex
  <2> QED BY <2>3, <2>4
<1>3. TypeOK'
  BY <1>1, <1>2 DEF table, TableInv, TypeOK, SetIndex, NoSearch
<1>4. ActiveCellsExist' /\ FreshUntilWritten'
  BY <1>1 DEF table, TableInv, ActiveCellsExist, FreshUntilWritten
<1>5. CountsAgree'
  BY <1>1, <1>2 DEF table, TableInv, CountsAgree, Plain
<1> QED BY <1>3, <1>4, <1>5 DEF TableInv

\* The reset of an INITIAL program leaves a table as it was defined.
LEMMA ResetStep ==
  ASSUME TableInv, NEW p \in Programs, Reset(p)
  PROVE  TableInv'
<1> DEFINE After == [i \in Occ |-> IF i > MaxOf[p] THEN Absent
                                   ELSE IF StartOf[p] < i /\ i <= pool[p]
                                        THEN Absent ELSE Value]
<1>1. use' = use /\ UNCHANGED <<active, index, failed>> /\ ~Plain
      /\ count' = [count EXCEPT ![p] = StartOf[p]]
      /\ pool' = [pool EXCEPT ![p] = StartOf[p]]
      /\ cells' = [cells EXCEPT ![p] = After]
      /\ touched' = [touched EXCEPT ![p] = {}]
  BY DEF Reset, NoSearch, Plain
<1>2. StartOf[p] \in Nat /\ MinOf[p] \in Nat /\ MaxOf[p] \in 1..Top
      /\ Top \in Nat /\ MinOf[p] <= StartOf[p] /\ StartOf[p] <= MaxOf[p]
      /\ Value \in Data /\ Value # Absent
  BY OdoTableAssumption
<1>3. After \in [Occ -> {Value, Absent}]
  OBVIOUS
<1>4. \A i \in 1..StartOf[p] : After[i] = Value
  BY <1>2 DEF Occ
<1> HIDE DEF After
<1>5. TypeOK'
  <2>1. cells' \in [Programs -> [Occ -> Data \cup {Absent}]]
    BY <1>1, <1>2, <1>3 DEF TableInv, TypeOK
  <2>2. who' \in Programs /\ key' \in Data
    BY OdoTableAssumption DEF Reset, NoSearch, Someone
  <2>3. count' \in [Programs -> Int]
    <3>1. count \in [Programs -> Int]
      BY DEF TableInv, TypeOK
    <3> QED BY <1>1, <1>2, <3>1
  <2>4. pool' \in [Programs -> Nat]
    BY <1>1, <1>2 DEF TableInv, TypeOK
  <2>5. touched' \in [Programs -> SUBSET Occ]
    BY <1>1 DEF TableInv, TypeOK
  <2> QED BY <1>1, <2>1, <2>2, <2>3, <2>4, <2>5
          DEF TableInv, TypeOK, Reset, NoSearch
<1>6. ActiveCellsExist'
  <2>1. pool \in [Programs -> Nat]
        /\ cells \in [Programs -> [Occ -> Data \cup {Absent}]]
    BY DEF TableInv, TypeOK
  <2> QED BY <1>1, <1>2, <1>4, <2>1 DEF TableInv, ActiveCellsExist, InRange
<1>7. FreshUntilWritten'
  <2>1. touched \in [Programs -> SUBSET Occ]
        /\ cells \in [Programs -> [Occ -> Data \cup {Absent}]]
        /\ pool \in [Programs -> Nat]
    BY DEF TableInv, TypeOK
  <2> QED BY <1>1, <1>3, <2>1 DEF TableInv, FreshUntilWritten
<1>8. CountsAgree'
  BY <1>1 DEF CountsAgree, Plain
<1> QED BY <1>5, <1>6, <1>7, <1>8 DEF TableInv

\* SEARCH and SEARCH ALL begin with all they have to look at.
LEMMA StartStep ==
  ASSUME TableInv, NEW p \in Programs, NEW x \in Data,
         NEW ascending \in BOOLEAN,
         StartSerial(p, x) \/ StartAll(p, x, ascending)
  PROVE  TableInv' /\ LoopInv' /\ SearchIsRight'
<1>1. use' = use /\ UNCHANGED <<table, index>> /\ who' = p /\ key' = x
      /\ ~failed /\ up' \in BOOLEAN /\ kind' \in {"serial", "all"}
      /\ high' = active[p] /\ high' \in Nat /\ index[p] \in Nat
      /\ failed' \in BOOLEAN
  <2>1. active[p] \in Nat /\ index[p] \in Nat /\ failed \in BOOLEAN
    <3>1. active \in [Programs -> Nat] /\ index \in [Programs -> 0..Top]
          /\ failed \in BOOLEAN
      BY DEF TableInv, TypeOK
    <3> QED BY <3>1, OdoTableAssumption
  <2>2. CASE StartSerial(p, x)
    BY <2>1, <2>2 DEF StartSerial, Idle, SearchMax, Fails
  <2>3. CASE StartAll(p, x, ascending)
    BY <2>1, <2>3 DEF StartAll, Idle, SearchMax
  <2> QED BY <2>2, <2>3
<1>a. high' \in Nat /\ index[p] \in Nat
  BY <1>1
<1>b. ASSUME GoesOn, low' \in Nat
      PROVE  \/ outcome' = "open" /\ low' <= high'
             \/ outcome' = "at end" /\ low' > high'
  <2>1. CASE low' > high'
    BY <1>b, <2>1 DEF GoesOn, Exhausted
  <2>2. CASE ~(low' > high')
    BY <1>a, <1>b, <2>2 DEF GoesOn, Exhausted
  <2> QED BY <2>1, <2>2
<1>2. \/ /\ outcome' = "none"
         /\ low' \in Nat /\ from' \in Nat
      \/ /\ from' = low' /\ low' \in Nat /\ low' >= 1
         /\ outcome' = "open" /\ low' <= high'
      \/ /\ from' = low' /\ low' \in Nat /\ low' >= 1
         /\ outcome' = "at end" /\ low' > high'
  <2>1. CASE StartSerial(p, x)
    <3>1. CASE index[p] = 0
      BY <2>1, <3>1 DEF StartSerial, Fails
    <3>2. CASE index[p] # 0
      <4>1. from' = index[p] /\ low' = index[p] /\ GoesOn
        BY <2>1, <3>2 DEF StartSerial
      <4>2. low' \in Nat /\ low' >= 1 /\ from' = low'
        BY <1>a, <3>2, <4>1
      <4> QED BY <1>b, <4>1, <4>2
    <3> QED BY <3>1, <3>2
  <2>2. CASE StartAll(p, x, ascending)
    <3>1. from' = 1 /\ low' = 1 /\ GoesOn
      BY <2>2 DEF StartAll
    <3>2. low' \in Nat /\ low' >= 1 /\ from' = low'
      BY <3>1
    <3> QED BY <1>b, <3>1, <3>2
  <2> QED BY <2>1, <2>2
<1>3. TypeOK'
  BY <1>1, <1>2 DEF TableInv, TypeOK, table
<1>4. ActiveCellsExist' /\ FreshUntilWritten' /\ CountsAgree'
  BY <1>1 DEF TableInv, ActiveCellsExist, FreshUntilWritten, CountsAgree,
              Plain, table
<1>5. active' = active /\ cells' = cells
  BY <1>1 DEF table
<1>6. kind' = "all" => from' = 1 /\ low' = 1
  BY DEF StartSerial, StartAll
<1>7. LoopInv'
  BY <1>1, <1>2, <1>5, <1>6 DEF LoopInv, Matches
<1>8. SearchIsRight'
  <2>1. outcome' # "found"
    BY <1>2
  <2>2. ASSUME outcome' = "at end" PROVE Matches(active[who])' = {}
    <3>1. from' > high' /\ from' \in Nat /\ high' = active'[who']
      BY <1>1, <1>2, <1>5, <2>2
    <3> QED BY <1>1, <3>1 DEF Matches
  <2> QED BY <2>1, <2>2 DEF SearchIsRight
<1> QED BY <1>3, <1>4, <1>7, <1>8 DEF TableInv

\* The middle of a range lies in it.
LEMMA MidBetween ==
  ASSUME NEW l \in Nat, NEW h \in Nat, l <= h
  PROVE  l + (h - l) \div 2 \in l..h
OBVIOUS

\* A SEARCH looks at an active occurrence it has not looked at yet.
LEMMA AtBetween ==
  ASSUME TableInv, LoopInv, outcome = "open"
  PROVE  /\ At \in low..high /\ At \in from..active[who] /\ At \in 1..Top
         /\ low \in Nat /\ high \in Nat /\ from \in Nat /\ from >= 1
         /\ from <= low /\ low <= high /\ high <= active[who]
         /\ active[who] \in Nat /\ active[who] <= Top
<1>1. low \in Nat /\ high \in Nat /\ from \in 1..low /\ low <= high
      /\ high <= active[who] /\ who \in Programs
  BY DEF TableInv, TypeOK, LoopInv
<1>2. active[who] \in Nat /\ active[who] <= MaxOf[who]
  BY <1>1 DEF TableInv, TypeOK, ActiveCellsExist, InRange
<1>3. MaxOf[who] \in 1..Top /\ Top \in Nat
  BY <1>1, OdoTableAssumption
<1>4. At \in low..high
  BY <1>1, MidBetween DEF At, Mid
<1> QED BY <1>1, <1>2, <1>3, <1>4

\* In a sorted table every match lies on the side SEARCH ALL goes on with.
LEMMA SidesOfMid ==
  ASSUME TableInv, Sorted, NEW i \in 1..active[who], cells[who][i] = key,
         Mid \in 1..active[who], Mid <= pool[who], cells[who][Mid] # key
  PROVE  IF ToTheRight THEN Mid < i ELSE i < Mid
<1>1. Data \subseteq Int /\ Absent \notin Data
  BY OdoTableAssumption
<1>2. key \in Data /\ who \in Programs /\ up \in BOOLEAN /\ active[who] \in Nat
      /\ cells \in [Programs -> [Occ -> Data \cup {Absent}]]
  BY DEF TableInv, TypeOK
<1>3. cells[who][Mid] \in Data
  <2>1. Mid \in 1..pool[who]
    <3>1. pool[who] \in Nat
      BY <1>2 DEF TableInv, TypeOK
    <3> QED BY <1>2, <3>1
  <2>2. cells[who][Mid] # Absent
    BY <1>2, <2>1 DEF TableInv, ActiveCellsExist
  <2>3. Mid \in Occ
    <3>1. active[who] <= MaxOf[who]
      BY <1>2 DEF TableInv, ActiveCellsExist, InRange
    <3>2. MaxOf[who] \in 1..Top /\ Top \in Nat
      BY <1>2, OdoTableAssumption
    <3> QED BY <1>2, <3>1, <3>2 DEF Occ
  <2> QED BY <1>2, <2>2, <2>3
<1>4. i \in Int /\ Mid \in Int /\ i # Mid
  BY <1>2
<1>5. \A a, b \in 1..active[who] :
        a < b /\ cells[who][a] \in Data /\ cells[who][b] \in Data =>
          IF up THEN cells[who][a] <= cells[who][b]
          ELSE cells[who][a] >= cells[who][b]
  BY <1>1 DEF Sorted
<1>6. cells[who][i] \in Int /\ cells[who][Mid] \in Int /\ key \in Int
  BY <1>1, <1>2, <1>3
<1>7. CASE i < Mid
  <2>1. IF up THEN key <= cells[who][Mid] ELSE key >= cells[who][Mid]
    BY <1>2, <1>3, <1>5, <1>7
  <2>2. ~ToTheRight
    BY <1>6, <2>1 DEF ToTheRight
  <2> QED BY <1>7, <2>2
<1>8. CASE Mid < i
  <2>1. IF up THEN cells[who][Mid] <= key ELSE cells[who][Mid] >= key
    BY <1>2, <1>3, <1>5, <1>8
  <2>2. ToTheRight
    BY <1>6, <2>1 DEF ToTheRight
  <2> QED BY <1>8, <2>2
<1> QED BY <1>4, <1>7, <1>8

\* A step of a SEARCH narrows what is left to look at and loses no match.
LEMMA ProbeStep == ASSUME IInv, Probe PROVE IInv'
<1>1. TableInv /\ LoopInv /\ outcome = "open" /\ ~failed
  BY DEF IInv, Probe
<1>2. /\ At \in low..high /\ At \in from..active[who] /\ At \in 1..Top
      /\ low \in Nat /\ high \in Nat /\ from \in Nat /\ from >= 1
      /\ from <= low /\ low <= high /\ high <= active[who]
      /\ active[who] \in Nat /\ active[who] <= Top
  BY <1>1, AtBetween
<1>a. active[who] \in Nat /\ low \in Nat /\ high \in Nat
      /\ failed \in BOOLEAN
  BY <1>1, <1>2 DEF TableInv, TypeOK
<1>3. /\ UNCHANGED <<use, table, kind, who, key, up, from>>
      /\ index' = [index EXCEPT ![who] = At]
  BY DEF Probe
<1>4. index \in [Programs -> 0..Top] /\ who \in Programs
  BY <1>1 DEF TableInv, TypeOK
<1>5. index' \in [Programs -> 0..Top] /\ index'[who] = At
  BY <1>2, <1>3, <1>4
<1>6. ASSUME failed' \in BOOLEAN, low' \in Nat, high' \in Nat,
             outcome' \in {"none", "open", "found", "at end"}
      PROVE  TableInv'
  <2>1. TypeOK'
    BY <1>1, <1>3, <1>5, <1>6 DEF TableInv, TypeOK, table
  <2>2. ActiveCellsExist' /\ FreshUntilWritten' /\ CountsAgree'
    BY <1>1, <1>3 DEF TableInv, ActiveCellsExist, FreshUntilWritten,
                      CountsAgree, Plain, table
  <2> QED BY <2>1, <2>2 DEF TableInv
<1>7. active' = active /\ cells' = cells /\ who' = who /\ key' = key
      /\ from' = from /\ kind' = kind /\ up' = up
  BY <1>3 DEF table
<1>8. CASE At > pool[who]
  <2>1. Fails /\ low' = low /\ high' = high
    BY <1>8 DEF Probe
  <2> QED BY <1>2, <1>6, <2>1 DEF IInv, LoopInv, SearchIsRight, Fails
<1>9. CASE ~(At > pool[who]) /\ cells[who][At] = key
  <2>1. outcome' = "found" /\ low' = low /\ high' = high /\ failed' = failed
    BY <1>9 DEF Probe
  <2>2. TableInv'
    BY <1>1, <1>2, <1>6, <2>1 DEF TableInv, TypeOK
  <2>3. At \in Matches(active[who])'
    BY <1>2, <1>7, <1>9 DEF Matches
  <2>4. ASSUME kind = "serial"
        PROVE  {i \in from..(At - 1) : cells[who][i] = key} = {}
    BY <1>1, <2>4 DEF At, LoopInv, Matches
  <2>5. SearchIsRight'
    <3>1. index'[who'] = At
      BY <1>5, <1>7
    <3>2. kind' = "serial" => Matches(index[who] - 1)' = {}
      BY <1>7, <2>4, <3>1 DEF Matches
    <3> QED BY <2>1, <2>3, <3>1, <3>2 DEF SearchIsRight
  <2> QED BY <2>1, <2>2, <2>5 DEF IInv, LoopInv
<1>10. CASE ~(At > pool[who]) /\ cells[who][At] # key
  <2>1. Narrow /\ GoesOn /\ failed' = failed
    BY <1>10 DEF Probe
  <2>2. CASE kind = "serial"
    <3>1. low' = low + 1 /\ high' = high /\ At = low
          /\ high = active[who] /\ Matches(low - 1) = {}
      BY <1>1, <2>1, <2>2 DEF Narrow, At, LoopInv
    <3>2. \A i \in from..low : cells[who][i] # key
      BY <1>2, <1>10, <3>1 DEF Matches
    <3>3. Matches(low - 1)' = {}
      <4>1. low' - 1 = low
        BY <1>2, <3>1
      <4> QED BY <1>7, <3>2, <4>1 DEF Matches
    <3>4. \/ outcome' = "at end" /\ Matches(active[who])' = {}
          \/ outcome' = "open" /\ low' <= high'
      <4>1. CASE low' > high'
        <5>1. low = active[who]
          BY <1>2, <3>1, <4>1
        <5>2. Matches(active[who])' = {}
          BY <1>7, <3>2, <5>1 DEF Matches
        <5> QED BY <2>1, <4>1, <5>2 DEF GoesOn, Exhausted
      <4>2. CASE ~(low' > high')
        <5>1. low' <= high'
          BY <1>2, <3>1, <4>2
        <5> QED BY <2>1, <4>2, <5>1 DEF GoesOn, Exhausted
      <4> QED BY <4>1, <4>2
    <3>5. TableInv'
      <4>1. failed' \in BOOLEAN /\ low' \in Nat /\ high' \in Nat
        BY <1>1, <1>a, <2>1, <3>1
      <4> QED BY <1>6, <3>4, <4>1
    <3>6. LoopInv'
      BY <1>1, <1>2, <1>7, <2>2, <3>1, <3>3, <3>4 DEF LoopInv
    <3>7. SearchIsRight'
      BY <3>4 DEF SearchIsRight
    <3> QED BY <3>5, <3>6, <3>7 DEF IInv
  <2>3. CASE kind # "serial"
    <3>1. At = Mid /\ kind = "all" /\ from = 1
      BY <1>1, <2>3 DEF At, LoopInv
    <3>2. \/ ToTheRight /\ low' = Mid + 1 /\ high' = high
          \/ ~ToTheRight /\ low' = low /\ high' = Mid - 1
      BY <2>1, <2>3 DEF Narrow, AfterMid
    <3>3. Mid \in low..high /\ Mid \in 1..active[who] /\ Mid <= pool[who]
          /\ cells[who][Mid] # key
      <4>1. pool[who] \in Nat
        BY <1>1, <1>4 DEF TableInv, TypeOK
      <4> QED BY <1>2, <1>10, <3>1, <4>1
    <3>4. ASSUME Sorted, NEW i \in 1..active[who], cells[who][i] = key
          PROVE  low' <= i /\ i <= high'
      <4>1. low <= i /\ i <= high
        BY <1>1, <3>1, <3>4 DEF LoopInv
      <4>2. IF ToTheRight THEN Mid < i ELSE i < Mid
        BY <1>1, <3>3, <3>4, SidesOfMid
      <4> QED BY <1>2, <3>2, <3>3, <4>1, <4>2
    <3>5. low' \in Nat /\ high' \in Nat /\ 1 <= low' /\ high' <= active[who]
      BY <1>2, <3>2, <3>3
    <3>6. \/ outcome' = "at end" /\ low' > high'
          \/ outcome' = "open" /\ low' <= high'
      <4>1. CASE low' > high'
        BY <2>1, <4>1 DEF GoesOn, Exhausted
      <4>2. CASE ~(low' > high')
        BY <2>1, <3>5, <4>2 DEF GoesOn, Exhausted
      <4> QED BY <4>1, <4>2
    <3>7. Sorted' = Sorted
      BY <1>7 DEF Sorted
    <3>8. TableInv'
      BY <1>1, <1>6, <2>1, <3>5, <3>6 DEF TableInv, TypeOK
    <3>9. LoopInv'
      BY <1>1, <1>7, <3>1, <3>4, <3>5, <3>6, <3>7 DEF LoopInv
    <3>10. SearchIsRight'
      <4>1. low' > high' => \A i \in 1..active[who] :
                              ~(low' <= i /\ i <= high')
        BY <1>a, <3>5
      <4>2. ASSUME outcome' = "at end", Sorted
            PROVE  \A i \in 1..active[who] : cells[who][i] # key
        BY <3>4, <3>6, <4>1, <4>2
      <4>3. ASSUME outcome' = "at end", Sorted
            PROVE  Matches(active[who])' = {}
        BY <1>7, <3>1, <4>2, <4>3 DEF Matches
      <4> QED BY <1>7, <3>1, <3>6, <3>7, <4>3 DEF SearchIsRight
    <3> QED BY <3>8, <3>9, <3>10 DEF IInv
  <2> QED BY <2>2, <2>3
<1> QED BY <1>8, <1>9, <1>10

-----------------------------------------------------------------------------
\* Every step keeps the invariant.
LEMMA StepInv == ASSUME IInv, [Next]_vars PROVE IInv'
<1>1. CASE UNCHANGED vars
  <2>1. UNCHANGED <<use, count, active, pool, cells, touched, index, kind,
                    who, key, up, low, high, from, outcome, failed>>
    BY <1>1 DEF vars, table, search
  <2>2. TableInv'
    BY <2>1 DEF IInv, TableInv, TypeOK, ActiveCellsExist, FreshUntilWritten,
                CountsAgree, Plain
  <2>3. LoopInv' /\ SearchIsRight'
    BY <2>1 DEF IInv, LoopInv, SearchIsRight, Matches, Sorted
  <2> QED BY <2>2, <2>3 DEF IInv
<1>2. CASE Probe
  BY <1>2, ProbeStep
<1>3. ASSUME NEW p \in Programs, Statement(p) PROVE IInv'
  <2>1. ASSUME NEW v \in Counts, WriteCount(p, v) PROVE IInv'
    BY <2>1, WriteCountStep, NoSearchStep DEF IInv, WriteCount
  <2>2. ASSUME NEW v \in Counts, SetOdo(p, v) PROVE IInv'
    BY <2>2, SetOdoStep, NoSearchStep DEF IInv, SetOdo
  <2>3. ASSUME NEW i \in 0..(Top + 1), SetIndex(p, i) PROVE IInv'
    BY <2>3, SetIndexStep, NoSearchStep DEF IInv, SetIndex
  <2>4. ASSUME NEW i \in 0..(Top + 1), NEW x \in Data, WriteItem(p, i, x)
        PROVE  IInv'
    BY <2>4, WriteItemStep, NoSearchStep DEF IInv, WriteItem
  <2>5. CASE Reset(p)
    BY <2>5, ResetStep, NoSearchStep DEF IInv, Reset
  <2>6. ASSUME NEW x \in Data, NEW ascending \in BOOLEAN,
               StartSerial(p, x) \/ StartAll(p, x, ascending)
        PROVE  IInv'
    BY <2>6, StartStep DEF IInv
  <2> QED BY <1>3, <2>1, <2>2, <2>3, <2>4, <2>5, <2>6 DEF Statement
<1> QED BY <1>1, <1>2, <1>3 DEF Next

\* The inductive invariant holds in every reachable state.
LEMMA Invariant == Spec => []IInv
  BY InitInv, StepInv, PTL DEF Spec

\* Whatever the counter is set to and whichever tables share its name, and
\* wherever a resize stops, every active occurrence has a cell and the counts
\* are within the OCCURS clause.
THEOREM ActiveCellsAlwaysExist == Spec => []ActiveCellsExist
<1>1. IInv => ActiveCellsExist
  BY DEF IInv, TableInv
<1> QED BY Invariant, <1>1, PTL

\* An occurrence that is cut off and becomes active again holds its VALUE,
\* and nothing written to it before.
THEOREM RegrownIsFresh == Spec => []FreshUntilWritten
<1>1. IInv => FreshUntilWritten
  BY DEF IInv, TableInv
<1> QED BY Invariant, <1>1, PTL

\* Without resets, shared names and SetOdo the three counts of a table agree.
THEOREM TablesStayInStep == Spec => [](TypeOK /\ CountsAgree)
<1>1. IInv => TypeOK /\ CountsAgree
  BY DEF IInv, TableInv
<1> QED BY Invariant, <1>1, PTL

\* SEARCH finds the first match at or after its index and SEARCH ALL a match
\* of a sorted table, in tables of any size.
THEOREM SearchFindsWhatIsThere == Spec => []SearchIsRight
<1>1. IInv => SearchIsRight
  BY DEF IInv
<1> QED BY Invariant, <1>1, PTL

\* Where the counts agree a SEARCH never runs off the active occurrences.
THEOREM SearchStaysInTheTable == Spec => SearchNeverFails
<1>2. ASSUME IInv, [Next]_vars
      PROVE  [Plain /\ outcome = "open" => ~failed']_vars
  <2> SUFFICES ASSUME Plain, outcome = "open", Next PROVE ~failed'
    BY <1>2
  <2>1. Probe /\ ~failed
    BY DEF Next, Statement, WriteCount, SetOdo, SetIndex, WriteItem, Reset,
           StartSerial, StartAll, Idle, Probe
  <2>2. At \in from..active[who] /\ from \in Nat /\ who \in Programs
        /\ active[who] = pool[who] /\ active[who] \in Nat
    BY <1>2, <2>1, AtBetween DEF IInv, TableInv, CountsAgree, TypeOK
  <2>3. ~(At > pool[who])
    BY <2>2
  <2> QED BY <2>1, <2>3 DEF Probe
<1> QED BY Invariant, <1>2, PTL DEF Spec, SearchNeverFails
=============================================================================
