-------------------------- MODULE ModuleParserProofs --------------------------
(***************************************************************************)
(* Proofs about the module parser, for modules of every size, all limits   *)
(* and whatever the bytes say: its state is typed, the builder never holds *)
(* more than the limits allow, and nothing it holds refers to nothing.     *)
(*                                                                         *)
(* The second half compares it with the bytes.  Faithful is inductive: as  *)
(* long as nothing was thrown the builder holds what the bytes said, and   *)
(* all they said was right.  So what is accepted is sound and built as it  *)
(* was declared, and what is refused is flawed.                            *)
(*                                                                         *)
(* The last part is about the numbers that all of it is read with, for     *)
(* every width of a group and of int_type.  Coding is inductive: Decode    *)
(* sums up the groups since it began, and what Encode wrote and what it    *)
(* still has to write are always the number together.                      *)
(***************************************************************************)
EXTENDS ModuleParser, Leb128, FiniteSetTheorems, SequenceTheorems,
        WellFoundedInduction, TLAPS

\* How much each of the sections 1 to 7 has left behind so far.
Held(k) == CASE k = 1 -> Len(signatures)
             [] k = 2 -> Len(imports)
             [] k = 3 -> Len(functions)
             [] k = 4 -> Len(tables)
             [] k = 5 -> Len(memories)
             [] k = 6 -> Len(globals)
             [] k = 7 -> Len(exports)

(* No section was read yet that is still to come, and what the section that *)
(* is being read has announced still fits.  Limits hold because of this:    *)
(* a section announces at most its limit, and finds its vector empty.       *)
SectionsOnce ==
  /\ \A k \in 1..7 : latest < k => Held(k) = 0
  /\ \A k \in 1..7 : section = k /\ left > 0 =>
       latest = k /\ Held(k) + left <= Limit[k]
  /\ \A k \in 1..7 : Held(k) <= Limit[k]

USE BoundAssumption

-----------------------------------------------------------------------------

(* What the builder's vectors hold, the part of TypeOK a section changes.   *)
VectorsOK ==
  /\ signatures \in Seq(Signatures) /\ imports \in Seq(Imports)
  /\ functions \in Seq(Functions) /\ tables \in Seq(RefTypes)
  /\ memories \in Seq({"limits"}) /\ globals \in Seq({"global"})
  /\ exports \in Seq(Exports)
  /\ start \subseteq Indices /\ Cardinality(start) <= 1

Exceptions == {"Parse", "ModuleTooLarge", "Validation", "Undecodable"}

(* An exception leaves typed state.                                         *)
LEMMA Refused ==
  ASSUME TypeOK, Parsing, NEW e \in Exceptions, Throw(e), latest' \in 0..13
  PROVE  TypeOK'
  BY DEF TypeOK, Parsing, Throw, Exceptions, Built, vectors

(* So does an item that is kept, if the vectors it leaves are typed.        *)
LEMMA Kept ==
  ASSUME TypeOK, Parsing, left > 0, Keep, ahead' \in BOOLEAN, VectorsOK',
         section = 10 => Len(functions') = Len(functions)
  PROVE  TypeOK'
<1>1. left \in 0..MaxSize /\ left' \in 0..MaxSize /\ left' < left
  BY DEF TypeOK, Keep
<1>2. Len(functions) \in Nat
  BY DEF TypeOK
<1>3. section' = 10 => left' <= Len(functions')
  BY <1>1, <1>2 DEF TypeOK, Keep
<1>4. thrown' = "none" /\ ~Built'
  BY DEF Parsing, Keep, Built
<1>5. section' \in 0..13 /\ latest' \in 0..13
  BY DEF TypeOK, Keep
<1>6. QED
  BY <1>1, <1>3, <1>4, <1>5 DEF TypeOK, VectorsOK

(* A code item changes one function of _functions, and not its type.        *)
LEMMA CodeKept ==
  ASSUME NEW f \in Seq(Functions), NEW k \in 1..Len(f), NEW x \in Functions,
         x.signature = f[k].signature
  PROVE  /\ [f EXCEPT ![k] = x] \in Seq(Functions)
         /\ Len([f EXCEPT ![k] = x]) = Len(f)
         /\ \A i \in 1..Len(f) :
              [f EXCEPT ![k] = x][i].signature = f[i].signature
<1>1. /\ [f EXCEPT ![k] = x] \in Seq(Functions)
      /\ Len([f EXCEPT ![k] = x]) = Len(f)
      /\ \A i \in 1..Len(f) : [f EXCEPT ![k] = x][i] = IF i = k THEN x ELSE f[i]
  BY ExceptSeq
<1>2. QED
  BY <1>1

(* ReadCode, seen from outside the function it completes.                   *)
LEMMA CodeRead ==
  ASSUME TypeOK, NEW c \in Codes, ReadCode(c), CodeError(c) = "none"
  PROVE  /\ functions' \in Seq(Functions) /\ Len(functions') = Len(functions)
         /\ \A i \in 1..Len(functions) :
              functions'[i].signature = functions[i].signature
<1> DEFINE x == [functions[Index] EXCEPT !.locals = LocalsOf(c.groups),
                                         !.body = {c}]
<1>1. Index \in 1..Len(functions)
  <2>1. section = 10 /\ left > 0 /\ left \in Nat
    BY DEF ReadCode, In, TypeOK
  <2>2. Len(functions) \in Nat /\ left <= Len(functions)
    BY <2>1 DEF TypeOK
  <2>3. QED
    BY <2>1, <2>2 DEF Index
<1>2. functions \in Seq(Functions)
  BY DEF TypeOK
<1>3. functions[Index] \in Functions
  BY <1>1, <1>2, ElementOfSeq
<1>4. x \in Functions /\ x.signature = functions[Index].signature
  BY <1>3, CodesAssumption DEF Functions
<1>5. functions' = [functions EXCEPT ![Index] = x]
  BY DEF ReadCode
<1> HIDE DEF x
<1>6. QED
  BY <1>1, <1>2, <1>4, <1>5, CodeKept

(* Type correctness: the vectors of ModuleBuilder hold what sections may    *)
(* hold, and the code section's loop stays inside _functions.               *)
THEOREM TypeCorrect == Spec => []TypeOK
<1>1. Init => TypeOK
  <2>1. Cardinality({}) = 0
    BY FS_EmptySet
  <2>2. SUFFICES ASSUME Init PROVE TypeOK
    OBVIOUS
  <2>3. VectorsOK
    BY <2>1, <2>2 DEF VectorsOK, Init
  <2>4. QED
    <3>1. latest \in 0..13 /\ section \in 0..13 /\ section # 10
      BY <2>2 DEF Init
    <3>2. left \in 0..MaxSize
      BY <2>2 DEF Init
    <3>3. ahead \in BOOLEAN /\ thrown = "none" /\ ~Built
      BY <2>2 DEF Init, Built
    <3>4. QED
      BY <2>3, <3>1, <3>2, <3>3 DEF TypeOK, VectorsOK
<1>2. ASSUME TypeOK, [Next]_vars PROVE TypeOK'
  <2>0. VectorsOK /\ latest \in 0..13 /\ section \in 0..13 /\ ahead \in BOOLEAN
    BY <1>2 DEF TypeOK, VectorsOK
  <2>1. ASSUME NEW id \in 0..13, NEW n \in 0..MaxSize, Section(id, n)
        PROVE  TypeOK'
    <3>1. latest' \in 0..13 /\ Parsing
      BY <2>0, <2>1 DEF Section, InOrder, Latest, Between
    <3>2. CASE \E e \in {"Parse", "ModuleTooLarge"} : Throw(e)
      BY <1>2, <3>1, <3>2, Refused DEF Exceptions
    <3>3. CASE /\ section' = id /\ left' = n
               /\ id = 10 => n = Len(functions)
               /\ UNCHANGED <<vectors, thrown, ahead, parsed>>
      BY <1>2, <3>1, <3>3 DEF TypeOK, Built, Parsing, vectors
    <3>4. QED
      BY <2>1, <3>2, <3>3 DEF Section, SizeError, TooLarge
  <2>2. ASSUME NEW sig \in Signatures, ReadSignature(sig) PROVE TypeOK'
    <3>1. CASE FitsRegisters(sig)
      <4>1. /\ signatures' = Append(signatures, sig)
            /\ UNCHANGED <<imports, functions, tables, memories, globals, exports, start>>
        BY <2>2, <3>1 DEF ReadSignature
      <4>2. VectorsOK'
        BY <2>0, <4>1 DEF VectorsOK
      <4>3. QED
        BY <1>2, <2>0, <2>2, <3>1, <4>1, <4>2, Kept DEF ReadSignature, In
    <3>2. CASE ~FitsRegisters(sig)
      BY <1>2, <2>0, <2>2, <3>2, Refused DEF ReadSignature, In, Exceptions
    <3>3. QED
      BY <3>1, <3>2
  <2>3. ASSUME NEW i \in Imports, ReadImport(i) PROVE TypeOK'
    <3>1. CASE Importable(i)
      <4>1. /\ imports' = Append(imports, i)
            /\ UNCHANGED <<signatures, functions, tables, memories, globals, exports, start>>
        BY <2>3, <3>1 DEF ReadImport
      <4>2. VectorsOK'
        BY <2>0, <4>1 DEF VectorsOK
      <4>3. QED
        BY <1>2, <2>0, <2>3, <3>1, <4>1, <4>2, Kept DEF ReadImport, In
    <3>2. CASE ~Importable(i)
      BY <1>2, <2>0, <2>3, <3>2, Refused DEF ReadImport, In, Exceptions
    <3>3. QED
      BY <3>1, <3>2
  <2>4. ASSUME NEW t \in Indices, ReadFunction(t) PROVE TypeOK'
    <3>1. CASE InRange(t, Len(signatures))
      <4>0. signatures[t + 1] \in Signatures
        <5>1. t \in Nat /\ Len(signatures) \in Nat /\ t < Len(signatures)
          BY <2>0, <3>1 DEF VectorsOK, InRange, Indices
        <5>2. t + 1 \in 1..Len(signatures)
          BY <5>1
        <5>3. QED
          BY <2>0, <5>2, ElementOfSeq DEF VectorsOK
      <4>1. [signature |-> signatures[t + 1], locals |-> <<>>, body |-> {}]
              \in Functions
        BY <4>0 DEF Functions
      <4>2. /\ functions' = Append(functions, [signature |-> signatures[t + 1],
                                               locals |-> <<>>, body |-> {}])
            /\ UNCHANGED <<signatures, imports, tables, memories, globals,
                           exports, start>>
        BY <2>4, <3>1 DEF ReadFunction
      <4>3. VectorsOK'
        BY <2>0, <4>1, <4>2 DEF VectorsOK
      <4>4. section # 10
        BY <2>4 DEF ReadFunction, In
      <4>5. QED
        BY <1>2, <2>0, <2>4, <3>1, <4>3, <4>4, Kept DEF ReadFunction, In
    <3>2. CASE ~InRange(t, Len(signatures))
      BY <1>2, <2>0, <2>4, <3>2, Refused DEF ReadFunction, In, Exceptions
    <3>3. QED
      BY <3>1, <3>2
  <2>5. ASSUME NEW t \in {"funcref", "i32"}, ReadTable(t) PROVE TypeOK'
    <3>1. CASE t \in RefTypes
      <4>1. /\ tables' = Append(tables, t)
            /\ UNCHANGED <<signatures, imports, functions, memories, globals, exports, start>>
        BY <2>5, <3>1 DEF ReadTable
      <4>2. VectorsOK'
        BY <2>0, <3>1, <4>1 DEF VectorsOK
      <4>3. QED
        BY <1>2, <2>0, <2>5, <3>1, <4>1, <4>2, Kept DEF ReadTable, In
    <3>2. CASE t \notin RefTypes
      BY <1>2, <2>0, <2>5, <3>2, Refused DEF ReadTable, In, Exceptions
    <3>3. QED
      BY <3>1, <3>2
  <2>6. CASE ReadMemory
    <3>1. VectorsOK'
      BY <2>0, <2>6 DEF ReadMemory, VectorsOK
    <3>2. QED
      BY <1>2, <2>0, <2>6, <3>1, Kept DEF ReadMemory, In
  <2>7. ASSUME NEW ended \in BOOLEAN, ReadGlobal(ended) PROVE TypeOK'
    <3>1. VectorsOK'
      BY <2>0, <2>7 DEF ReadGlobal, VectorsOK
    <3>2. QED
      BY <1>2, <2>0, <2>7, <3>1, Kept DEF ReadGlobal, In
  <2>8. ASSUME NEW e \in Exports, NEW found \in BOOLEAN, ReadExport(e, found)
        PROVE TypeOK'
    <3>1. CASE InRange(e.idx, Known(e.kind)) /\ ~found
      <4>1. /\ exports' = Append(exports, e)
            /\ UNCHANGED <<signatures, imports, functions, tables, memories, globals, start>>
        BY <2>8, <3>1 DEF ReadExport
      <4>2. VectorsOK'
        BY <2>0, <4>1 DEF VectorsOK
      <4>3. QED
        BY <1>2, <2>0, <2>8, <3>1, <4>1, <4>2, Kept DEF ReadExport, In
    <3>2. CASE ~(InRange(e.idx, Known(e.kind)) /\ ~found)
      BY <1>2, <2>0, <2>8, <3>2, Refused DEF ReadExport, In, Exceptions
    <3>3. QED
      BY <3>1, <3>2
  <2>9. ASSUME NEW i \in Indices, ReadStart(i) PROVE TypeOK'
    <3>1. CASE InRange(i, Len(functions))
      <4>1. Cardinality({i}) = 1
        BY FS_Singleton
      <4>2. /\ start' = {i}
            /\ UNCHANGED <<signatures, imports, functions, tables, memories, globals, exports>>
        BY <2>9, <3>1 DEF ReadStart
      <4>3. VectorsOK'
        BY <2>0, <4>1, <4>2 DEF VectorsOK
      <4>4. QED
        BY <1>2, <2>0, <2>9, <3>1, <4>2, <4>3, Kept DEF ReadStart, In
    <3>2. CASE ~InRange(i, Len(functions))
      BY <1>2, <2>0, <2>9, <3>2, Refused DEF ReadStart, In, Exceptions
    <3>3. QED
      BY <3>1, <3>2
  <2>10. ASSUME NEW c \in Codes, ReadCode(c) PROVE TypeOK'
    <3>1. CASE CodeError(c) = "none"
      <4>1. functions' \in Seq(Functions) /\ Len(functions') = Len(functions)
        BY <1>2, <2>10, <3>1, CodeRead
      <4>2. UNCHANGED <<signatures, imports, tables, memories, globals, exports,
                        start>>
        BY <2>10, <3>1 DEF ReadCode
      <4>3. VectorsOK'
        BY <2>0, <4>1, <4>2 DEF VectorsOK
      <4>4. QED
        BY <1>2, <2>0, <2>10, <3>1, <4>1, <4>3, Kept DEF ReadCode, In
    <3>2. CASE CodeError(c) # "none"
      <4>1. CodeError(c) \in Exceptions
        BY <3>2 DEF CodeError, Exceptions
      <4>2. QED
        BY <1>2, <2>0, <2>10, <3>2, <4>1, Refused DEF ReadCode, In
    <3>3. QED
      BY <3>1, <3>2
  <2>11. CASE BadHeader \/ EndOpcode \/ Undecodable
    BY <1>2, <2>0, <2>11, Refused
       DEF BadHeader, EndOpcode, Undecodable, Exceptions
  <2>12. CASE Build \/ UNCHANGED vars
    BY <1>2, <2>12
       DEF TypeOK, Built, Build, Between, Parsing, vars, vectors
  <2>13. QED
    BY <1>2, <2>1, <2>2, <2>3, <2>4, <2>5, <2>6, <2>7, <2>8, <2>9, <2>10,
       <2>11, <2>12 DEF Next, ReadItem
<1>3. QED
  BY <1>1, <1>2, PTL DEF Spec

-----------------------------------------------------------------------------
(* The three things a step can do to the sections, whatever it reads: leave *)
(* them alone, which is all an exception does; open a section; keep an item.*)
Idle ==
  /\ UNCHANGED <<vectors, section, left>>
  /\ latest' = latest \/ (left = 0 /\ latest' \in Nat /\ latest' > latest)

Opened(id, n) ==
  /\ left = 0 /\ section' = id /\ left' = n
  /\ UNCHANGED vectors
  /\ IF id = 0 THEN latest' = latest ELSE latest' = id /\ id > latest
  /\ id \in 1..7 => n <= Limit[id]

ItemKept(k) ==
  /\ section = k /\ left > 0 /\ left' = left - 1
  /\ UNCHANGED <<latest, section>>
  /\ \A j \in 1..7 : Held(j)' = IF j = k THEN Held(j) + 1 ELSE Held(j)

(* What a section has filled is counted by a natural number.                *)
LEMMA HeldIsNat == TypeOK => \A j \in 1..7 : Held(j) \in Nat
<1>1. TypeOK => /\ Len(signatures) \in Nat /\ Len(imports) \in Nat
                /\ Len(functions) \in Nat /\ Len(tables) \in Nat
                /\ Len(memories) \in Nat /\ Len(globals) \in Nat
                /\ Len(exports) \in Nat
  BY DEF TypeOK
<1>2. QED
  BY <1>1 DEF Held

(* Every step is one of the three kinds above.                              *)
LEMMA Steps ==
  ASSUME TypeOK, [Next]_vars
  PROVE  \/ Idle
         \/ \E id \in 0..13, n \in Nat : Opened(id, n)
         \/ \E k \in 1..10 : ItemKept(k)
<1> USE DEF In, Parsing, Between, Throw, Keep, vectors, InRange
<1>0. /\ latest \in 0..13 /\ MaxSize \in Nat
      /\ signatures \in Seq(Signatures) /\ imports \in Seq(Imports)
      /\ functions \in Seq(Functions) /\ tables \in Seq(RefTypes)
      /\ memories \in Seq({"limits"}) /\ globals \in Seq({"global"})
      /\ exports \in Seq(Exports)
  BY DEF TypeOK
<1>1. ASSUME NEW id \in 0..13, NEW n \in 0..MaxSize, Section(id, n)
      PROVE  Idle \/ Opened(id, n)
  <2>0. /\ left = 0
        /\ latest' = latest \/ (latest' \in Nat /\ latest' > latest)
    <3>1. left = 0
      BY <1>1 DEF Section
    <3>2. latest' = latest \/ (latest' = id /\ id > latest)
      BY <1>1 DEF Section, InOrder, Latest
    <3>3. id \in Nat
      OBVIOUS
    <3>4. QED
      BY <3>1, <3>2, <3>3
  <2>1. ASSUME NEW e \in Exceptions, Throw(e) PROVE Idle
    BY <2>0, <2>1 DEF Idle
  <2>2. CASE ~InOrder(id) \/ id \notin (0..8) \cup {10}
    BY <1>1, <2>1, <2>2 DEF Section, Exceptions
  <2>3. CASE /\ InOrder(id) /\ id \in (0..8) \cup {10}
             /\ SizeError(id, n) # "none"
    <3>1. SizeError(id, n) \in Exceptions
      BY <2>3 DEF SizeError, Exceptions
    <3>2. Throw(SizeError(id, n))
      BY <1>1, <2>3 DEF Section
    <3>3. QED
      BY <2>1, <3>1, <3>2
  <2>4. CASE /\ InOrder(id) /\ id \in (0..8) \cup {10}
             /\ SizeError(id, n) = "none"
    <3>1. section' = id /\ left' = n /\ UNCHANGED vectors
      BY <1>1, <2>4 DEF Section
    <3>2. ~TooLarge(id, n)
      BY <2>4 DEF SizeError
    <3>3. IF id = 0 THEN latest' = latest ELSE latest' = id /\ id > latest
      BY <1>1, <2>4 DEF Section, InOrder, Latest
    <3>4. id \in 1..7 => n <= Limit[id]
      <4>1. id \in 1..7 => Limit[id] \in Nat
        BY LimitAssumption
      <4>2. n \in Nat
        BY <1>0
      <4>3. QED
        BY <3>2, <4>1, <4>2 DEF TooLarge
    <3>5. QED
      BY <2>0, <3>1, <3>3, <3>4 DEF Opened
  <2>5. QED
    BY <2>2, <2>3, <2>4
<1>2. ASSUME NEW sig \in Signatures, ReadSignature(sig)
      PROVE  Idle \/ ItemKept(1)
  <2>1. CASE FitsRegisters(sig)
    <3>1. /\ signatures' = Append(signatures, sig)
          /\ UNCHANGED <<imports, functions, tables, memories, globals, exports, start>>
          /\ In(1) /\ Keep
      BY <1>2, <2>1 DEF ReadSignature
    <3>2. Len(signatures') = Len(signatures) + 1
      BY <1>0, <3>1
    <3>3. \A j \in 1..7 : Held(j)' = IF j = 1 THEN Held(j) + 1 ELSE Held(j)
      BY <3>1, <3>2 DEF Held
    <3>4. QED
      BY <3>1, <3>3 DEF ItemKept
  <2>2. CASE ~(FitsRegisters(sig))
    BY <1>2, <2>2 DEF ReadSignature, Idle
  <2>3. QED
    BY <2>1, <2>2
<1>3. ASSUME NEW i \in Imports, ReadImport(i) PROVE Idle \/ ItemKept(2)
  <2>1. CASE Importable(i)
    <3>1. /\ imports' = Append(imports, i)
          /\ UNCHANGED <<signatures, functions, tables, memories, globals, exports, start>>
      BY <1>3, <2>1 DEF ReadImport
    <3>2. QED
      BY <1>0, <1>3, <2>1, <3>1 DEF ReadImport, ItemKept, Held
  <2>2. CASE ~Importable(i)
    BY <1>3, <2>2 DEF ReadImport, Idle
  <2>3. QED
    BY <2>1, <2>2
<1>4. ASSUME NEW t \in Indices, ReadFunction(t) PROVE Idle \/ ItemKept(3)
  <2>1. CASE t < Len(signatures)
    <3>1. /\ functions' =
               Append(functions, [signature |-> signatures[t + 1],
                                  locals |-> <<>>, body |-> {}])
          /\ UNCHANGED <<signatures, imports, tables, memories, globals, exports, start>>
      BY <1>4, <2>1 DEF ReadFunction
    <3>2. QED
      BY <1>0, <1>4, <2>1, <3>1 DEF ReadFunction, ItemKept, Held
  <2>2. CASE ~(t < Len(signatures))
    BY <1>4, <2>2 DEF ReadFunction, Idle
  <2>3. QED
    BY <2>1, <2>2
<1>5. ASSUME NEW t \in {"funcref", "i32"}, ReadTable(t)
      PROVE  Idle \/ ItemKept(4)
  <2>1. CASE t \in RefTypes
    <3>1. /\ tables' = Append(tables, t)
          /\ UNCHANGED <<signatures, imports, functions, memories, globals, exports, start>>
      BY <1>5, <2>1 DEF ReadTable
    <3>2. QED
      BY <1>0, <1>5, <2>1, <3>1 DEF ReadTable, ItemKept, Held
  <2>2. CASE ~(t \in RefTypes)
    BY <1>5, <2>2 DEF ReadTable, Idle
  <2>3. QED
    BY <2>1, <2>2
<1>6. ASSUME ReadMemory PROVE ItemKept(5)
  BY <1>0, <1>6 DEF ReadMemory, ItemKept, Held
<1>7. ASSUME NEW ended \in BOOLEAN, ReadGlobal(ended) PROVE ItemKept(6)
  BY <1>0, <1>7 DEF ReadGlobal, ItemKept, Held
<1>8. ASSUME NEW e \in Exports, NEW found \in BOOLEAN, ReadExport(e, found)
      PROVE  Idle \/ ItemKept(7)
  <2>1. CASE e.idx < Known(e.kind) /\ ~found
    <3>1. /\ exports' = Append(exports, e)
          /\ UNCHANGED <<signatures, imports, functions, tables, memories, globals, start>>
      BY <1>8, <2>1 DEF ReadExport
    <3>2. QED
      BY <1>0, <1>8, <2>1, <3>1 DEF ReadExport, ItemKept, Held
  <2>2. CASE ~(e.idx < Known(e.kind) /\ ~found)
    BY <1>8, <2>2 DEF ReadExport, Idle
  <2>3. QED
    BY <2>1, <2>2
<1>9. ASSUME NEW i \in Indices, ReadStart(i) PROVE Idle \/ ItemKept(8)
  <2>1. CASE i < Len(functions)
    <3>1. UNCHANGED <<signatures, imports, functions, tables, memories,
                      globals, exports>>
      BY <1>9, <2>1 DEF ReadStart
    <3>2. QED
      BY <1>0, <1>9, <2>1, <3>1 DEF ReadStart, ItemKept, Held
  <2>2. CASE ~(i < Len(functions))
    BY <1>9, <2>2 DEF ReadStart, Idle
  <2>3. QED
    BY <2>1, <2>2
<1>10. ASSUME NEW c \in Codes, ReadCode(c) PROVE Idle \/ ItemKept(10)
  <2>1. CASE CodeError(c) = "none"
    <3>1. /\ Len(functions') = Len(functions)
          /\ UNCHANGED <<signatures, imports, tables, memories, globals,
                         exports>>
      BY <1>10, <2>1, CodeRead DEF ReadCode
    <3>2. QED
      BY <1>0, <1>10, <2>1, <3>1 DEF ReadCode, ItemKept, Held
  <2>2. CASE CodeError(c) # "none"
    BY <1>10, <2>2 DEF ReadCode, Idle
  <2>3. QED
    BY <2>1, <2>2
<1>11. ASSUME BadHeader \/ EndOpcode \/ Undecodable \/ Build \/ UNCHANGED vars
       PROVE  Idle
  BY <1>11 DEF BadHeader, EndOpcode, Undecodable, Build, vars, Idle
<1>12. 0..MaxSize \subseteq Nat
  BY <1>0
<1>13. QED
  BY <1>1, <1>2, <1>3, <1>4, <1>5, <1>6, <1>7, <1>8, <1>9, <1>10, <1>11,
     <1>12 DEF Next, ReadItem

(* No step fills a section again, or beyond its limit.                           *)
LEMMA OnceKept ==
  ASSUME TypeOK, SectionsOnce, [Next]_vars
  PROVE  SectionsOnce'
<1>0. /\ latest \in Nat /\ left \in Nat
      /\ \A j \in 1..7 : Held(j) \in Nat /\ Limit[j] \in Nat
  <2>1. \A j \in 1..7 : Limit[j] \in Nat
    BY LimitAssumption
  <2>2. latest \in Nat /\ left \in Nat
    BY DEF TypeOK
  <2>3. QED
    BY <2>1, <2>2, HeldIsNat
<1>1. CASE Idle
  <2>1. \A j \in 1..7 : Held(j)' = Held(j)
    BY <1>1 DEF Idle, Held, vectors
  <2>2. QED
    BY <1>0, <1>1, <2>1 DEF Idle, SectionsOnce
<1>2. ASSUME NEW id \in 0..13, NEW n \in Nat, Opened(id, n)
      PROVE  SectionsOnce'
  <2>1. \A j \in 1..7 : Held(j)' = Held(j)
    BY <1>2 DEF Opened, Held, vectors
  <2>2. QED
    BY <1>0, <1>2, <2>1 DEF Opened, SectionsOnce
<1>3. ASSUME NEW k \in 1..10, ItemKept(k) PROVE SectionsOnce'
  BY <1>0, <1>3 DEF ItemKept, SectionsOnce
<1>4. QED
  BY <1>1, <1>2, <1>3, Steps

(* The builder stays within kMaxFunctionSignatures ... kMaxExports over the *)
(* whole module: sections come in order, so none adds to an earlier one.    *)
THEOREM WithinLimitsHolds == Spec => []WithinLimits
<1>1. Init => SectionsOnce
  BY LimitAssumption DEF Init, SectionsOnce, Held
<1>2. SectionsOnce => WithinLimits
  BY DEF SectionsOnce, WithinLimits, Held
<1>3. TypeOK /\ SectionsOnce /\ [Next]_vars => SectionsOnce'
  BY OnceKept
<1>4. QED
  BY <1>1, <1>2, <1>3, TypeCorrect, PTL DEF Spec

-----------------------------------------------------------------------------
(* NothingDangles by parts, in terms of Known.                              *)
TypesKnown == \A f \in 1..Len(functions) : \E t \in 1..Len(signatures) :
  functions[f].signature = signatures[t]
ExportsKnown == \A j \in 1..Len(exports) :
  exports[j].idx < Known(exports[j].kind)
StartKnown == \A i \in start : i < Len(functions)

(* NothingDangles is the three parts together.                              *)
LEMMA Parts ==
  ASSUME TypeOK
  PROVE  NothingDangles <=> TypesKnown /\ ExportsKnown /\ StartKnown
<1> DEFINE spaces == [func |-> functions, table |-> tables,
                      memory |-> memories, global |-> globals]
<1>1. \A kind \in Kinds : Len(spaces[kind]) = Known(kind)
  BY DEF Kinds, Known
<1>2. /\ DOMAIN functions = 1..Len(functions)
      /\ DOMAIN signatures = 1..Len(signatures)
      /\ DOMAIN exports = 1..Len(exports)
  BY DEF TypeOK
<1>3. \A j \in 1..Len(exports) : exports[j].kind \in Kinds
  <2>1. exports \in Seq(Exports)
    BY DEF TypeOK
  <2>2. \A j \in 1..Len(exports) : exports[j] \in Exports
    BY <2>1, ElementOfSeq
  <2>3. QED
    BY <2>2 DEF Exports
<1> HIDE DEF spaces
<1>4. ExportsKnown <=>
        \A j \in DOMAIN exports : exports[j].idx < Len(spaces[exports[j].kind])
  BY <1>1, <1>2, <1>3 DEF ExportsKnown
<1>5. QED
  BY <1>2, <1>4 DEF NothingDangles, TypesKnown, StartKnown, spaces

(* The spaces exports refer to only grow.                                   *)
SpacesGrow == /\ Len(functions') >= Len(functions)
              /\ Len(tables') >= Len(tables)
              /\ Len(memories') >= Len(memories)
              /\ Len(globals') >= Len(globals)

(* So what an earlier export or start section refers to stays known.        *)
LEMMA StillKnown ==
  ASSUME TypeOK, TypeOK', SpacesGrow
  PROVE  /\ UNCHANGED exports /\ ExportsKnown => ExportsKnown'
         /\ UNCHANGED start /\ StartKnown => StartKnown'
<1>1. /\ \A j \in 1..Len(exports) : exports[j].kind \in Kinds
                                   /\ exports[j].idx \in Nat
      /\ \A i \in start : i \in Nat
  <2>1. exports \in Seq(Exports) /\ start \subseteq Indices
    BY DEF TypeOK
  <2>2. \A j \in 1..Len(exports) : exports[j] \in Exports
    BY <2>1, ElementOfSeq
  <2>3. Indices \subseteq Nat
    BY DEF Indices
  <2>4. QED
    BY <2>1, <2>2, <2>3 DEF Exports
<1>2. /\ Len(functions) \in Nat /\ Len(tables) \in Nat
      /\ Len(memories) \in Nat /\ Len(globals) \in Nat
      /\ Len(functions') \in Nat /\ Len(tables') \in Nat
      /\ Len(memories') \in Nat /\ Len(globals') \in Nat
  <2>1. /\ functions \in Seq(Functions) /\ tables \in Seq(RefTypes)
        /\ memories \in Seq({"limits"}) /\ globals \in Seq({"global"})
    BY DEF TypeOK
  <2>2. /\ functions' \in Seq(Functions) /\ tables' \in Seq(RefTypes)
        /\ memories' \in Seq({"limits"}) /\ globals' \in Seq({"global"})
    BY DEF TypeOK
  <2>3. QED
    BY <2>1, <2>2
<1>3. \A kind \in Kinds : /\ Known(kind) \in Nat /\ Known(kind)' \in Nat
                          /\ Known(kind)' >= Known(kind)
  BY <1>2 DEF SpacesGrow, Known, Kinds
<1>4. ASSUME UNCHANGED exports, ExportsKnown PROVE ExportsKnown'
  <2>1. ASSUME NEW j \in 1..Len(exports)
        PROVE  (exports[j].idx < Known(exports[j].kind))'
    <3>1. PICK kind \in Kinds : kind = exports[j].kind
      BY <1>1
    <3>2. exports[j].idx < Known(kind) /\ exports[j].idx \in Nat
      BY <1>1, <1>4, <3>1 DEF ExportsKnown
    <3>3. exports[j].idx < Known(kind)'
      BY <1>3, <3>2
    <3>4. QED
      BY <1>4, <3>1, <3>3 DEF Known
  <2>2. QED
    BY <1>4, <2>1 DEF ExportsKnown
<1>5. ASSUME UNCHANGED start, StartKnown PROVE StartKnown'
  <2>1. ASSUME NEW i \in start PROVE i < Len(functions')
    <3>1. i < Len(functions) /\ i \in Nat
      BY <1>1, <1>5 DEF StartKnown
    <3>2. QED
      BY <1>2, <3>1 DEF SpacesGrow
  <2>2. QED
    BY <1>5, <2>1 DEF StartKnown
<1>6. QED
  BY <1>4, <1>5

(* How each step changes what is referred to and what refers to it.         *)
TypesStay == /\ Len(signatures') >= Len(signatures)
             /\ \A t \in 1..Len(signatures) : signatures'[t] = signatures[t]
             /\ Len(functions') = Len(functions)
             /\ \A f \in 1..Len(functions) :
                  functions'[f].signature = functions[f].signature

(* A function's type stays known while signatures only grow.                *)
LEMMA TypesStillKnown ==
  ASSUME TypeOK, TypeOK', TypesKnown, TypesStay
  PROVE  TypesKnown'
<1>1. /\ Len(signatures) \in Nat /\ Len(functions) \in Nat
      /\ Len(signatures') \in Nat
  <2>1. signatures \in Seq(Signatures) /\ functions \in Seq(Functions)
    BY DEF TypeOK
  <2>2. signatures' \in Seq(Signatures)
    BY DEF TypeOK
  <2>3. QED
    BY <2>1, <2>2
<1>2. ASSUME NEW f \in 1..Len(functions)
      PROVE  \E t \in 1..Len(signatures') :
               functions'[f].signature = signatures'[t]
  <2>1. PICK t \in 1..Len(signatures) :
          functions[f].signature = signatures[t]
    BY DEF TypesKnown
  <2>2. t \in 1..Len(signatures')
    BY <1>1 DEF TypesStay
  <2>3. functions'[f].signature = signatures'[t]
    BY <2>1 DEF TypesStay
  <2>4. QED
    BY <2>2, <2>3
<1>3. QED
  BY <1>2 DEF TypesKnown, TypesStay

(* No step leaves a function, an export or the start dangling.              *)
LEMMA DanglesKept ==
  ASSUME TypeOK, TypeOK', NothingDangles, [Next]_vars
  PROVE  NothingDangles'
<1> DEFINE Known3 == TypesKnown /\ ExportsKnown /\ StartKnown
<1>0. /\ Known3 /\ (Known3' => NothingDangles')
      /\ signatures \in Seq(Signatures) /\ functions \in Seq(Functions)
      /\ tables \in Seq(RefTypes) /\ memories \in Seq({"limits"})
      /\ globals \in Seq({"global"}) /\ exports \in Seq(Exports)
  <2>1. NothingDangles' <=> Known3'
    BY Parts, PTL
  <2>2. QED
    BY <2>1, Parts DEF TypeOK
<1>1. CASE UNCHANGED vectors
  BY <1>1 DEF vectors, NothingDangles
<1>2. ASSUME TypesStay, SpacesGrow, UNCHANGED <<exports, start>>
      PROVE  NothingDangles'
  BY <1>0, <1>2, TypesStillKnown, StillKnown
<1> USE DEF In, Throw, Keep, InRange
<1>3. ASSUME NEW sig \in Signatures, ReadSignature(sig) PROVE NothingDangles'
  <2>1. CASE FitsRegisters(sig)
    <3>1. /\ signatures' = Append(signatures, sig)
          /\ UNCHANGED <<imports, functions, tables, memories, globals, exports, start>>
      BY <1>3, <2>1 DEF ReadSignature
    <3>2. TypesStay /\ SpacesGrow
      BY <1>0, <3>1 DEF TypesStay, SpacesGrow
    <3>3. QED
      BY <1>2, <3>1, <3>2
  <2>2. CASE ~FitsRegisters(sig)
    BY <1>1, <1>3, <2>2 DEF ReadSignature
  <2>3. QED
    BY <2>1, <2>2
<1>4. ASSUME NEW t \in Indices, ReadFunction(t) PROVE NothingDangles'
  <2>1. CASE t < Len(signatures)
    <3>1. /\ functions' =
               Append(functions, [signature |-> signatures[t + 1],
                                  locals |-> <<>>, body |-> {}])
          /\ UNCHANGED <<signatures, imports, tables, memories, globals, exports, start>>
      BY <1>4, <2>1 DEF ReadFunction
    <3>2. t + 1 \in 1..Len(signatures)
      BY <1>0, <2>1 DEF Indices
    <3>3. TypesKnown'
      <4>1. /\ Len(functions') = Len(functions) + 1
            /\ \A f \in 1..Len(functions) : functions'[f] = functions[f]
            /\ functions'[Len(functions) + 1].signature = signatures[t + 1]
        BY <1>0, <3>1
      <4>2. ASSUME NEW f \in 1..Len(functions')
            PROVE  \E s \in 1..Len(signatures) :
                     functions'[f].signature = signatures[s]
        <5>1. CASE f = Len(functions) + 1
          BY <3>2, <4>1, <5>1
        <5>2. CASE f # Len(functions) + 1
          <6>0. Len(functions) \in Nat
            BY <1>0
          <6>1. f \in 1..Len(functions)
            BY <4>1, <5>2, <6>0
          <6>2. QED
            BY <1>0, <4>1, <6>1 DEF TypesKnown
        <5>3. QED
          BY <5>1, <5>2
      <4>3. QED
        BY <3>1, <4>2 DEF TypesKnown
    <3>4. SpacesGrow
      BY <1>0, <3>1 DEF SpacesGrow
    <3>5. QED
      BY <1>0, <3>1, <3>3, <3>4, StillKnown
  <2>2. CASE ~(t < Len(signatures))
    BY <1>1, <1>4, <2>2 DEF ReadFunction
  <2>3. QED
    BY <2>1, <2>2
<1>5. ASSUME NEW i \in Imports, ReadImport(i) PROVE NothingDangles'
  <2>1. CASE Importable(i)
    <3>1. UNCHANGED <<signatures, functions, tables, memories, globals, exports,
                      start>>
      BY <1>5, <2>1 DEF ReadImport
    <3>2. TypesStay /\ SpacesGrow
      BY <1>0, <3>1 DEF TypesStay, SpacesGrow
    <3>3. QED
      BY <1>2, <3>1, <3>2
  <2>2. CASE ~Importable(i)
    BY <1>1, <1>5, <2>2 DEF ReadImport
  <2>3. QED
    BY <2>1, <2>2
<1>6. ASSUME NEW t \in {"funcref", "i32"}, ReadTable(t) PROVE NothingDangles'
  <2>1. CASE t \in RefTypes
    <3>1. /\ tables' = Append(tables, t)
          /\ UNCHANGED <<signatures, imports, functions, memories, globals, exports, start>>
      BY <1>6, <2>1 DEF ReadTable
    <3>2. TypesStay /\ SpacesGrow
      BY <1>0, <2>1, <3>1 DEF TypesStay, SpacesGrow
    <3>3. QED
      BY <1>2, <3>1, <3>2
  <2>2. CASE t \notin RefTypes
    BY <1>1, <1>6, <2>2 DEF ReadTable
  <2>3. QED
    BY <2>1, <2>2
<1>7. ASSUME ReadMemory PROVE NothingDangles'
  <2>1. /\ TypesStay /\ SpacesGrow
        /\ UNCHANGED <<exports, start>>
    BY <1>0, <1>7 DEF ReadMemory, TypesStay, SpacesGrow
  <2>2. QED
    BY <1>2, <2>1
<1>8. ASSUME NEW ended \in BOOLEAN, ReadGlobal(ended) PROVE NothingDangles'
  <2>1. /\ TypesStay /\ SpacesGrow
        /\ UNCHANGED <<exports, start>>
    BY <1>0, <1>8 DEF ReadGlobal, TypesStay, SpacesGrow
  <2>2. QED
    BY <1>2, <2>1
<1>9. ASSUME NEW e \in Exports, NEW found \in BOOLEAN, ReadExport(e, found)
      PROVE NothingDangles'
  <2>1. CASE e.idx < Known(e.kind) /\ ~found
    <3>1. /\ exports' = Append(exports, e)
          /\ UNCHANGED <<signatures, imports, functions, tables, memories, globals, start>>
      BY <1>9, <2>1 DEF ReadExport
    <3>2. TypesStay /\ SpacesGrow
      BY <1>0, <3>1 DEF TypesStay, SpacesGrow
    <3>3. ExportsKnown'
      <4>1. /\ Len(exports') = Len(exports) + 1
            /\ \A j \in 1..Len(exports) : exports'[j] = exports[j]
            /\ exports'[Len(exports) + 1] = e
        BY <1>0, <3>1
      <4>2. \A kind : Known(kind)' = Known(kind)
        BY <3>1 DEF Known
      <4>3. ASSUME NEW j \in 1..Len(exports')
            PROVE  (exports[j].idx < Known(exports[j].kind))'
        <5>1. PICK x : x = exports'[j]
          OBVIOUS
        <5>2. x.idx < Known(x.kind)
          <6>1. CASE j = Len(exports) + 1
            BY <2>1, <4>1, <5>1, <6>1
          <6>2. CASE j # Len(exports) + 1
            <7>1. j \in 1..Len(exports)
              BY <1>0, <4>1, <6>2
            <7>2. QED
              BY <1>0, <4>1, <5>1, <7>1 DEF ExportsKnown
          <6>3. QED
            BY <6>1, <6>2
        <5>3. QED
          BY <3>1, <5>1, <5>2 DEF Known
      <4>4. QED
        BY <4>3 DEF ExportsKnown
    <3>4. QED
      BY <1>0, <3>1, <3>2, <3>3, TypesStillKnown, StillKnown
  <2>2. CASE ~(e.idx < Known(e.kind) /\ ~found)
    BY <1>1, <1>9, <2>2 DEF ReadExport
  <2>3. QED
    BY <2>1, <2>2
<1>10. ASSUME NEW i \in Indices, ReadStart(i) PROVE NothingDangles'
  <2>1. CASE i < Len(functions)
    <3>1. /\ start' = {i}
          /\ UNCHANGED <<signatures, imports, functions, tables, memories, globals, exports>>
      BY <1>10, <2>1 DEF ReadStart
    <3>2. TypesStay /\ SpacesGrow
      BY <1>0, <3>1 DEF TypesStay, SpacesGrow
    <3>3. StartKnown'
      BY <2>1, <3>1 DEF StartKnown
    <3>4. QED
      BY <1>0, <3>1, <3>2, <3>3, TypesStillKnown, StillKnown
  <2>2. CASE ~(i < Len(functions))
    BY <1>1, <1>10, <2>2 DEF ReadStart
  <2>3. QED
    BY <2>1, <2>2
<1>11. ASSUME NEW c \in Codes, ReadCode(c) PROVE NothingDangles'
  <2>1. CASE CodeError(c) = "none"
    <3>1. UNCHANGED <<signatures, tables, memories, globals, exports, start>>
      BY <1>11, <2>1 DEF ReadCode
    <3>2. TypesStay /\ SpacesGrow
      BY <1>0, <1>11, <2>1, <3>1, CodeRead DEF TypesStay, SpacesGrow
    <3>3. QED
      BY <1>2, <3>1, <3>2
  <2>2. CASE CodeError(c) # "none"
    BY <1>1, <1>11, <2>2 DEF ReadCode
  <2>3. QED
    BY <2>1, <2>2
<1>12. ASSUME NEW id \in 0..13, NEW n \in 0..MaxSize, Section(id, n)
       PROVE  NothingDangles'
  BY <1>1, <1>12 DEF Section
<1>13. CASE BadHeader \/ EndOpcode \/ Undecodable \/ Build \/ UNCHANGED vars
  BY <1>1, <1>13 DEF BadHeader, EndOpcode, Undecodable, Build, vars
<1>14. QED
  BY <1>3, <1>4, <1>5, <1>6, <1>7, <1>8, <1>9, <1>10, <1>11, <1>12, <1>13
     DEF Next, ReadItem

(* Whatever the bytes say, no function has an unknown type, and no export   *)
(* or start section an index beyond what the sections before it declared.   *)
THEOREM NothingDanglesHolds == Spec => []NothingDangles
<1>1. Init => NothingDangles
  BY DEF Init, NothingDangles
<1>2. TypeOK /\ TypeOK' /\ NothingDangles /\ [Next]_vars => NothingDangles'
  BY DanglesKept
<1>3. QED
  BY <1>1, <1>2, TypeCorrect, PTL DEF Spec

-----------------------------------------------------------------------------
(* What an item of each section may be, and a section of what was read.     *)
GlobalItems == [ended : BOOLEAN]
ItemIn(id) == CASE id = 1  -> Signatures
                [] id = 2  -> Imports
                [] id = 3  -> Indices
                [] id = 4  -> {"funcref", "i32"}
                [] id = 5  -> {"limits"}
                [] id = 6  -> GlobalItems
                [] id = 7  -> Exports
                [] id = 8  -> Indices
                [] id = 10 -> Codes
                [] OTHER   -> {}
Sections == UNION {[id : {k}, count : 0..MaxSize, items : Seq(ItemIn(k))] :
                     k \in 0..13}

(* The sections of r that are not custom have ascending ids.                *)
Ascending(r) == \A i, j \in 1..Len(r) :
  i < j /\ r[i].id # 0 /\ r[j].id # 0 => r[i].id < r[j].id

(* The sections that were read came in order, each of them supported and    *)
(* none larger than allowed; the one that has items left is the latest.     *)
Ordered ==
  /\ Ascending(read)
  /\ \A i \in 1..Len(read) :
       /\ read[i].id <= latest
       /\ read[i].id \in (0..8) \cup {10}
       /\ read[i].id \in 1..7 => read[i].count <= Limit[read[i].id]
       /\ read[i].id = 10 => read[i].count = Len(functions)
  /\ latest # 0 => \E i \in 1..Len(read) : read[i].id = latest
  /\ left > 0 => /\ section = latest /\ section # 0
                 /\ Len(read) > 0 /\ read[Len(read)].id = section

(* The builder holds what the bytes said.                                   *)
Tracked ==
  /\ Items(1) = signatures /\ Items(2) = imports
  /\ Items(4) = tables /\ Items(7) = exports
  /\ Len(Items(3)) = Len(functions) /\ Len(Items(5)) = Len(memories)
  /\ Len(Items(6)) = Len(globals)
  /\ \A k \in 1..Len(functions) :
       /\ Items(3)[k] < Len(signatures)
       /\ functions[k].signature = signatures[Items(3)[k] + 1]

(* Every item was checked as it was read, and still is as it has to be.     *)
Checked ==
  /\ \A k \in 1..Len(signatures) : FitsRegisters(signatures[k])
  /\ \A k \in 1..Len(imports) :
       /\ imports[k].kind = "func" => imports[k].idx < Len(signatures)
       /\ imports[k].kind = "table" => imports[k].type \in RefTypes
  /\ \A k \in 1..Len(Items(8)) : Items(8)[k] < Len(functions)
  /\ ahead <=> \E k \in 1..Len(Items(6)) : Items(6)[k].ended

(* A function's code is the one at its position, and valid for its type.    *)
HasCode(f, c) ==
  /\ f.body = {c} /\ f.locals = LocalsOf(c.groups)
  /\ Len(f.locals) <= MaxLocals
  /\ Valid(f.signature, f.locals, c)
  /\ c.sized
Coded ==
  /\ Has(10) => Len(Items(10)) + left = Len(functions)
  /\ \A k \in 1..Len(Items(10)) : HasCode(functions[k], Items(10)[k])

(* What Build returned is still what the builder holds.                     *)
Result == [functions |-> functions,
           exported |-> [name \in {exports[j].name : j \in FunctionExports} |->
                           exports[FirstExport(name)].idx]]
Returned == Built => ~ahead /\ \A module \in parsed : module = Result

(* All of it together is inductive: while nothing was thrown the module is  *)
(* sound so far and the builder in step with it.                            *)
InStep == Ordered /\ Tracked /\ Checked /\ Coded
Faithful ==
  /\ read \in Seq(Sections)
  /\ thrown = "none" => InStep
  /\ RejectsOnlyFlawed
  /\ Returned

-----------------------------------------------------------------------------
(* Items, as a function of what was read.                                   *)
ItemsOf(r, id) ==
  IF \E i \in DOMAIN r : r[i].id = id
  THEN r[CHOOSE i \in DOMAIN r : /\ r[i].id = id
                                 /\ \A k \in 1..i - 1 : r[k].id # id].items
  ELSE <<>>

(* A section says what its id lets it say.                                  *)
LEMMA SectionFields ==
  ASSUME NEW s \in Sections
  PROVE  /\ s.id \in 0..13 /\ s.count \in 0..MaxSize
         /\ s.items \in Seq(ItemIn(s.id))
<1>1. PICK k \in 0..13 :
        s \in [id : {k}, count : 0..MaxSize, items : Seq(ItemIn(k))]
  BY DEF Sections
<1>2. s.id = k
  BY <1>1
<1>3. QED
  BY <1>1, <1>2

(* And whatever has the id, the count and the items of one is one.          *)
LEMMA SectionMade ==
  ASSUME NEW k \in 0..13, NEW n \in 0..MaxSize, NEW q \in Seq(ItemIn(k))
  PROVE  [id |-> k, count |-> n, items |-> q] \in Sections
<1>1. [id |-> k, count |-> n, items |-> q]
        \in [id : {k}, count : 0..MaxSize, items : Seq(ItemIn(k))]
  OBVIOUS
<1>2. QED
  BY <1>1 DEF Sections

(* SaysItem changes the items of a section and nothing else.                *)
LEMMA ItemAdded ==
  ASSUME NEW s \in Sections, NEW d
  PROVE  [s EXCEPT !.items = d] = [id |-> s.id, count |-> s.count, items |-> d]
<1>1. PICK k \in 0..13 :
        s \in [id : {k}, count : 0..MaxSize, items : Seq(ItemIn(k))]
  BY DEF Sections
<1>2. s = [id |-> s.id, count |-> s.count, items |-> s.items]
  BY <1>1
<1>3. PICK a, b, c : s = [id |-> a, count |-> b, items |-> c]
  BY <1>2
<1>4. s.id = a /\ s.count = b
  BY <1>3
<1>5. [[id |-> a, count |-> b, items |-> c] EXCEPT !.items = d] =
        [id |-> a, count |-> b, items |-> d]
  OBVIOUS
<1>6. QED
  BY <1>3, <1>4, <1>5, Zenon

(* One section of several may be replaced by another.                       *)
LEMMA SectionReplaced ==
  ASSUME NEW r \in Seq(Sections), NEW n \in 1..Len(r), NEW s \in Sections
  PROVE  /\ [r EXCEPT ![n] = s] \in Seq(Sections)
         /\ Len([r EXCEPT ![n] = s]) = Len(r)
         /\ \A i \in 1..Len(r) :
              [r EXCEPT ![n] = s][i] = IF i = n THEN s ELSE r[i]
  BY ExceptSeq

(* No id precedes itself.                                                   *)
LEMMA NoneBelowItself == \A k \in 1..13 : k # 0 /\ ~(k < k)
  OBVIOUS

(* A section that comes once is the one its items are found in.             *)
LEMMA ItemsAt ==
  ASSUME NEW r \in Seq(Sections), Ascending(r), NEW id \in 1..13,
         NEW i \in 1..Len(r), r[i].id = id
  PROVE  ItemsOf(r, id) = r[i].items
<1> DEFINE First(j) == /\ r[j].id = id
                       /\ \A k \in 1..j - 1 : r[k].id # id
<1>0. DOMAIN r = 1..Len(r) /\ Len(r) \in Nat
  OBVIOUS
<1>2. ASSUME NEW j \in 1..Len(r), r[j].id = id, j # i PROVE FALSE
  <2>1. id # 0 /\ ~(id < id)
    BY NoneBelowItself
  <2>2. j < i \/ i < j
    BY <1>0, <1>2
  <2>3. CASE j < i
    BY <1>2, <2>1, <2>3, Zenon DEF Ascending
  <2>4. CASE i < j
    BY <1>2, <2>1, <2>4, Zenon DEF Ascending
  <2>5. QED
    BY <2>2, <2>3, <2>4
<1>3. First(i)
  <2>1. \A k \in 1..i - 1 : k \in 1..Len(r) /\ k # i
    BY <1>0
  <2>2. QED
    BY <1>2, <2>1
<1>4. \A j \in DOMAIN r : First(j) => j = i
  BY <1>0, <1>2
<1>5. (CHOOSE j \in DOMAIN r : First(j)) = i
  <2> HIDE DEF First
  <2>1. \E j \in DOMAIN r : First(j)
    BY <1>0, <1>3
  <2>2. QED
    BY <1>4, <2>1
<1>6. \E j \in DOMAIN r : r[j].id = id
  BY <1>0
<1>7. QED
  BY <1>5, <1>6 DEF ItemsOf

SectionAppended(r, id, n) ==
  Append(r, [id |-> id, count |-> n, items |-> <<>>])
ItemAppended(r, x) == [r EXCEPT ![Len(r)].items = Append(@, x)]

(* A new section hides none, and has nothing yet.                           *)
LEMMA SectionSaid ==
  ASSUME NEW r \in Seq(Sections), Ascending(r),
         NEW id \in 0..13, NEW n \in 0..MaxSize,
         \A i \in 1..Len(r) : id = 0 \/ r[i].id < id
  PROVE  LET q == SectionAppended(r, id, n) IN
         /\ q \in Seq(Sections) /\ Ascending(q)
         /\ \A k \in 1..13 : ItemsOf(q, k) = ItemsOf(r, k)
<1> DEFINE s == [id |-> id, count |-> n, items |-> <<>>]
           q == SectionAppended(r, id, n)
<1>1. s \in Sections
  BY SectionMade, EmptySeq
<1>1a. s.id = id /\ s.items = <<>>
  OBVIOUS
<1> HIDE DEF s
<1>2. /\ q \in Seq(Sections) /\ Len(q) = Len(r) + 1 /\ Len(r) \in Nat
      /\ \A i \in 1..Len(r) : q[i] = r[i]
      /\ q[Len(r) + 1] = s
  <2>1. q = Append(r, s)
    BY DEF q, s, SectionAppended
  <2>2. QED
    BY <1>1, <2>1, AppendProperties
<1> HIDE DEF q
<1>3. Ascending(q)
  <2>1. SUFFICES ASSUME NEW i \in 1..Len(q), NEW j \in 1..Len(q),
                        i < j, q[i].id # 0, q[j].id # 0
                 PROVE  q[i].id < q[j].id
    BY DEF Ascending
  <2>2. i \in 1..Len(r) /\ q[i] = r[i]
    BY <1>2, <2>1
  <2>3. CASE j = Len(r) + 1
    BY <1>1a, <1>2, <2>1, <2>2, <2>3
  <2>4. CASE j # Len(r) + 1
    <3>1. j \in 1..Len(r) /\ q[j] = r[j]
      BY <1>2, <2>4
    <3>2. QED
      BY <2>1, <2>2, <3>1 DEF Ascending
  <2>5. QED
    BY <2>3, <2>4
<1>4. ASSUME NEW k \in 1..13 PROVE ItemsOf(q, k) = ItemsOf(r, k)
  <2>1. CASE \E i \in 1..Len(r) : r[i].id = k
    <3>1. PICK i \in 1..Len(r) : r[i].id = k
      BY <2>1
    <3>2. i \in 1..Len(q) /\ q[i] = r[i]
      BY <1>2
    <3>3. ItemsOf(r, k) = r[i].items
      BY <3>1, ItemsAt
    <3>4. ItemsOf(q, k) = q[i].items
      BY <1>2, <1>3, <3>1, <3>2, ItemsAt
    <3>5. QED
      BY <3>2, <3>3, <3>4
  <2>2. CASE ~\E i \in 1..Len(r) : r[i].id = k
    <3>1. ItemsOf(r, k) = <<>>
      BY <2>2 DEF ItemsOf
    <3>2. CASE id = k
      <4>1. Len(q) \in 1..Len(q) /\ q[Len(q)] = s
        BY <1>2
      <4>2. ItemsOf(q, k) = q[Len(q)].items
        BY <1>1a, <1>2, <1>3, <3>2, <4>1, ItemsAt
      <4>3. QED
        BY <1>1a, <3>1, <3>2, <4>1, <4>2
    <3>3. CASE id # k
      <4>1. ASSUME NEW i \in 1..Len(q) PROVE q[i].id # k
        <5>1. i \in 1..Len(r) \/ i = Len(r) + 1
          BY <1>2
        <5>2. QED
          BY <1>1a, <1>2, <2>2, <3>3, <5>1
      <4>2. DOMAIN q = 1..Len(q)
        BY <1>2
      <4>3. QED
        BY <3>1, <4>1, <4>2 DEF ItemsOf
    <3>4. QED
      BY <3>2, <3>3
  <2>3. QED
    BY <2>1, <2>2
<1>5. QED
  BY <1>2, <1>3, <1>4 DEF q

(* An item goes to the latest section and leaves everything else.           *)
LEMMA ItemSaid ==
  ASSUME NEW r \in Seq(Sections), Ascending(r), Len(r) > 0,
         NEW k \in 1..13, r[Len(r)].id = k, NEW x \in ItemIn(k)
  PROVE  LET q == ItemAppended(r, x) IN
         /\ q \in Seq(Sections) /\ Ascending(q) /\ Len(q) = Len(r)
         /\ \A i \in 1..Len(r) : q[i].id = r[i].id /\ q[i].count = r[i].count
         /\ ItemsOf(q, k) = Append(ItemsOf(r, k), x)
         /\ \A j \in 1..13 : j # k => ItemsOf(q, j) = ItemsOf(r, j)
<1> DEFINE n == Len(r)
           s == [id |-> r[n].id, count |-> r[n].count,
                 items |-> Append(r[n].items, x)]
           q == ItemAppended(r, x)
<1>1. n \in 1..Len(r) /\ Len(r) \in Nat
  OBVIOUS
<1>2. r[n] \in Sections
  BY <1>1, ElementOfSeq
<1>3. /\ r[n].count \in 0..MaxSize /\ r[n].items \in Seq(ItemIn(k))
  BY <1>2, SectionFields
<1>4. s \in Sections
  <2>0. k \in 0..13
    OBVIOUS
  <2>1. Append(r[n].items, x) \in Seq(ItemIn(k))
    BY <1>3, AppendProperties
  <2>2. s = [id |-> k, count |-> r[n].count, items |-> Append(r[n].items, x)]
    OBVIOUS
  <2> HIDE DEF s, n
  <2>3. QED
    BY <1>3, <2>0, <2>1, <2>2, SectionMade, Zenon
<1>5. q = [r EXCEPT ![n] = s]
  <2>1. [r[n] EXCEPT !.items = Append(r[n].items, x)] = s
    BY <1>2, ItemAdded
  <2> HIDE DEF s
  <2>2. QED
    BY <2>1 DEF ItemAppended
<1>6. /\ s.id = k /\ s.count = r[n].count
      /\ s.items = Append(r[n].items, x)
  OBVIOUS
<1> HIDE DEF s, n, q
<1>7. /\ q \in Seq(Sections) /\ Len(q) = Len(r)
      /\ \A i \in 1..Len(r) : q[i] = IF i = n THEN s ELSE r[i]
  <2>1. /\ [r EXCEPT ![n] = s] \in Seq(Sections)
        /\ Len([r EXCEPT ![n] = s]) = Len(r)
        /\ \A i \in 1..Len(r) :
             [r EXCEPT ![n] = s][i] = IF i = n THEN s ELSE r[i]
    BY <1>1, <1>4, SectionReplaced
  <2>2. QED
    BY <1>5, <2>1
<1>8. \A i \in 1..Len(r) : q[i].id = r[i].id /\ q[i].count = r[i].count
  BY <1>6, <1>7 DEF n
<1>9. Ascending(q)
  BY <1>7, <1>8 DEF Ascending
<1>10. ItemsOf(q, k) = Append(ItemsOf(r, k), x)
  <2>1. ItemsOf(r, k) = r[n].items
    BY <1>1, ItemsAt DEF n
  <2>2. q[n] = s /\ n \in 1..Len(q)
    BY <1>1, <1>7
  <2>3. ItemsOf(q, k) = q[n].items
    BY <1>6, <1>7, <1>9, <2>2, ItemsAt
  <2>4. QED
    BY <1>1, <1>6, <2>1, <2>2, <2>3 DEF n
<1>11. ASSUME NEW j \in 1..13, j # k PROVE ItemsOf(q, j) = ItemsOf(r, j)
  <2>1. CASE \E i \in 1..Len(r) : r[i].id = j
    <3>1. PICK i \in 1..Len(r) : r[i].id = j
      BY <2>1
    <3>2. q[i] = r[i]
      BY <1>7, <1>11, <3>1 DEF n
    <3>3. ItemsOf(r, j) = r[i].items
      BY <3>1, ItemsAt
    <3>4. ItemsOf(q, j) = q[i].items
      BY <1>7, <1>9, <3>1, <3>2, ItemsAt
    <3>5. QED
      BY <3>2, <3>3, <3>4
  <2>2. CASE ~\E i \in 1..Len(r) : r[i].id = j
    <3>1. DOMAIN r = 1..Len(r) /\ DOMAIN q = 1..Len(r)
      BY <1>7
    <3>2. ~\E i \in 1..Len(r) : q[i].id = j
      BY <1>8, <2>2
    <3>3. QED
      BY <2>2, <3>1, <3>2 DEF ItemsOf
  <2>3. QED
    BY <2>1, <2>2
<1>12. QED
  BY <1>7, <1>8, <1>9, <1>10, <1>11 DEF q

-----------------------------------------------------------------------------
(* The sections of the module, in terms of ItemsOf.                         *)
LEMMA ItemsAre ==
  /\ \A j : Items(j) = ItemsOf(read, j)
  /\ \A j : Items(j)' = ItemsOf(read', j)
  BY DEF Items, ItemsOf

(* What the bytes say under an id is what that id lets them say.            *)
LEMMA ItemsTyped ==
  ASSUME NEW r \in Seq(Sections), Ascending(r), NEW j \in 1..13
  PROVE  ItemsOf(r, j) \in Seq(ItemIn(j))
<1>0. DOMAIN r = 1..Len(r)
  OBVIOUS
<1>1. CASE \E i \in 1..Len(r) : r[i].id = j
  <2>1. PICK i \in 1..Len(r) : r[i].id = j
    BY <1>1
  <2>2. r[i] \in Sections
    BY ElementOfSeq
  <2>3. ItemsOf(r, j) = r[i].items
    BY <2>1, ItemsAt
  <2>4. QED
    BY <2>1, <2>2, <2>3, SectionFields
<1>2. CASE ~\E i \in 1..Len(r) : r[i].id = j
  <2>1. ItemsOf(r, j) = <<>>
    BY <1>0, <1>2 DEF ItemsOf
  <2>2. QED
    BY <2>1
<1>3. QED
  BY <1>1, <1>2

(* Reading an item adds it to what its section says, and nothing else.      *)
LEMMA ItemRead ==
  ASSUME read \in Seq(Sections), InStep,
         NEW k \in 1..13, In(k), NEW x \in ItemIn(k), SaysItem(x)
  PROVE  /\ read' \in Seq(Sections) /\ Ascending(read')
         /\ Len(read') = Len(read)
         /\ \A i \in 1..Len(read) : /\ read'[i].id = read[i].id
                                    /\ read'[i].count = read[i].count
         /\ Items(k)' = Append(Items(k), x)
         /\ \A j \in 1..13 : j # k => Items(j)' = Items(j)
         /\ \A j \in 1..13 : Items(j) \in Seq(ItemIn(j))
         /\ Has(10)' <=> Has(10)
<1>1. /\ Ascending(read) /\ Len(read) > 0 /\ read[Len(read)].id = k
  BY DEF InStep, Ordered, In
<1>2. read' = ItemAppended(read, x)
  BY DEF SaysItem, ItemAppended
<1>3. /\ read' \in Seq(Sections) /\ Ascending(read')
      /\ Len(read') = Len(read)
      /\ \A i \in 1..Len(read) : /\ read'[i].id = read[i].id
                                 /\ read'[i].count = read[i].count
      /\ ItemsOf(read', k) = Append(ItemsOf(read, k), x)
      /\ \A j \in 1..13 : j # k => ItemsOf(read', j) = ItemsOf(read, j)
  BY <1>1, <1>2, ItemSaid, Zenon
<1>4. Has(10)' <=> Has(10)
  <2>1. DOMAIN read = 1..Len(read) /\ DOMAIN read' = 1..Len(read)
    BY <1>3
  <2>2. QED
    BY <1>3, <2>1 DEF Has
<1>5. \A j \in 1..13 : ItemsOf(read, j) \in Seq(ItemIn(j))
  BY <1>1, ItemsTyped
<1>6. QED
  BY <1>3, <1>4, <1>5, ItemsAre

(* The code section comes last: while another one has items left there is   *)
(* no code.                                                                 *)
LEMMA NoCodeYet ==
  ASSUME TypeOK, read \in Seq(Sections), Ordered, latest < 10
  PROVE  ~Has(10) /\ Items(10) = <<>>
<1>1. DOMAIN read = 1..Len(read)
  OBVIOUS
<1>2. ASSUME NEW i \in 1..Len(read) PROVE read[i].id # 10
  <2>1. latest \in Nat /\ ~(10 <= latest)
    BY DEF TypeOK
  <2>2. read[i].id <= latest
    BY DEF Ordered
  <2>3. QED
    BY <2>1, <2>2
<1>3. QED
  BY <1>1, <1>2 DEF Has, Items

(* An item that is kept leaves the sections as they were.                   *)
LEMMA OrderedStays ==
  ASSUME TypeOK, read \in Seq(Sections), Ordered, left > 0,
         UNCHANGED <<latest, section>>, left' = left - 1,
         Ascending(read'), Len(read') = Len(read),
         \A i \in 1..Len(read) : /\ read'[i].id = read[i].id
                                 /\ read'[i].count = read[i].count,
         section # 3 => Len(functions') = Len(functions)
  PROVE  Ordered'
<1>1. left' > 0 => left > 0
  BY DEF TypeOK
<1>2. Len(read) \in 1..Len(read)
  BY DEF Ordered
<1>3. ASSUME NEW i \in 1..Len(read), read[i].id = 10
      PROVE  Len(functions') = Len(functions)
  <2>1. section = latest /\ read[i].id <= latest
    BY DEF Ordered
  <2>2. section # 3
    BY <1>3, <2>1
  <2>3. QED
    BY <2>2
<1>4. ASSUME NEW i \in 1..Len(read')
      PROVE  /\ read'[i].id <= latest'
             /\ read'[i].id \in (0..8) \cup {10}
             /\ read'[i].id \in 1..7 => read'[i].count <= Limit[read'[i].id]
             /\ read'[i].id = 10 => read'[i].count = Len(functions')
  <2>1. /\ i \in 1..Len(read) /\ read'[i].id = read[i].id
        /\ read'[i].count = read[i].count
    OBVIOUS
  <2>2. QED
    BY <1>3, <2>1 DEF Ordered
<1>5. latest' # 0 => \E i \in 1..Len(read') : read'[i].id = latest'
  BY DEF Ordered
<1>6. left' > 0 => /\ section' = latest' /\ section' # 0
                   /\ Len(read') > 0 /\ read'[Len(read')].id = section'
  BY <1>1, <1>2 DEF Ordered
<1>7. QED
  BY <1>4, <1>5, <1>6 DEF Ordered

(* What a step has to show if it throws nothing.                            *)
LEMMA Accepts ==
  ASSUME Parsing, UNCHANGED <<thrown, parsed>>,
         read' \in Seq(Sections), InStep'
  PROVE  Faithful'
  BY DEF Faithful, Parsing, RejectsOnlyFlawed, Returned, Built

(* And if it throws: that the bytes, including those it read, give a reason.*)
LEMMA Rejects ==
  ASSUME Parsing, UNCHANGED parsed, thrown' \in Exceptions,
         read' \in Seq(Sections), RejectsOnlyFlawed'
  PROVE  Faithful'
  BY DEF Faithful, Parsing, Returned, Built, Exceptions

(* The items of each section, by name.                                      *)
LEMMA ItemKinds ==
  /\ ItemIn(1) = Signatures /\ ItemIn(2) = Imports /\ ItemIn(3) = Indices
  /\ ItemIn(4) = {"funcref", "i32"} /\ ItemIn(5) = {"limits"}
  /\ ItemIn(6) = GlobalItems /\ ItemIn(7) = Exports
  /\ ItemIn(8) = Indices /\ ItemIn(10) = Codes
  BY DEF ItemIn

(* A function's import has the number of its type.                          *)
LEMMA ImportIndex ==
  ASSUME NEW i \in Imports, i.kind = "func"
  PROVE  i.idx \in Nat
<1>1. CASE i \in [kind : {"func"}, idx : Indices]
  BY <1>1 DEF Indices
<1>2. CASE i \in [kind : {"table"}, type : {"funcref", "i32"}]
  BY <1>2
<1>3. CASE i \in [kind : {"memory", "global"}]
  BY <1>3
<1>4. QED
  BY <1>1, <1>2, <1>3 DEF Imports

(* What Items and the vectors are made of.                                  *)
LEMMA WellTyped ==
  ASSUME TypeOK, read \in Seq(Sections), Ascending(read)
  PROVE  /\ signatures \in Seq(Signatures) /\ imports \in Seq(Imports)
         /\ functions \in Seq(Functions) /\ tables \in Seq(RefTypes)
         /\ memories \in Seq({"limits"}) /\ globals \in Seq({"global"})
         /\ exports \in Seq(Exports)
         /\ Items(3) \in Seq(Indices) /\ Items(5) \in Seq({"limits"})
         /\ Items(6) \in Seq(GlobalItems) /\ Items(8) \in Seq(Indices)
         /\ Items(10) \in Seq(Codes)
         /\ latest \in Nat /\ left \in Nat /\ Indices \subseteq Nat
<1>1. \A j \in 1..13 : Items(j) \in Seq(ItemIn(j))
  BY ItemsTyped, ItemsAre
<1>2. /\ Items(3) \in Seq(ItemIn(3)) /\ Items(5) \in Seq(ItemIn(5))
      /\ Items(6) \in Seq(ItemIn(6)) /\ Items(8) \in Seq(ItemIn(8))
      /\ Items(10) \in Seq(ItemIn(10))
  BY <1>1
<1>3. /\ latest \in Nat /\ left \in Nat /\ Indices \subseteq Nat
  BY DEF TypeOK, Indices
<1>4. QED
  BY <1>2, <1>3, ItemKinds DEF TypeOK

(* An item of a section before the code section, if it is kept.             *)
LEMMA EarlyItem ==
  ASSUME TypeOK, read \in Seq(Sections), InStep,
         NEW k \in 1..8, In(k), NEW x \in ItemIn(k), SaysItem(x), Keep,
         k # 3 => Len(functions') = Len(functions)
  PROVE  /\ read' \in Seq(Sections) /\ Ordered' /\ Coded'
         /\ Items(k)' = Append(Items(k), x)
         /\ \A j \in 1..13 : j # k => Items(j)' = Items(j)
<1>1. k \in 1..13 /\ latest < 10 /\ section = k /\ left > 0
  <2>1. section = k /\ left > 0
    BY DEF In
  <2>2. latest = k
    BY <2>1 DEF InStep, Ordered
  <2>3. QED
    BY <2>1, <2>2
<1>2. /\ read' \in Seq(Sections) /\ Ascending(read')
      /\ Len(read') = Len(read)
      /\ \A i \in 1..Len(read) : /\ read'[i].id = read[i].id
                                 /\ read'[i].count = read[i].count
      /\ Items(k)' = Append(Items(k), x)
      /\ \A j \in 1..13 : j # k => Items(j)' = Items(j)
      /\ Has(10)' <=> Has(10)
  BY <1>1, ItemRead
<1>3. Ordered'
  BY <1>1, <1>2, OrderedStays DEF InStep, Keep
<1>4. ~Has(10)' /\ Items(10)' = <<>>
  <2>1. ~Has(10) /\ Items(10) = <<>>
    BY <1>1, NoCodeYet DEF InStep
  <2>2. Items(10)' = Items(10)
    BY <1>2
  <2>3. QED
    BY <1>2, <2>1, <2>2
<1>5. Coded'
  <2>1. 1..Len(Items(10)') = {}
    BY <1>4
  <2>2. QED
    BY <1>4, <2>1 DEF Coded
<1>6. QED
  BY <1>2, <1>3, <1>5

(* One that is refused, as far as what was read.                            *)
LEMMA RefusedItem ==
  ASSUME read \in Seq(Sections), InStep, Parsing,
         NEW k \in 1..13, In(k), NEW x \in ItemIn(k), SaysItem(x),
         NEW e \in Exceptions, Throw(e), RejectsOnlyFlawed'
  PROVE  Faithful'
<1>1. read' \in Seq(Sections)
  BY ItemRead
<1>2. QED
  BY <1>1, Rejects DEF Throw

(* ParseSignature: nothing before it mentions the types that follow.        *)
LEMMA SignatureRead ==
  ASSUME TypeOK, Faithful, NEW sig \in Signatures, ReadSignature(sig)
  PROVE  Faithful'
<1>0. /\ InStep /\ read \in Seq(Sections) /\ Parsing /\ In(1)
      /\ sig \in ItemIn(1) /\ SaysItem(sig)
  BY ItemKinds DEF Faithful, ReadSignature, In, Parsing
<1>1. /\ signatures \in Seq(Signatures) /\ imports \in Seq(Imports)
      /\ Items(3) \in Seq(Indices) /\ Indices \subseteq Nat
  BY <1>0, WellTyped DEF InStep, Ordered
<1>2. CASE FitsRegisters(sig)
  <2>1. /\ signatures' = Append(signatures, sig) /\ Keep
        /\ UNCHANGED <<imports, functions, tables, memories, globals,
                       exports, start, ahead>>
    BY <1>2 DEF ReadSignature
  <2>2. /\ read' \in Seq(Sections) /\ Ordered' /\ Coded'
        /\ Items(1)' = Append(Items(1), sig)
        /\ \A j \in 1..13 : j # 1 => Items(j)' = Items(j)
    BY <1>0, <2>1, EarlyItem
  <2>3. /\ Items(2)' = Items(2) /\ Items(3)' = Items(3) /\ Items(4)' = Items(4)
        /\ Items(5)' = Items(5) /\ Items(6)' = Items(6) /\ Items(7)' = Items(7)
        /\ Items(8)' = Items(8)
    BY <2>2
  <2>4. /\ Len(signatures') = Len(signatures) + 1 /\ Len(signatures) \in Nat
        /\ \A t \in 1..Len(signatures) : signatures'[t] = signatures[t]
        /\ signatures'[Len(signatures) + 1] = sig
    BY <1>1, <2>1
  <2>5. Tracked'
    <3>1. ASSUME NEW k \in 1..Len(functions)
          PROVE  /\ Items(3)[k] < Len(signatures')
                 /\ functions[k].signature = signatures'[Items(3)[k] + 1]
      <4>1. /\ Items(3)[k] < Len(signatures)
            /\ functions[k].signature = signatures[Items(3)[k] + 1]
        BY <1>0 DEF InStep, Tracked
      <4>2. Items(3)[k] \in Nat
        BY <1>0, <1>1, ElementOfSeq DEF InStep, Tracked
      <4>3. PICK t \in Nat : t = Items(3)[k]
        BY <4>2
      <4>4. t < Len(signatures)
        BY <4>1, <4>3
      <4>5. t < Len(signatures') /\ t + 1 \in 1..Len(signatures)
        BY <2>4, <4>4
      <4>6. QED
        BY <2>4, <4>1, <4>3, <4>5
    <3>2. QED
      BY <1>0, <2>1, <2>2, <2>3, <3>1 DEF InStep, Tracked
  <2>6. Checked'
    <3>1. ASSUME NEW k \in 1..Len(signatures')
          PROVE  FitsRegisters(signatures'[k])
      <4>1. k \in 1..Len(signatures) \/ k = Len(signatures) + 1
        BY <2>4
      <4>2. QED
        BY <1>0, <1>2, <2>4, <4>1 DEF InStep, Checked
    <3>2. ASSUME NEW k \in 1..Len(imports), imports[k].kind = "func"
          PROVE  imports[k].idx < Len(signatures')
      <4>1. imports[k] \in Imports
        BY <1>1, ElementOfSeq
      <4>2. imports[k].idx < Len(signatures)
        BY <1>0, <3>2 DEF InStep, Checked
      <4>3. PICK i \in Nat : i = imports[k].idx
        <5>1. imports[k].kind = "func"
          BY <3>2
        <5>2. imports[k].idx \in Nat
          BY ONLY <4>1, <5>1, ImportIndex, Zenon
        <5>3. QED
          BY <5>2
      <4>4. i < Len(signatures')
        BY <2>4, <4>2, <4>3
      <4>5. QED
        BY <4>3, <4>4
    <3>3. /\ \A k \in 1..Len(imports) : imports[k].kind = "table" => imports[k].type \in RefTypes
          /\ \A k \in 1..Len(Items(8)) : Items(8)[k] < Len(functions)
          /\ ahead <=> \E k \in 1..Len(Items(6)) : Items(6)[k].ended
      BY <1>0 DEF InStep, Checked
    <3>4. QED
      BY <2>1, <2>3, <3>1, <3>2, <3>3, Zenon DEF Checked
  <2>7. QED
    BY <1>0, <2>1, <2>2, <2>5, <2>6, Accepts DEF InStep, Keep
<1>3. CASE ~FitsRegisters(sig)
  <2>1. Throw("ModuleTooLarge") /\ "ModuleTooLarge" \in Exceptions
    BY <1>3 DEF ReadSignature, Exceptions
  <2>2. Items(1)' = Append(signatures, sig)
    BY <1>0, ItemRead DEF InStep, Tracked
  <2>3. Oversized'
    <3>1. /\ Len(signatures) + 1 \in DOMAIN Items(1)'
          /\ Items(1)'[Len(signatures) + 1] = sig
      BY <1>1, <2>2
    <3>2. QED
      BY <1>3, <3>1 DEF Oversized
  <2>4. QED
    BY <1>0, <2>1, <2>3, RefusedItem DEF RejectsOnlyFlawed, Throw
<1>4. QED
  BY <1>2, <1>3

(* ParseOneImport: the type section is complete, so its size decides.       *)
LEMMA ImportRead ==
  ASSUME TypeOK, Faithful, NEW i \in Imports, ReadImport(i)
  PROVE  Faithful'
<1>0. /\ InStep /\ read \in Seq(Sections) /\ Parsing /\ In(2)
      /\ i \in ItemIn(2) /\ SaysItem(i)
  BY ItemKinds DEF Faithful, ReadImport, In, Parsing
<1>1. signatures \in Seq(Signatures) /\ imports \in Seq(Imports)
  BY <1>0, WellTyped DEF InStep, Ordered
<1>2. CASE Importable(i)
  <2>1. /\ imports' = Append(imports, i) /\ Keep
        /\ UNCHANGED <<signatures, functions, tables, memories, globals,
                       exports, start, ahead>>
    BY <1>2 DEF ReadImport
  <2>2. /\ read' \in Seq(Sections) /\ Ordered' /\ Coded'
        /\ Items(2)' = Append(Items(2), i)
        /\ \A j \in 1..13 : j # 2 => Items(j)' = Items(j)
    BY <1>0, <2>1, EarlyItem
  <2>3. /\ Items(1)' = Items(1) /\ Items(3)' = Items(3) /\ Items(4)' = Items(4)
        /\ Items(5)' = Items(5) /\ Items(6)' = Items(6) /\ Items(7)' = Items(7)
        /\ Items(8)' = Items(8)
    BY <2>2
  <2>4. Tracked'
    BY <1>0, <2>1, <2>2, <2>3 DEF InStep, Tracked
  <2>5. Checked'
    <3>1. ASSUME NEW k \in 1..Len(imports')
          PROVE  /\ imports'[k].kind = "func" =>
                      imports'[k].idx < Len(signatures)
                 /\ imports'[k].kind = "table" => imports'[k].type \in RefTypes
      <4>1. CASE k = Len(imports) + 1
        <5>1. imports'[k] = i
          BY <1>1, <2>1, <4>1
        <5>2. QED
          BY <1>2, <5>1 DEF Importable, InRange
      <4>2. CASE k # Len(imports) + 1
        <5>1. k \in 1..Len(imports) /\ imports'[k] = imports[k]
          BY <1>1, <2>1, <4>2
        <5>2. QED
          BY <1>0, <5>1 DEF InStep, Checked
      <4>3. QED
        BY <4>1, <4>2
    <3>2. QED
      BY <1>0, <2>1, <2>3, <3>1 DEF InStep, Checked
  <2>6. QED
    BY <1>0, <2>1, <2>2, <2>4, <2>5, Accepts DEF InStep, Keep
<1>3. CASE ~Importable(i)
  <2>1. Throw("Parse") /\ "Parse" \in Exceptions
    BY <1>3 DEF ReadImport, Exceptions
  <2>2. Items(2)' = Append(imports, i) /\ Items(1)' = signatures
    BY <1>0, ItemRead DEF InStep, Tracked
  <2>3. UnknownType'
    <3>1. /\ Len(imports) + 1 \in DOMAIN Items(2)'
          /\ Items(2)'[Len(imports) + 1] = i
      BY <1>1, <2>2
    <3>2. CASE i.kind = "func" /\ ~InRange(i.idx, Len(signatures))
      <4>1. PICK x \in Nat : x = i.idx
        BY <3>2, ImportIndex
      <4>2. ~(x < Len(signatures))
        BY <3>2, <4>1 DEF InRange
      <4>3. x >= Len(signatures)
        BY <1>1, <4>2
      <4>4. i.idx >= Len(Items(1)')
        BY <2>2, <4>1, <4>3
      <4>5. QED
        BY <3>1, <3>2, <4>4, Zenon DEF UnknownType
    <3>3. CASE i.kind = "table" /\ i.type \notin RefTypes
      BY <3>1, <3>3, Zenon DEF UnknownType
    <3>4. QED
      BY <1>3, <3>2, <3>3 DEF Importable
  <2>4. QED
    BY <1>0, <2>1, <2>3, RefusedItem DEF RejectsOnlyFlawed, Throw
<1>4. QED
  BY <1>2, <1>3

(* ParseFunctionDeclarationSection: the same for a function's type.         *)
LEMMA FunctionRead ==
  ASSUME TypeOK, Faithful, NEW t \in Indices, ReadFunction(t)
  PROVE  Faithful'
<1>0. /\ InStep /\ read \in Seq(Sections) /\ Parsing /\ In(3)
      /\ t \in ItemIn(3) /\ SaysItem(t)
  BY ItemKinds DEF Faithful, ReadFunction, In, Parsing
<1>1. /\ signatures \in Seq(Signatures) /\ functions \in Seq(Functions)
      /\ Items(3) \in Seq(Indices) /\ Items(8) \in Seq(Indices)
      /\ Indices \subseteq Nat
  BY <1>0, WellTyped DEF InStep, Ordered
<1>2. CASE InRange(t, Len(signatures))
  <2> DEFINE f == [signature |-> signatures[t + 1], locals |-> <<>>, body |-> {}]
  <2>0. f.signature = signatures[t + 1]
    OBVIOUS
  <2>1. /\ functions' = Append(functions, f) /\ Keep
        /\ UNCHANGED <<signatures, imports, tables, memories, globals,
                       exports, start, ahead>>
    BY <1>2 DEF ReadFunction
  <2> HIDE DEF f
  <2>2. /\ read' \in Seq(Sections) /\ Ordered' /\ Coded'
        /\ Items(3)' = Append(Items(3), t)
        /\ \A j \in 1..13 : j # 3 => Items(j)' = Items(j)
    BY <1>0, <2>1, EarlyItem
  <2>3. /\ Items(1)' = Items(1) /\ Items(2)' = Items(2) /\ Items(4)' = Items(4)
        /\ Items(5)' = Items(5) /\ Items(6)' = Items(6) /\ Items(7)' = Items(7)
        /\ Items(8)' = Items(8)
    BY <2>2
  <2>4. /\ Len(functions) \in Nat /\ Len(functions') = Len(functions) + 1
        /\ \A k \in 1..Len(functions) : functions'[k] = functions[k]
        /\ functions'[Len(functions) + 1] = f
    BY <1>1, <2>1
  <2>5. /\ Len(Items(3)) = Len(functions)
        /\ Len(Items(3)') = Len(functions')
        /\ \A k \in 1..Len(functions) : Items(3)'[k] = Items(3)[k]
        /\ Items(3)'[Len(functions) + 1] = t
    <3>1. Len(Items(3)) = Len(functions)
      BY <1>0 DEF InStep, Tracked
    <3>2. PICK q \in Seq(Indices) : q = Items(3)
      BY <1>1
    <3>3. /\ Len(Append(q, t)) = Len(q) + 1
          /\ \A k \in 1..Len(q) : Append(q, t)[k] = q[k]
          /\ Append(q, t)[Len(q) + 1] = t
      BY AppendProperties
    <3>4. Items(3)' = Append(q, t) /\ Len(q) = Len(functions)
      BY <2>2, <3>1, <3>2
    <3>5. QED
      BY <2>4, <3>2, <3>3, <3>4
  <2>6. Tracked'
    <3>1. ASSUME NEW k \in 1..Len(functions')
          PROVE  /\ Items(3)'[k] < Len(signatures)
                 /\ functions'[k].signature = signatures[Items(3)'[k] + 1]
      <4>1. CASE k = Len(functions) + 1
        BY <1>2, <2>0, <2>4, <2>5, <4>1 DEF InRange
      <4>2. CASE k # Len(functions) + 1
        <5>1. k \in 1..Len(functions)
          BY <2>4, <4>2
        <5>2. /\ Items(3)[k] < Len(signatures)
              /\ functions[k].signature = signatures[Items(3)[k] + 1]
          BY <1>0, <5>1 DEF InStep, Tracked
        <5>3. Items(3)'[k] = Items(3)[k] /\ functions'[k] = functions[k]
          BY <2>4, <2>5, <5>1
        <5>4. QED
          BY <5>2, <5>3
      <4>3. QED
        BY <4>1, <4>2
    <3>2. QED
      BY <1>0, <2>1, <2>2, <2>3, <2>5, <3>1 DEF InStep, Tracked
  <2>7. Checked'
    <3>1. ASSUME NEW k \in 1..Len(Items(8))
          PROVE  Items(8)[k] < Len(functions')
      <4>1. PICK i \in Nat : i = Items(8)[k]
        BY <1>1, ElementOfSeq
      <4>2. i < Len(functions)
        BY <1>0, <4>1 DEF InStep, Checked
      <4>3. i < Len(functions')
        BY <2>4, <4>2
      <4>4. QED
        BY <4>1, <4>3
    <3>2. QED
      BY <1>0, <2>1, <2>3, <3>1 DEF InStep, Checked
  <2>8. QED
    BY <1>0, <2>1, <2>2, <2>6, <2>7, Accepts DEF InStep, Keep
<1>3. CASE ~InRange(t, Len(signatures))
  <2>1. Throw("Parse") /\ "Parse" \in Exceptions
    BY <1>3 DEF ReadFunction, Exceptions
  <2>2. Items(3)' = Append(Items(3), t) /\ Items(1)' = signatures
    BY <1>0, ItemRead DEF InStep, Tracked
  <2>3. UnknownType'
    <3>1. /\ Len(Items(3)) + 1 \in DOMAIN Items(3)'
          /\ Items(3)'[Len(Items(3)) + 1] = t
      BY <1>1, <2>2
    <3>2. t >= Len(signatures)
      BY <1>1, <1>3 DEF InRange
    <3>3. QED
      BY <2>2, <3>1, <3>2 DEF UnknownType
  <2>4. QED
    BY <1>0, <2>1, <2>3, RefusedItem DEF RejectsOnlyFlawed, Throw
<1>4. QED
  BY <1>2, <1>3

(* ParseTableType refuses what is no reference.                             *)
LEMMA TableRead ==
  ASSUME TypeOK, Faithful, NEW t \in {"funcref", "i32"}, ReadTable(t)
  PROVE  Faithful'
<1>0. /\ InStep /\ read \in Seq(Sections) /\ Parsing /\ In(4)
      /\ t \in ItemIn(4) /\ SaysItem(t)
  BY ItemKinds DEF Faithful, ReadTable, In, Parsing
<1>1. tables \in Seq(RefTypes)
  BY DEF TypeOK
<1>2. CASE t \in RefTypes
  <2>1. /\ tables' = Append(tables, t) /\ Keep
        /\ UNCHANGED <<signatures, imports, functions, memories, globals,
                       exports, start, ahead>>
    BY <1>2 DEF ReadTable
  <2>2. /\ read' \in Seq(Sections) /\ Ordered' /\ Coded'
        /\ Items(4)' = Append(Items(4), t)
        /\ \A j \in 1..13 : j # 4 => Items(j)' = Items(j)
    BY <1>0, <2>1, EarlyItem
  <2>3. /\ Items(1)' = Items(1) /\ Items(2)' = Items(2) /\ Items(3)' = Items(3)
        /\ Items(5)' = Items(5) /\ Items(6)' = Items(6) /\ Items(7)' = Items(7)
        /\ Items(8)' = Items(8)
    BY <2>2
  <2>4. Tracked'
    BY <1>0, <2>1, <2>2, <2>3 DEF InStep, Tracked
  <2>5. Checked'
    BY <1>0, <2>1, <2>3 DEF InStep, Checked
  <2>6. QED
    BY <1>0, <2>1, <2>2, <2>4, <2>5, Accepts DEF InStep, Keep
<1>3. CASE t \notin RefTypes
  <2>1. Throw("Parse") /\ "Parse" \in Exceptions
    BY <1>3 DEF ReadTable, Exceptions
  <2>2. Items(4)' = Append(tables, t)
    <3>1. Items(4)' = Append(Items(4), t)
      BY <1>0, ItemRead
    <3>2. Items(4) = tables
      BY <1>0 DEF InStep, Tracked
    <3>3. QED
      BY <3>1, <3>2
  <2>3. UnknownType'
    <3>1. PICK q \in Seq(RefTypes) : q = tables
      BY <1>1
    <3>2. q \in Seq({"funcref", "i32", "externref"})
      BY DEF RefTypes
    <3>3. /\ Len(q) + 1 \in DOMAIN Append(q, t)
          /\ Append(q, t)[Len(q) + 1] = t
      BY <3>2
    <3>4. QED
      BY <1>3, <2>2, <3>1, <3>3, Zenon DEF UnknownType
  <2>4. QED
    BY <1>0, <2>1, <2>3, RefusedItem DEF RejectsOnlyFlawed, Throw
<1>4. QED
  BY <1>2, <1>3

(* ParseMemoriesSection refuses nothing that decodes.                       *)
LEMMA MemoryRead ==
  ASSUME TypeOK, Faithful, ReadMemory
  PROVE  Faithful'
<1>0. /\ InStep /\ read \in Seq(Sections) /\ Parsing /\ In(5)
      /\ "limits" \in ItemIn(5) /\ SaysItem("limits")
  BY ItemKinds DEF Faithful, ReadMemory, In, Parsing
<1>1. memories \in Seq({"limits"}) /\ Items(5) \in Seq({"limits"})
  BY <1>0, WellTyped DEF InStep, Ordered
<1>2. /\ memories' = Append(memories, "limits") /\ Keep
      /\ UNCHANGED <<signatures, imports, functions, tables, globals,
                     exports, start, ahead>>
  BY DEF ReadMemory
<1>3. /\ read' \in Seq(Sections) /\ Ordered' /\ Coded'
      /\ Items(5)' = Append(Items(5), "limits")
      /\ \A j \in 1..13 : j # 5 => Items(j)' = Items(j)
  BY <1>0, <1>2, EarlyItem
<1>4. /\ Items(1)' = Items(1) /\ Items(2)' = Items(2) /\ Items(3)' = Items(3)
      /\ Items(4)' = Items(4) /\ Items(6)' = Items(6) /\ Items(7)' = Items(7)
      /\ Items(8)' = Items(8)
  BY <1>3
<1>5. Len(Items(5)') = Len(memories')
  <2>1. /\ Len(Append(memories, "limits")) = Len(memories) + 1
        /\ Len(Append(Items(5), "limits")) = Len(Items(5)) + 1
    BY <1>1
  <2>2. QED
    BY <1>0, <1>2, <1>3, <2>1 DEF InStep, Tracked
<1>6. Tracked'
  BY <1>0, <1>2, <1>4, <1>5 DEF InStep, Tracked
<1>7. Checked'
  BY <1>0, <1>2, <1>4 DEF InStep, Checked
<1>8. QED
  BY <1>0, <1>2, <1>3, <1>6, <1>7, Accepts DEF InStep, Keep

(* The end opcode that the global before left unread is an item's.          *)
LEMMA GlobalRead ==
  ASSUME TypeOK, Faithful, NEW ended \in BOOLEAN, ReadGlobal(ended)
  PROVE  Faithful'
<1> DEFINE x == [ended |-> ended]
<1>00. x.ended = ended /\ x \in GlobalItems
  BY DEF GlobalItems
<1> HIDE DEF x
<1>0. /\ InStep /\ read \in Seq(Sections) /\ Parsing /\ In(6)
      /\ x \in ItemIn(6) /\ SaysItem(x) /\ ~ahead
  BY <1>00, ItemKinds DEF Faithful, ReadGlobal, In, Parsing, x
<1>1. globals \in Seq({"global"}) /\ Items(6) \in Seq(GlobalItems)
  BY <1>0, WellTyped DEF InStep, Ordered
<1>2. /\ globals' = Append(globals, "global") /\ Keep /\ ahead' = ended
      /\ UNCHANGED <<signatures, imports, functions, tables, memories,
                     exports, start>>
  BY DEF ReadGlobal
<1>3. /\ read' \in Seq(Sections) /\ Ordered' /\ Coded'
      /\ Items(6)' = Append(Items(6), x)
      /\ \A j \in 1..13 : j # 6 => Items(j)' = Items(j)
  BY <1>0, <1>2, EarlyItem
<1>4. /\ Items(1)' = Items(1) /\ Items(2)' = Items(2) /\ Items(3)' = Items(3)
      /\ Items(4)' = Items(4) /\ Items(5)' = Items(5) /\ Items(7)' = Items(7)
      /\ Items(8)' = Items(8)
  BY <1>3
<1>5. PICK q \in Seq(GlobalItems) : q = Items(6)
  BY <1>1
<1>6. /\ Len(q) \in Nat /\ Len(Append(q, x)) = Len(q) + 1
      /\ \A k \in 1..Len(q) : Append(q, x)[k] = q[k]
      /\ Append(q, x)[Len(q) + 1] = x
  BY <1>00, AppendProperties
<1>7. Items(6)' = Append(q, x)
  BY <1>3, <1>5
<1>8. Len(Items(6)') = Len(globals')
  <2>1. Len(Append(globals, "global")) = Len(globals) + 1
    BY <1>1
  <2>2. QED
    BY <1>0, <1>2, <1>5, <1>6, <1>7, <2>1 DEF InStep, Tracked
<1>9. Tracked'
  BY <1>0, <1>2, <1>4, <1>8 DEF InStep, Tracked
<1>10. ahead' <=> \E k \in 1..Len(Items(6)') : Items(6)'[k].ended
  <2>1. ~\E k \in 1..Len(q) : q[k].ended
    BY <1>0, <1>5, Zenon DEF InStep, Checked
  <2>3. (\E k \in 1..Len(q) + 1 : Append(q, x)[k].ended) => ended
    <3>1. ASSUME NEW k \in 1..Len(q) + 1, Append(q, x)[k].ended
          PROVE  ended
      <4>1. k \in 1..Len(q) \/ k = Len(q) + 1
        BY <1>6
      <4>2. QED
        BY <1>00, <1>6, <2>1, <3>1, <4>1, Zenon
    <3>2. QED
      BY <3>1, Zenon
  <2>4. ended => \E k \in 1..Len(q) + 1 : Append(q, x)[k].ended
    <3>1. Len(q) + 1 \in 1..Len(q) + 1
      BY <1>6
    <3>2. QED
      BY <1>00, <1>6, <3>1, Zenon
  <2>5. QED
    BY <1>2, <1>6, <1>7, <2>3, <2>4, Zenon
<1>11. Checked'
  BY <1>0, <1>2, <1>4, <1>10, Zenon DEF InStep, Checked
<1>12. QED
  BY <1>0, <1>2, <1>3, <1>9, <1>11, Accepts DEF InStep, Keep

(* What the builder knows of a kind is what its section declared.           *)
LEMMA KnownIsDeclared ==
  ASSUME Tracked, NEW kind \in Kinds
  PROVE  Declared(kind) = Known(kind)
<1>1. /\ SectionOf["func"] = 3 /\ SectionOf["table"] = 4
      /\ SectionOf["memory"] = 5 /\ SectionOf["global"] = 6
  BY DEF SectionOf
<1>2. /\ Len(Items(3)) = Len(functions) /\ Len(Items(4)) = Len(tables)
      /\ Len(Items(5)) = Len(memories) /\ Len(Items(6)) = Len(globals)
  BY DEF Tracked
<1>3. CASE kind = "func"
  BY <1>1, <1>2, <1>3 DEF Declared, Known
<1>4. CASE kind = "table"
  BY <1>1, <1>2, <1>4 DEF Declared, Known
<1>5. CASE kind = "memory"
  BY <1>1, <1>2, <1>5 DEF Declared, Known
<1>6. CASE kind = "global"
  BY <1>1, <1>2, <1>6 DEF Declared, Known
<1>7. QED
  BY <1>3, <1>4, <1>5, <1>6 DEF Kinds

(* Declarations precede exports: they stay as they are.                     *)
LEMMA DeclaredStays ==
  ASSUME NEW kind \in Kinds, \A j \in 1..13 : j # 7 => Items(j)' = Items(j)
  PROVE  Declared(kind)' = Declared(kind)
<1>1. /\ SectionOf["func"] = 3 /\ SectionOf["table"] = 4
      /\ SectionOf["memory"] = 5 /\ SectionOf["global"] = 6
  BY DEF SectionOf
<1>2. SectionOf[kind] \in 1..13 /\ SectionOf[kind] # 7
  BY <1>1 DEF Kinds
<1>3. PICK j \in 1..13 : j = SectionOf[kind] /\ j # 7
  BY <1>2
<1>4. Items(j)' = Items(j)
  BY <1>3
<1>5. SectionOf[kind]' = SectionOf[kind]
  BY DEF SectionOf
<1>6. QED
  BY <1>3, <1>4, <1>5 DEF Declared

(* Whatever the kind, the builder knows a number of them.                   *)
LEMMA KnownIsNat ==
  ASSUME TypeOK, NEW kind \in Kinds
  PROVE  Known(kind) \in Nat
<1>1. /\ Len(functions) \in Nat /\ Len(tables) \in Nat
      /\ Len(memories) \in Nat /\ Len(globals) \in Nat
  BY DEF TypeOK
<1>2. QED
  BY <1>1 DEF Known, Kinds

(* Only a name that is not the first is compared with others.               *)
LEMMA ExportRead ==
  ASSUME TypeOK, Faithful, NEW e \in Exports, NEW found \in BOOLEAN,
         ReadExport(e, found)
  PROVE  Faithful'
<1>0. /\ InStep /\ read \in Seq(Sections) /\ Parsing /\ In(7)
      /\ e \in ItemIn(7) /\ SaysItem(e)
  BY ItemKinds DEF Faithful, ReadExport, In, Parsing
<1>1. exports \in Seq(Exports)
  BY DEF TypeOK
<1>2. CASE InRange(e.idx, Known(e.kind)) /\ ~found
  <2>1. /\ exports' = Append(exports, e) /\ Keep
        /\ UNCHANGED <<signatures, imports, functions, tables, memories,
                       globals, start, ahead>>
    BY <1>2 DEF ReadExport
  <2>2. /\ read' \in Seq(Sections) /\ Ordered' /\ Coded'
        /\ Items(7)' = Append(Items(7), e)
        /\ \A j \in 1..13 : j # 7 => Items(j)' = Items(j)
    BY <1>0, <2>1, EarlyItem
  <2>3. /\ Items(1)' = Items(1) /\ Items(2)' = Items(2) /\ Items(3)' = Items(3)
        /\ Items(4)' = Items(4) /\ Items(5)' = Items(5) /\ Items(6)' = Items(6)
        /\ Items(8)' = Items(8)
    BY <2>2
  <2>4. Tracked'
    BY <1>0, <2>1, <2>2, <2>3 DEF InStep, Tracked
  <2>5. Checked'
    BY <1>0, <2>1, <2>3 DEF InStep, Checked
  <2>6. QED
    BY <1>0, <2>1, <2>2, <2>4, <2>5, Accepts DEF InStep, Keep
<1>3. CASE ~(InRange(e.idx, Known(e.kind)) /\ ~found)
  <2>1. Throw("Parse") /\ "Parse" \in Exceptions
    BY <1>3 DEF ReadExport, Exceptions
  <2>2. /\ Items(7)' = Append(exports, e)
        /\ \A j \in 1..13 : j # 7 => Items(j)' = Items(j)
    BY <1>0, ItemRead DEF InStep, Tracked
  <2>3. PICK q \in Seq(Exports) : q = exports
    BY <1>1
  <2>4. /\ Len(q) \in Nat /\ Len(Append(q, e)) = Len(q) + 1
        /\ Len(q) + 1 \in DOMAIN Append(q, e)
        /\ Append(q, e)[Len(q) + 1] = e
    OBVIOUS
  <2>5. CASE found
    <3>1. q # <<>>
      BY <2>3, <2>5 DEF ReadExport, MayFind
    <3>2. Len(Append(q, e)) > 1
      BY <2>4, <3>1
    <3>3. TakenForRepeated'
      BY <1>0, <2>1, <2>2, <2>3, <3>2 DEF TakenForRepeated, Throw, In
    <3>4. QED
      BY <1>0, <2>1, <3>3, RefusedItem DEF RejectsOnlyFlawed, Throw
  <2>6. CASE ~found
    <3>1. e.kind \in Kinds /\ e.idx \in Nat
      BY DEF Exports, Indices
    <3>2. e.idx >= Declared(e.kind)
      <4>1. PICK n \in Nat : n = Known(e.kind)
        BY <3>1, KnownIsNat
      <4>2. ~(e.idx < n)
        BY <1>3, <2>6, <4>1 DEF InRange
      <4>3. e.idx >= n
        BY <3>1, <4>2
      <4>4. Declared(e.kind) = n
        BY <1>0, <3>1, <4>1, KnownIsDeclared DEF InStep
      <4>5. QED
        BY <4>3, <4>4
    <3>3. Declared(e.kind)' = Declared(e.kind)
      BY <2>2, <3>1, DeclaredStays
    <3>4. Unsupported'
      <4>1. Declared(Append(q, e)[Len(q) + 1].kind)' = Declared(e.kind)
        BY <2>4, <3>3
      <4>2. Append(q, e)[Len(q) + 1].idx >=
              Declared(Append(q, e)[Len(q) + 1].kind)'
        BY <2>4, <3>2, <4>1
      <4>3. Items(7)' = Append(q, e)
        BY <2>2, <2>3
      <4>4. QED
        BY <2>4, <4>2, <4>3, Zenon DEF Unsupported
    <3>5. QED
      BY <1>0, <2>1, <3>4, RefusedItem DEF RejectsOnlyFlawed, Throw
  <2>7. QED
    BY <2>5, <2>6
<1>4. QED
  BY <1>2, <1>3

(* The start section: the function has to be a declared one.                *)
LEMMA StartRead ==
  ASSUME TypeOK, Faithful, NEW i \in Indices, ReadStart(i)
  PROVE  Faithful'
<1>0. /\ InStep /\ read \in Seq(Sections) /\ Parsing /\ In(8)
      /\ i \in ItemIn(8) /\ SaysItem(i)
  BY ItemKinds DEF Faithful, ReadStart, In, Parsing
<1>1. /\ functions \in Seq(Functions) /\ Items(8) \in Seq(Indices)
      /\ Indices \subseteq Nat
  BY <1>0, WellTyped DEF InStep, Ordered
<1>2. PICK q \in Seq(Indices) : q = Items(8)
  BY <1>1
<1>3. /\ Len(q) \in Nat /\ Len(Append(q, i)) = Len(q) + 1
      /\ Len(q) + 1 \in DOMAIN Append(q, i)
      /\ \A k \in 1..Len(q) : Append(q, i)[k] = q[k]
      /\ Append(q, i)[Len(q) + 1] = i
  BY AppendProperties
<1>4. CASE InRange(i, Len(functions))
  <2>1. /\ start' = {i} /\ Keep
        /\ UNCHANGED <<signatures, imports, functions, tables, memories,
                       globals, exports, ahead>>
    BY <1>4 DEF ReadStart
  <2>2. /\ read' \in Seq(Sections) /\ Ordered' /\ Coded'
        /\ Items(8)' = Append(Items(8), i)
        /\ \A j \in 1..13 : j # 8 => Items(j)' = Items(j)
    BY <1>0, <2>1, EarlyItem
  <2>3. /\ Items(1)' = Items(1) /\ Items(2)' = Items(2) /\ Items(3)' = Items(3)
        /\ Items(4)' = Items(4) /\ Items(5)' = Items(5) /\ Items(6)' = Items(6)
        /\ Items(7)' = Items(7)
    BY <2>2
  <2>4. Tracked'
    BY <1>0, <2>1, <2>3 DEF InStep, Tracked
  <2>5. Checked'
    <3>1. ASSUME NEW k \in 1..Len(Append(q, i))
          PROVE  Append(q, i)[k] < Len(functions)
      <4>1. CASE k = Len(q) + 1
        BY <1>3, <1>4, <4>1 DEF InRange
      <4>2. CASE k # Len(q) + 1
        <5>1. k \in 1..Len(q)
          BY <1>3, <4>2
        <5>2. q[k] < Len(functions)
          BY <1>0, <1>2, <5>1 DEF InStep, Checked
        <5>3. QED
          BY <1>3, <5>1, <5>2
      <4>3. QED
        BY <4>1, <4>2
    <3>2. Items(8)' = Append(q, i)
      BY <1>2, <2>2
    <3>3. QED
      BY <1>0, <2>1, <2>3, <3>1, <3>2 DEF InStep, Checked
  <2>6. QED
    BY <1>0, <2>1, <2>2, <2>4, <2>5, Accepts DEF InStep, Keep
<1>5. CASE ~InRange(i, Len(functions))
  <2>1. Throw("Parse") /\ "Parse" \in Exceptions
    BY <1>5 DEF ReadStart, Exceptions
  <2>2. Items(8)' = Append(q, i) /\ Items(3)' = Items(3)
    BY <1>0, <1>2, ItemRead
  <2>3. i >= Declared("func")'
    <3>1. PICK n \in Nat : n = Len(functions)
      BY <1>1
    <3>2. i >= n
      BY <1>1, <1>5, <3>1 DEF InRange
    <3>3. Declared("func")' = n
      BY <1>0, <2>2, <3>1 DEF InStep, Tracked, Declared, SectionOf
    <3>4. QED
      BY <3>2, <3>3
  <2>4. Unsupported'
    BY <1>3, <2>2, <2>3, Zenon DEF Unsupported
  <2>5. QED
    BY <1>0, <2>1, <2>4, RefusedItem DEF RejectsOnlyFlawed, Throw
<1>6. QED
  BY <1>4, <1>5

(* What is wrong with a code item, for the type its function has, by the    *)
(* exception it causes.                                                     *)
Wrong(e, sig, c) ==
  CASE e = "ModuleTooLarge" -> Len(LocalsOf(c.groups)) > MaxLocals
    [] e = "Validation"     -> ~Valid(sig, LocalsOf(c.groups), c)
    [] e = "Parse"          -> ~c.sized
CodeErrors == {"ModuleTooLarge", "Validation", "Parse"}

(* What is wrong with the code, code item by code item.                     *)
LEMMA InvalidCodeIs ==
  /\ \A k \in DOMAIN Items(10)' :
       /\ Wrong("ModuleTooLarge", TypeOf(k)', Items(10)'[k]) => TooManyLocals'
       /\ Wrong("Validation", TypeOf(k)', Items(10)'[k]) => IllTyped'
       /\ Wrong("Parse", TypeOf(k)', Items(10)'[k]) => Missized'
  /\ InvalidCode => \E k \in DOMAIN Items(10), e \in CodeErrors :
                      Wrong(e, TypeOf(k), Items(10)[k])
<1>0. /\ \A sig, c : Wrong("ModuleTooLarge", sig, c) <=>
                       Len(LocalsOf(c.groups)) > MaxLocals
      /\ \A sig, c : Wrong("Validation", sig, c) <=>
                       ~Valid(sig, LocalsOf(c.groups), c)
      /\ \A sig, c : Wrong("Parse", sig, c) <=> ~c.sized
  BY DEF Wrong
<1>1. /\ "ModuleTooLarge" \in CodeErrors /\ "Validation" \in CodeErrors
      /\ "Parse" \in CodeErrors
  BY DEF CodeErrors
<1> QED
  BY <1>0, <1>1, Zenon DEF InvalidCode, TooManyLocals, IllTyped, Missized

(* ParseOneCode's verdict on an item, seen from what is wrong with it.      *)
LEMMA CodeErrorIs ==
  ASSUME NEW c \in Codes, NEW sig, sig = functions[Index].signature
  PROVE  /\ CodeError(c) = "none" => /\ Len(LocalsOf(c.groups)) <= MaxLocals
                                     /\ Valid(sig, LocalsOf(c.groups), c)
                                     /\ c.sized
         /\ CodeError(c) # "none" => /\ CodeError(c) \in CodeErrors
                                     /\ Wrong(CodeError(c), sig, c)
<1>0. LocalsOf(c.groups) \in Seq(ValTypes)
  BY CodesAssumption
<1>1. PICK n \in Nat : n = Len(LocalsOf(c.groups))
  BY <1>0
<1>2. n > MaxLocals <=> ~(n <= MaxLocals)
  OBVIOUS
<1>3. PICK valid \in BOOLEAN : valid <=> Valid(sig, LocalsOf(c.groups), c)
  OBVIOUS
<1>4. CodeError(c) = IF n > MaxLocals THEN "ModuleTooLarge"
                     ELSE IF ~valid THEN "Validation"
                     ELSE IF ~c.sized THEN "Parse" ELSE "none"
  BY <1>1, <1>3, Zenon DEF CodeError
<1>5. /\ Wrong("ModuleTooLarge", sig, c) <=> n > MaxLocals
      /\ Wrong("Validation", sig, c) <=> ~valid
      /\ Wrong("Parse", sig, c) <=> ~c.sized
  BY <1>1, <1>3 DEF Wrong
<1>6. CASE n > MaxLocals
  BY <1>4, <1>5, <1>6 DEF CodeErrors
<1>7. CASE ~(n > MaxLocals) /\ ~valid
  BY <1>4, <1>5, <1>7 DEF CodeErrors
<1>8. CASE ~(n > MaxLocals) /\ valid /\ ~c.sized
  BY <1>4, <1>5, <1>8 DEF CodeErrors
<1>9. CASE ~(n > MaxLocals) /\ valid /\ c.sized
  BY <1>1, <1>2, <1>3, <1>4, <1>9
<1> QED
  BY <1>6, <1>7, <1>8, <1>9

(* The loop is at the function that comes next: code items and functions    *)
(* are counted alike.                                                       *)
LEMMA AtIndex ==
  ASSUME TypeOK, read \in Seq(Sections), InStep, In(10)
  PROVE  /\ Has(10) /\ Index = Len(Items(10)) + 1
         /\ Index \in 1..Len(functions)
         /\ Len(Items(10)) + left = Len(functions)
         /\ Len(Items(10)) \in Nat /\ left \in Nat /\ left > 0
         /\ Len(functions) \in Nat
<1>1. /\ Len(functions) \in Nat /\ Len(Items(10)) \in Nat /\ left \in Nat
  <2>1. /\ functions \in Seq(Functions) /\ Items(10) \in Seq(Codes)
        /\ left \in Nat
    BY WellTyped DEF InStep, Ordered
  <2>2. QED
    BY <2>1, LenProperties
<1>2. Has(10)
  <2>1. Len(read) \in DOMAIN read /\ read[Len(read)].id = 10
    BY DEF InStep, Ordered, In
  <2>2. QED
    BY <2>1 DEF Has
<1>3. Len(Items(10)) + left = Len(functions)
  BY <1>2 DEF InStep, Coded
<1>4. left > 0
  BY DEF In
<1>5. QED
  BY <1>1, <1>2, <1>3, <1>4 DEF Index

(* A code item completes one function and leaves the others.                *)
LEMMA FunctionReplaced ==
  ASSUME NEW f \in Seq(Functions), NEW k \in 1..Len(f), NEW x \in Functions
  PROVE  /\ Len([f EXCEPT ![k] = x]) = Len(f)
         /\ \A i \in 1..Len(f) :
              [f EXCEPT ![k] = x][i] = IF i = k THEN x ELSE f[i]
  BY ExceptSeq

(* ParseCodeSection: the item is validated for, and kept with, the function *)
(* at its position.                                                         *)
LEMMA CodeItemRead ==
  ASSUME TypeOK, Faithful, NEW c \in Codes, ReadCode(c)
  PROVE  Faithful'
<1>0. /\ InStep /\ read \in Seq(Sections) /\ Parsing /\ In(10)
      /\ c \in ItemIn(10) /\ SaysItem(c)
  BY ItemKinds DEF Faithful, ReadCode, In, Parsing
<1>1. /\ functions \in Seq(Functions) /\ Items(10) \in Seq(Codes)
  BY <1>0, WellTyped DEF InStep, Ordered
<1>2. /\ Has(10) /\ Index = Len(Items(10)) + 1
      /\ Index \in 1..Len(functions)
      /\ Len(Items(10)) + left = Len(functions)
      /\ Len(Items(10)) \in Nat /\ left \in Nat /\ left > 0
      /\ Len(functions) \in Nat
  BY <1>0, AtIndex
<1>3. PICK q \in Seq(Codes) : q = Items(10)
  BY <1>1
<1>4. /\ Len(q) \in Nat /\ Len(Append(q, c)) = Len(q) + 1
      /\ Len(q) + 1 \in DOMAIN Append(q, c)
      /\ \A k \in 1..Len(q) : Append(q, c)[k] = q[k]
      /\ Append(q, c)[Len(q) + 1] = c
  BY AppendProperties
<1>4a. /\ Index = Len(q) + 1 /\ Len(q) + left = Len(functions)
  BY <1>2, <1>3
<1>5. /\ read' \in Seq(Sections) /\ Ascending(read')
      /\ Len(read') = Len(read)
      /\ \A i \in 1..Len(read) : /\ read'[i].id = read[i].id
                                 /\ read'[i].count = read[i].count
      /\ Items(10)' = Append(q, c)
      /\ \A j \in 1..13 : j # 10 => Items(j)' = Items(j)
      /\ Has(10)' <=> Has(10)
  <2>1. 10 \in 1..13
    OBVIOUS
  <2>2. QED
    BY <1>0, <1>3, <2>1, ItemRead
<1>6. /\ Items(1)' = Items(1) /\ Items(2)' = Items(2) /\ Items(3)' = Items(3)
      /\ Items(4)' = Items(4) /\ Items(5)' = Items(5) /\ Items(6)' = Items(6)
      /\ Items(7)' = Items(7) /\ Items(8)' = Items(8)
  BY <1>5
<1> DEFINE sig == functions[Index].signature
<1>7. CASE CodeError(c) = "none"
  <2> DEFINE x == [functions[Index] EXCEPT !.locals = LocalsOf(c.groups),
                                           !.body = {c}]
  <2>1. /\ functions' = [functions EXCEPT ![Index] = x] /\ Keep
        /\ UNCHANGED <<signatures, imports, tables, memories, globals,
                       exports, start, ahead>>
    BY <1>7 DEF ReadCode
  <2>2. functions[Index] \in Functions
    BY <1>1, <1>2, ElementOfSeq
  <2>3. /\ x.signature = sig /\ x.body = {c} /\ x.locals = LocalsOf(c.groups)
        /\ x \in Functions
    BY <2>2, CodesAssumption DEF Functions
  <2> HIDE DEF x, sig
  <2>4. /\ Len(functions') = Len(functions)
        /\ \A k \in 1..Len(functions) :
             functions'[k] = IF k = Index THEN x ELSE functions[k]
    <3>1. /\ Len([functions EXCEPT ![Index] = x]) = Len(functions)
          /\ \A k \in 1..Len(functions) :
               [functions EXCEPT ![Index] = x][k] =
                 IF k = Index THEN x ELSE functions[k]
      BY <1>1, <1>2, <2>3, FunctionReplaced
    <3>2. QED
      BY <2>1, <3>1
  <2>5. /\ Len(LocalsOf(c.groups)) <= MaxLocals
        /\ Valid(sig, LocalsOf(c.groups), c)
        /\ c.sized
    BY <1>7, CodeErrorIs DEF sig
  <2>6. HasCode(x, c)
    BY <2>3, <2>5, Zenon DEF HasCode
  <2>7. Ordered'
    BY <1>0, <1>2, <1>5, <2>1, <2>4, OrderedStays DEF InStep, Keep
  <2>8. Tracked'
    <3>1. ASSUME NEW k \in 1..Len(functions)
          PROVE  functions'[k].signature = functions[k].signature
      BY <2>3, <2>4 DEF sig
    <3>2. ASSUME NEW k \in 1..Len(functions')
          PROVE  /\ Items(3)[k] < Len(signatures)
                 /\ functions'[k].signature = signatures[Items(3)[k] + 1]
      BY <1>0, <2>4, <3>1 DEF InStep, Tracked
    <3>3. QED
      BY <1>0, <1>6, <2>1, <2>4, <3>2 DEF InStep, Tracked
  <2>9. Checked'
    BY <1>0, <1>6, <2>1, <2>4 DEF InStep, Checked
  <2>10. Coded'
    <3>1. Len(Append(q, c)) + left' = Len(functions')
      <4>1. left' = left - 1 /\ left \in Nat /\ Len(q) \in Nat
        BY <1>2, <1>4, <2>1 DEF Keep
      <4>2. Len(Append(q, c)) + left' = Len(q) + left
        BY <1>4, <4>1
      <4>3. QED
        BY <1>4a, <2>4, <4>2
    <3>2. ASSUME NEW k \in 1..Len(Append(q, c))
          PROVE  HasCode(functions'[k], Append(q, c)[k])
      <4>1. k \in 1..Len(functions)
        <5>1. PICK n \in Nat : n = Len(q)
          BY <1>4
        <5>2. PICK m \in Nat : m = left
          BY <1>2
        <5>3. Len(functions) = n + m /\ m > 0 /\ k \in 1..n + 1
          BY <1>2, <1>4, <1>4a, <5>1, <5>2
        <5>4. QED
          BY <5>3
      <4>2. CASE k = Index
        BY <1>4, <1>4a, <2>4, <2>6, <4>1, <4>2
      <4>3. CASE k # Index
        <5>1. k \in 1..Len(q) /\ functions'[k] = functions[k]
          BY <1>4, <1>4a, <2>4, <4>1, <4>3
        <5>2. HasCode(functions[k], q[k])
          BY <1>0, <1>3, <5>1 DEF InStep, Coded
        <5>3. QED
          BY <1>4, <5>1, <5>2
      <4>4. QED
        BY <4>2, <4>3
    <3>3. QED
      BY <1>5, <3>1, <3>2, Zenon DEF Coded
  <2>11. QED
    BY <1>0, <1>5, <2>1, <2>7, <2>8, <2>9, <2>10, Accepts DEF InStep, Keep
<1>8. CASE CodeError(c) # "none"
  <2>1. Throw(CodeError(c)) /\ CodeError(c) \in Exceptions
    <3>1. CodeError(c) \in Exceptions
      BY <1>8 DEF CodeError, Exceptions
    <3>2. QED
      BY <1>8, <3>1 DEF ReadCode
  <2>2. PICK e \in CodeErrors : e = CodeError(c) /\ Wrong(e, sig, c)
    BY <1>8, CodeErrorIs
  <2>3. TypeOf(Len(q) + 1)' = sig
    <3>1. sig = signatures[Items(3)[Index] + 1]
      BY <1>0, <1>2 DEF InStep, Tracked
    <3>2. TypeOf(Len(q) + 1)' = Items(1)'[Items(3)'[Len(q) + 1] + 1]
      BY DEF TypeOf
    <3>3. Items(1)' = signatures /\ Items(3)' = Items(3)
      BY <1>0, <1>6 DEF InStep, Tracked
    <3>4. QED
      BY <1>4a, <3>1, <3>2, <3>3
  <2> HIDE DEF sig
  <2>4. PICK k \in DOMAIN Items(10)' : Wrong(e, TypeOf(k)', Items(10)'[k])
    BY <1>4, <1>5, <2>2, <2>3, Zenon
  <2>5. /\ e = "ModuleTooLarge" => TooManyLocals'
        /\ e = "Validation" => IllTyped'
        /\ e = "Parse" => Missized'
    BY <2>4, InvalidCodeIs, Zenon
  <2>6. thrown' = e
    BY <2>1, <2>2 DEF Throw
  <2>7. RejectsOnlyFlawed'
    BY <2>5, <2>6 DEF RejectsOnlyFlawed
  <2>8. QED
    BY <1>0, <2>1, <2>7, RefusedItem
<1>9. QED
  BY <1>7, <1>8

(* A section head comes after what was read, right or wrong.                *)
LEMMA HeadRead ==
  ASSUME read \in Seq(Sections), NEW id \in 0..13, NEW n \in 0..MaxSize,
         SaysSection(id, n)
  PROVE  /\ read' \in Seq(Sections) /\ read' = SectionAppended(read, id, n)
         /\ Len(read) \in Nat /\ Len(read') = Len(read) + 1
         /\ DOMAIN read' = 1..Len(read) + 1
         /\ \A i \in 1..Len(read) : read'[i] = read[i]
         /\ read'[Len(read) + 1].id = id /\ read'[Len(read) + 1].count = n
<1> DEFINE s == [id |-> id, count |-> n, items |-> <<>>]
<1>1. s \in Sections
  BY SectionMade, EmptySeq
<1>2. s.id = id /\ s.count = n
  OBVIOUS
<1> HIDE DEF s
<1>3. read' = Append(read, s)
  BY DEF SaysSection, s
<1>4. /\ Append(read, s) \in Seq(Sections)
      /\ Len(Append(read, s)) = Len(read) + 1 /\ Len(read) \in Nat
      /\ \A i \in 1..Len(read) : Append(read, s)[i] = read[i]
      /\ Append(read, s)[Len(read) + 1] = s
  BY <1>1, AppendProperties
<1>5. DOMAIN Append(read, s) = 1..Len(read) + 1
  BY <1>4
<1>6. read' = SectionAppended(read, id, n)
  BY <1>3 DEF s, SectionAppended
<1>7. QED
  BY <1>2, <1>3, <1>4, <1>5, <1>6

(* A head is refused only for what the bytes say is wrong.                  *)
LEMMA HeadRefused ==
  ASSUME TypeOK, read \in Seq(Sections), InStep,
         NEW id \in 0..13, NEW n \in 0..MaxSize, SaysSection(id, n),
         UNCHANGED functions
  PROVE  /\ ~InOrder(id) => Misordered'
         /\ id \notin (0..8) \cup {10} => Unsupported'
         /\ SizeError(id, n) = "ModuleTooLarge" => Oversized'
         /\ InOrder(id) /\ SizeError(id, n) = "Parse" => Miscounted'
<1>1. /\ Len(read) \in Nat /\ Len(read') = Len(read) + 1
      /\ DOMAIN read' = 1..Len(read) + 1
      /\ \A i \in 1..Len(read) : read'[i] = read[i]
      /\ read'[Len(read) + 1].id = id /\ read'[Len(read) + 1].count = n
      /\ read' = SectionAppended(read, id, n)
  BY HeadRead
<1> DEFINE j == Len(read) + 1
<1>2. j \in DOMAIN read'
  BY <1>1
<1>3. ASSUME ~InOrder(id) PROVE Misordered'
  <2>1. id # 0 /\ ~(id > latest) /\ latest \in Nat
    BY <1>3 DEF InOrder, TypeOK
  <2>2. latest # 0 /\ id <= latest
    BY <2>1
  <2>3. PICK i \in 1..Len(read) : read[i].id = latest
    BY <2>2 DEF InStep, Ordered
  <2>4. /\ i \in DOMAIN read' /\ i < j
        /\ read'[i].id # 0 /\ read'[j].id # 0 /\ read'[j].id <= read'[i].id
    BY <1>1, <2>1, <2>2, <2>3
  <2>5. QED
    BY <1>2, <2>4 DEF Misordered
<1>4. ASSUME id \notin (0..8) \cup {10} PROVE Unsupported'
  <2>1. QED
    BY <1>1, <1>2, <1>4, Zenon DEF Unsupported
<1>5. ASSUME TooLarge(id, n) PROVE Oversized'
  <2>1. /\ read'[j].id \in 1..7
        /\ read'[j].count > Limit[read'[j].id]
    BY <1>1, <1>5 DEF TooLarge
  <2>2. QED
    BY <1>2, <2>1, Zenon DEF Oversized
<1>6. ASSUME InOrder(id) /\ id = 10 /\ n # Len(functions) PROVE Miscounted'
  <2>1. \A i \in 1..Len(read) : id = 0 \/ read[i].id < id
    <3>1. latest < id /\ latest \in Nat
      BY <1>6 DEF InOrder, TypeOK
    <3>2. ASSUME NEW i \in 1..Len(read) PROVE read[i].id < id
      <4>1. read[i].id \in 0..13
        BY SectionFields, ElementOfSeq
      <4>2. read[i].id <= latest
        BY DEF InStep, Ordered
      <4>3. PICK x \in 0..13 : x = read[i].id
        BY <4>1
      <4>4. x < id
        BY <3>1, <4>2, <4>3
      <4>5. QED
        BY <4>3, <4>4
    <3>3. QED
      BY <3>2
  <2>2. Items(3)' = Items(3)
    <3>1. Ascending(read)
      BY DEF InStep, Ordered
    <3>2. \A k \in 1..13 : ItemsOf(read', k) = ItemsOf(read, k)
      <4>1. LET q == SectionAppended(read, id, n) IN
              /\ q \in Seq(Sections) /\ Ascending(q)
              /\ \A k \in 1..13 : ItemsOf(q, k) = ItemsOf(read, k)
        BY <2>1, <3>1, SectionSaid
      <4>2. QED
        BY <1>1, <4>1
    <3>3. ItemsOf(read', 3) = ItemsOf(read, 3)
      BY <3>2
    <3>4. QED
      BY <3>3, ItemsAre
  <2>3. Declared("func")' = Len(functions)
    BY <2>2 DEF Declared, SectionOf, InStep, Tracked
  <2>4. QED
    <3>1. read'[j].id = 10 /\ read'[j].count # Declared("func")'
      BY <1>1, <1>6, <2>3
    <3>2. QED
      BY <1>2, <3>1, Zenon DEF Miscounted
<1>7. SizeError(id, n) = "ModuleTooLarge" => TooLarge(id, n)
  BY DEF SizeError
<1>8. SizeError(id, n) = "Parse" => id = 10 /\ n # Len(functions)
  BY DEF SizeError
<1>9. QED
  BY <1>3, <1>4, <1>5, <1>6, <1>7, <1>8

(* What Section does if it opens one.                                       *)
Taken(id, n) ==
  /\ id \in (0..8) \cup {10} /\ (id = 0 => n = 0)
  /\ InOrder(id) /\ latest' = Latest(id)
  /\ SizeError(id, n) = "none" /\ left = 0
  /\ section' = id /\ left' = n
  /\ UNCHANGED <<vectors, ahead>>

(* The sections stay in order when one is opened.                           *)
LEMMA HeadAccepted ==
  ASSUME TypeOK, Parsing, read \in Seq(Sections), InStep,
         NEW id \in 0..13, NEW n \in 0..MaxSize,
         SaysSection(id, n), Taken(id, n), UNCHANGED <<thrown, parsed>>
  PROVE  Faithful'
<1>0. id \in Nat /\ latest \in Nat /\ n \in Nat
  <2>1. id \in Nat /\ n \in Nat
    OBVIOUS
  <2>2. latest \in 0..13
    BY DEF TypeOK
  <2>3. QED
    BY <2>1, <2>2
<1>1. /\ Len(read) \in Nat /\ Len(read') = Len(read) + 1
      /\ DOMAIN read' = 1..Len(read) + 1
      /\ \A i \in 1..Len(read) : read'[i] = read[i]
      /\ read'[Len(read) + 1].id = id /\ read'[Len(read) + 1].count = n
      /\ read' = SectionAppended(read, id, n)
  BY <1>0, HeadRead
<1>2. /\ id # 0 => latest < id /\ latest' = id
      /\ id = 0 => latest' = latest
      /\ latest <= latest'
  <2>1. /\ id # 0 => latest < id /\ latest' = id
        /\ id = 0 => latest' = latest
    BY <1>0 DEF Taken, InOrder, Latest
  <2>2. QED
    BY <1>0, <2>1
<1>3. ASSUME NEW i \in 1..Len(read)
      PROVE  /\ read[i].id \in 0..13 /\ read[i].id <= latest
             /\ read[i].id <= latest' /\ (id = 0 \/ read[i].id < id)
  <2>1. read[i].id \in 0..13
    BY SectionFields, ElementOfSeq
  <2>2. read[i].id <= latest
    BY DEF InStep, Ordered
  <2>3. PICK x \in 0..13 : x = read[i].id
    BY <2>1
  <2>4. latest' \in Nat
    BY <1>0, <1>2
  <2>5. x <= latest
    BY <2>2, <2>3
  <2>5a. x <= latest'
    BY <1>0, <1>2, <2>3, <2>4, <2>5
  <2>6. id = 0 \/ x < id
    BY <1>0, <1>2, <2>3, <2>5
  <2>7. QED
    BY <2>2, <2>3, <2>5a, <2>6
<1>4. /\ read' \in Seq(Sections) /\ Ascending(read')
      /\ \A k \in 1..13 : ItemsOf(read', k) = ItemsOf(read, k)
  <2>1. Ascending(read)
    BY DEF InStep, Ordered
  <2>2. QED
    <3>1. \A i \in 1..Len(read) : id = 0 \/ read[i].id < id
      BY <1>3, Zenon
    <3>2. LET q == SectionAppended(read, id, n) IN
            /\ q \in Seq(Sections) /\ Ascending(q)
            /\ \A k \in 1..13 : ItemsOf(q, k) = ItemsOf(read, k)
      BY <2>1, <3>1, SectionSaid
    <3>3. QED
      BY <1>1, <3>2
<1>5. \A k \in 1..13 : Items(k)' = Items(k)
  BY <1>4, ItemsAre
<1>6. /\ Items(1)' = Items(1) /\ Items(2)' = Items(2) /\ Items(3)' = Items(3)
      /\ Items(4)' = Items(4) /\ Items(5)' = Items(5) /\ Items(6)' = Items(6)
      /\ Items(7)' = Items(7) /\ Items(8)' = Items(8) /\ Items(10)' = Items(10)
  BY <1>5
<1>7. /\ id \in 1..7 => n <= Limit[id]
      /\ id = 10 => n = Len(functions)
  <2>1. ~TooLarge(id, n) /\ (id = 10 => n = Len(functions))
    BY DEF Taken, SizeError
  <2>2. ASSUME id \in 1..7 PROVE n <= Limit[id]
    <3>1. Limit[id] \in Nat
      BY <2>2, LimitAssumption
    <3>2. ~(n > Limit[id])
      BY <2>1, <2>2 DEF TooLarge
    <3>3. QED
      BY <1>0, <3>1, <3>2
  <2>3. QED
    BY <2>1, <2>2
<1>8. Ordered'
  <2>1. ASSUME NEW i \in 1..Len(read')
        PROVE  /\ read'[i].id <= latest'
               /\ read'[i].id \in (0..8) \cup {10}
               /\ read'[i].id \in 1..7 => read'[i].count <= Limit[read'[i].id]
               /\ read'[i].id = 10 => read'[i].count = Len(functions)
    <3>1. CASE i = Len(read) + 1
      <4>1. read'[i].id = id /\ read'[i].count = n
        BY <1>1, <3>1
      <4>2. id <= latest' /\ id \in (0..8) \cup {10}
        BY <1>0, <1>2 DEF Taken
      <4>3. QED
        BY <1>7, <4>1, <4>2
    <3>2. CASE i # Len(read) + 1
      <4>1. i \in 1..Len(read) /\ read'[i] = read[i]
        BY <1>1, <3>2
      <4>2. QED
        BY <1>3, <4>1 DEF InStep, Ordered
    <3>3. QED
      BY <3>1, <3>2
  <2>2. latest' # 0 => \E i \in 1..Len(read') : read'[i].id = latest'
    <3>1. CASE id = 0
      <4>1. ASSUME latest # 0
            PROVE  \E i \in 1..Len(read') : read'[i].id = latest
        <5>1. PICK i \in 1..Len(read) : read[i].id = latest
          BY <4>1 DEF InStep, Ordered
        <5>2. i \in 1..Len(read') /\ read'[i].id = latest
          BY <1>1, <5>1
        <5>3. QED
          BY <5>2
      <4>2. QED
        BY <1>2, <3>1, <4>1
    <3>2. CASE id # 0
      <4>1. Len(read) + 1 \in 1..Len(read')
        BY <1>1
      <4>2. QED
        BY <1>1, <1>2, <3>2, <4>1
    <3>3. QED
      BY <3>1, <3>2
  <2>3. left' > 0 => /\ section' = latest' /\ section' # 0
                     /\ Len(read') > 0 /\ read'[Len(read')].id = section'
    BY <1>0, <1>1, <1>2 DEF Taken
  <2>4. UNCHANGED functions
    BY DEF Taken, vectors
  <2>5. QED
    BY <1>4, <2>1, <2>2, <2>3, <2>4 DEF Ordered
<1>9. Tracked'
  BY <1>6 DEF InStep, Tracked, Taken, vectors
<1>10. Checked'
  <2>1. UNCHANGED <<signatures, imports, functions, ahead>>
    BY DEF Taken, vectors
  <2>2. QED
    BY <1>6, <2>1 DEF InStep, Checked
<1>11. Coded'
  <2>1. UNCHANGED functions /\ left' = n /\ left = 0 /\ (id = 0 => n = 0)
    BY DEF Taken, vectors
  <2>2. Has(10)' => Len(Items(10)') + left' = Len(functions')
    <3>1. CASE id = 10
      <4>1. latest < 10
        BY <1>2, <3>1
      <4>2. Items(10) = <<>>
        BY <4>1, NoCodeYet DEF InStep
      <4>3. QED
        BY <1>0, <1>6, <1>7, <2>1, <3>1, <4>2
    <3>2. CASE id # 10
      <4>1. ASSUME Has(10)' PROVE Has(10)
        <5>1. PICK i \in 1..Len(read) + 1 : read'[i].id = 10
          BY <1>1, <4>1 DEF Has
        <5>2. i \in 1..Len(read)
          BY <1>1, <3>2, <5>1
        <5>3. QED
          BY <1>1, <5>1, <5>2 DEF Has
      <4>2. ASSUME Has(10) PROVE left' = left
        <5>1. PICK i \in 1..Len(read) : read[i].id = 10
          BY <4>2 DEF Has
        <5>2. id = 0
          <6>1. id = 0 \/ 10 < id
            BY <1>3, <5>1, Zenon
          <6>2. QED
            BY <1>0, <6>1 DEF Taken
        <5>3. QED
          BY <2>1, <5>2
      <4>3. Has(10) => Len(Items(10)) + left = Len(functions)
        BY DEF InStep, Coded
      <4>4. QED
        BY <1>6, <2>1, <4>1, <4>2, <4>3
    <3>3. QED
      BY <3>1, <3>2
  <2>3. QED
    BY <1>6, <2>1, <2>2 DEF InStep, Coded
<1>12. QED
  BY <1>4, <1>8, <1>9, <1>10, <1>11, Accepts DEF InStep

(* ParseOneSection, whichever way it goes.                                  *)
LEMMA SectionRead ==
  ASSUME TypeOK, Faithful, NEW id \in 0..13, NEW n \in 0..MaxSize,
         Section(id, n)
  PROVE  Faithful'
<1>0. /\ InStep /\ read \in Seq(Sections) /\ Parsing /\ left = 0
      /\ SaysSection(id, n)
      /\ id \notin (1..8) \cup {10} => n = 0
      /\ IF InOrder(id) THEN latest' = Latest(id) ELSE UNCHANGED latest
  BY DEF Faithful, Section, Between, Parsing
<1>1. read' \in Seq(Sections)
  BY <1>0, HeadRead
<1>2. CASE ~InOrder(id) \/ id \notin (0..8) \cup {10}
  <2>1. Throw("Parse") /\ "Parse" \in Exceptions
    BY <1>2 DEF Section, Exceptions
  <2>2. Misordered' \/ Unsupported'
    BY <1>0, <1>2, <2>1, HeadRefused DEF Throw, vectors
  <2>3. RejectsOnlyFlawed'
    BY <2>1, <2>2 DEF RejectsOnlyFlawed, Throw
  <2>4. QED
    BY <1>0, <1>1, <2>1, <2>3, Rejects DEF Throw
<1>3. CASE /\ InOrder(id) /\ id \in (0..8) \cup {10}
           /\ SizeError(id, n) # "none"
  <2>1. Throw(SizeError(id, n)) /\ SizeError(id, n) \in Exceptions
    BY <1>3 DEF Section, Exceptions, SizeError
  <2>2. /\ SizeError(id, n) = "ModuleTooLarge" => Oversized'
        /\ SizeError(id, n) = "Parse" => Miscounted'
    BY <1>0, <1>3, <2>1, HeadRefused DEF Throw, vectors
  <2>3. SizeError(id, n) \in {"ModuleTooLarge", "Parse"}
    BY <1>3 DEF SizeError
  <2>4. RejectsOnlyFlawed'
    BY <2>1, <2>2, <2>3 DEF RejectsOnlyFlawed, Throw
  <2>5. QED
    BY <1>0, <1>1, <2>1, <2>4, Rejects DEF Throw
<1>4. CASE /\ InOrder(id) /\ id \in (0..8) \cup {10}
           /\ SizeError(id, n) = "none"
  <2>1. /\ section' = id /\ left' = n
        /\ UNCHANGED <<vectors, ahead, thrown, parsed>>
    BY <1>4 DEF Section
  <2>2. id = 0 => n = 0
    BY <1>0
  <2>3. QED
    BY <1>0, <1>4, <2>1, <2>2, HeadAccepted DEF Taken
<1>5. QED
  BY <1>2, <1>3, <1>4

(* What is left alone stays in step.                                        *)
LEMMA InStepStays ==
  ASSUME InStep, UNCHANGED <<latest, vectors, section, left, ahead, read>>
  PROVE  InStep'
<1>1. UNCHANGED <<signatures, imports, functions, tables, memories, globals,
                  exports>>
  BY DEF vectors
<1>2. \A j : Items(j)' = Items(j)
  BY ItemsAre
<1>3. Ordered'
  BY <1>1 DEF InStep, Ordered, Ascending
<1>4. Tracked'
  BY <1>1, <1>2 DEF InStep, Tracked
<1>5. Checked'
  BY <1>1, <1>2 DEF InStep, Checked
<1>6. Coded'
  BY <1>1, <1>2 DEF InStep, Coded, Has
<1>7. QED
  BY <1>3, <1>4, <1>5, <1>6 DEF InStep

(* Build depends on the builder's vectors only.                             *)
LEMMA ResultStays ==
  ASSUME UNCHANGED vectors
  PROVE  Result' = Result
<1>1. UNCHANGED <<functions, exports>>
  BY DEF vectors
<1>2. FunctionExports' = FunctionExports
  BY <1>1 DEF FunctionExports
<1>3. \A name : FirstExport(name)' = FirstExport(name)
  BY <1>1, <1>2 DEF FirstExport
<1>4. QED
  BY <1>1, <1>2, <1>3 DEF Result

(* The reasons for an exception depend on the bytes, and on where it was.   *)
LEMMA FlawsStay ==
  ASSUME UNCHANGED <<read, section, left, thrown>>
  PROVE  RejectsOnlyFlawed' <=> RejectsOnlyFlawed
<1>1. \A j : Items(j)' = Items(j)
  BY ItemsAre
<1>2. \A kind : Declared(kind)' = Declared(kind)
  BY <1>1 DEF Declared, SectionOf
<1>3. \A kind : Imported(kind)' = Imported(kind)
  BY <1>1 DEF Imported
<1>4. \A kind : Space(kind)' = Space(kind)
  BY <1>2, <1>3 DEF Space
<1>5. \A k : TypeOf(k)' = TypeOf(k)
  BY <1>1 DEF TypeOf
<1>6. /\ Misordered' <=> Misordered
      /\ TakenForRepeated' <=> TakenForRepeated
  BY <1>1 DEF Misordered, TakenForRepeated
<1>7. /\ Oversized' <=> Oversized
      /\ Miscounted' <=> Miscounted
  BY <1>1, <1>2, Zenon DEF Oversized, Miscounted
<1>8. UnknownType' <=> UnknownType
  BY <1>1, Zenon DEF UnknownType
<1>9. UnknownIndex' <=> UnknownIndex
  BY <1>1, <1>4, Zenon DEF UnknownIndex
<1>10. /\ TooManyLocals' <=> TooManyLocals
       /\ IllTyped' <=> IllTyped
       /\ Missized' <=> Missized
  BY <1>1, <1>5, Zenon DEF TooManyLocals, IllTyped, Missized
<1>11. Unsupported' <=> Unsupported
  BY <1>1, <1>2, Zenon DEF Unsupported
<1>12. QED
  BY <1>6, <1>7, <1>8, <1>9, <1>10, <1>11
  DEF RejectsOnlyFlawed

(* An end opcode that stands where a type or an id is expected belongs to a *)
(* global's expression.                                                     *)
LEMMA EndOpcodeRead ==
  ASSUME Faithful, EndOpcode
  PROVE  Faithful'
<1>0. /\ InStep /\ read \in Seq(Sections) /\ Parsing /\ ahead
      /\ Throw("Parse") /\ read' = read
  BY DEF Faithful, EndOpcode, Parsing
<1>1. PICK k \in 1..Len(Items(6)) : Items(6)[k].ended
  BY <1>0, Zenon DEF InStep, Checked
<1>2. Items(6)' = Items(6)
  BY <1>0, ItemsAre
<1>3. k \in DOMAIN Items(6)'
  <2>1. Items(6) \in Seq(GlobalItems)
    <3>1. Ascending(read) /\ 6 \in 1..13
      BY <1>0 DEF InStep, Ordered
    <3>2. Items(6) \in Seq(ItemIn(6))
      BY <1>0, <3>1, ItemsTyped, ItemsAre
    <3>3. QED
      BY <3>2, ItemKinds
  <2>2. QED
    BY <1>2, <2>1
<1>4. Unsupported'
  BY <1>1, <1>2, <1>3, Zenon DEF Unsupported
<1>5. RejectsOnlyFlawed'
  BY <1>0, <1>4 DEF Throw, RejectsOnlyFlawed
<1>6. QED
  BY <1>0, <1>5, Rejects DEF Throw, Exceptions

(* Build returns what the builder holds, with no end opcode left unread.    *)
LEMMA ModuleBuilt ==
  ASSUME Faithful, Build
  PROVE  Faithful'
<1>0. /\ InStep /\ read \in Seq(Sections) /\ ~ahead /\ thrown = "none"
      /\ UNCHANGED <<latest, vectors, section, left, ahead, thrown, read>>
      /\ parsed' = {Result}
  BY DEF Faithful, Build, Between, Parsing, Result
<1>1. InStep'
  BY <1>0, InStepStays
<1>2. Result' = Result
  BY <1>0, ResultStays
<1>3. Returned'
  BY <1>0, <1>2 DEF Returned
<1>4. RejectsOnlyFlawed'
  BY <1>0 DEF RejectsOnlyFlawed
<1>5. QED
  BY <1>0, <1>1, <1>3, <1>4 DEF Faithful

(* Each step of the parser keeps it in step with the bytes.                 *)
LEMMA FaithfulKept ==
  ASSUME TypeOK, Faithful, [Next]_vars
  PROVE  Faithful'
<1>1. CASE BadHeader
  <2>1. /\ Parsing /\ Throw("Parse") /\ read' = read /\ read = <<>>
        /\ read \in Seq(Sections)
    BY <1>1 DEF BadHeader, Faithful
  <2>2. RejectsOnlyFlawed'
    BY <2>1 DEF RejectsOnlyFlawed, Throw
  <2>3. QED
    BY <2>1, <2>2, Rejects DEF Throw, Exceptions
<1>2. CASE Undecodable
  <2>1. Parsing /\ Throw("Undecodable") /\ read' = read /\ read \in Seq(Sections)
    BY <1>2 DEF Undecodable, Faithful
  <2>2. RejectsOnlyFlawed'
    BY <2>1 DEF RejectsOnlyFlawed, Throw
  <2>3. QED
    BY <2>1, <2>2, Rejects DEF Throw, Exceptions
<1>3. CASE UNCHANGED vars
  <2>1. /\ UNCHANGED <<latest, vectors, section, left, ahead, read>>
        /\ UNCHANGED <<thrown, parsed>> /\ read' = read /\ ahead' = ahead
    BY <1>3 DEF vars
  <2>2. thrown' = "none" => InStep'
    BY <2>1, InStepStays DEF Faithful
  <2>3. Returned'
    BY <2>1, ResultStays DEF Faithful, Returned, Built
  <2>4. RejectsOnlyFlawed'
    BY <2>1, FlawsStay DEF Faithful
  <2>5. QED
    BY <2>1, <2>2, <2>3, <2>4 DEF Faithful
<1>4. QED
  BY <1>1, <1>2, <1>3, SectionRead, SignatureRead, ImportRead, FunctionRead,
     TableRead, MemoryRead, GlobalRead, ExportRead, StartRead, CodeItemRead,
     EndOpcodeRead, ModuleBuilt DEF Next, ReadItem

(* So it is for every module, from the first byte to the last.              *)
LEMMA FaithfulAlways == Spec => []Faithful
<1>1. ASSUME Init PROVE Faithful
  <2>1. /\ read = <<>> /\ latest = 0 /\ left = 0 /\ ahead = FALSE
        /\ thrown = "none" /\ parsed = {}
        /\ signatures = <<>> /\ imports = <<>> /\ functions = <<>>
        /\ tables = <<>> /\ memories = <<>> /\ globals = <<>>
        /\ exports = <<>>
    BY <1>1 DEF Init
  <2>2. Len(read) = 0 /\ 1..0 = {} /\ DOMAIN read = {}
    BY <2>1
  <2>3. \A j : Items(j) = <<>>
    BY <2>2, Zenon DEF Items
  <2>4. Ordered
    BY <2>1, <2>2 DEF Ordered, Ascending
  <2>5. Tracked
    BY <2>1, <2>3 DEF Tracked
  <2>6. Checked
    <3>1. Len(Items(6)) = 0 /\ Len(Items(8)) = 0
      BY <2>3
    <3>2. Len(signatures) = 0 /\ Len(imports) = 0
      BY <2>1
    <3>3. QED
      BY <2>1, <2>2, <3>1, <3>2 DEF Checked
  <2>7. Coded
    BY <2>2, <2>3 DEF Coded, Has
  <2>8. read \in Seq(Sections)
    BY <2>1
  <2>9. QED
    BY <2>1, <2>4, <2>5, <2>6, <2>7, <2>8
       DEF Faithful, InStep, RejectsOnlyFlawed, Returned, Built
<1>2. TypeOK /\ Faithful /\ [Next]_vars => Faithful'
  BY FaithfulKept
<1>3. QED
  BY <1>1, <1>2, TypeCorrect, PTL DEF Spec

(* Imports of a kind are finitely many.                                     *)
LEMMA ImportedIsNat ==
  ASSUME TypeOK, Tracked, NEW kind
  PROVE  Imported(kind) \in Nat
<1> DEFINE S == {i \in DOMAIN Items(2) : Items(2)[i].kind = kind}
<1>1. DOMAIN Items(2) = 1..Len(imports) /\ Len(imports) \in Nat
  BY DEF TypeOK, Tracked
<1>2. IsFiniteSet(1..Len(imports)) /\ S \subseteq 1..Len(imports)
  <2>1. 1 \in Int /\ Len(imports) \in Int
    BY <1>1
  <2>2. IsFiniteSet(1..Len(imports))
    BY <2>1, FS_Interval, Zenon
  <2>3. S \subseteq 1..Len(imports)
    BY <1>1, Zenon
  <2>4. QED
    BY <2>2, <2>3
<1>3. IsFiniteSet(S)
  BY <1>2, FS_Subset
<1>4. QED
  BY <1>3, FS_CardinalityType DEF Imported

(* A parser that is in step with the bytes has checked all of them.         *)
LEMMA BuiltIsSound ==
  ASSUME TypeOK, Faithful, NothingDangles, Built
  PROVE  /\ ~Misordered /\ ~Oversized /\ ~Miscounted
         /\ ~UnknownType /\ ~UnknownIndex /\ ~InvalidCode /\ ~Unsupported
<1>0. /\ InStep /\ read \in Seq(Sections) /\ ~ahead /\ left = 0
      /\ ExportsKnown
  BY Parts DEF TypeOK, Faithful, Returned
<1>1. /\ DOMAIN read = 1..Len(read) /\ Ascending(read)
      /\ DOMAIN Items(1) = 1..Len(signatures) /\ Items(1) = signatures
      /\ DOMAIN Items(2) = 1..Len(imports) /\ Items(2) = imports
      /\ DOMAIN Items(3) = 1..Len(functions)
      /\ DOMAIN Items(4) = 1..Len(tables) /\ Items(4) = tables
      /\ DOMAIN Items(6) = 1..Len(Items(6))
      /\ DOMAIN Items(7) = 1..Len(exports) /\ Items(7) = exports
      /\ DOMAIN Items(8) = 1..Len(Items(8))
      /\ DOMAIN Items(10) = 1..Len(Items(10))
  <2>1. Ascending(read)
    BY <1>0 DEF InStep, Ordered
  <2>2. /\ signatures \in Seq(Signatures) /\ imports \in Seq(Imports)
        /\ tables \in Seq(RefTypes) /\ exports \in Seq(Exports)
        /\ Items(3) \in Seq(Indices) /\ Items(6) \in Seq(GlobalItems)
        /\ Items(8) \in Seq(Indices) /\ Items(10) \in Seq(Codes)
    BY <1>0, <2>1, WellTyped
  <2>3. /\ Items(1) = signatures /\ Items(2) = imports
        /\ Items(4) = tables /\ Items(7) = exports
        /\ Len(Items(3)) = Len(functions)
    BY <1>0 DEF InStep, Tracked
  <2>4. QED
    BY <1>0, <2>1, <2>2, <2>3
<1>2. Indices \subseteq Nat /\ Len(functions) \in Nat /\ Len(signatures) \in Nat
  BY DEF TypeOK, Indices
<1>3. ASSUME NEW kind \in Kinds
      PROVE  Known(kind) = Declared(kind) /\ Declared(kind) \in Nat
             /\ Declared(kind) <= Space(kind) /\ Space(kind) \in Nat
  <2>1. Known(kind) = Declared(kind) /\ Declared(kind) \in Nat
    BY <1>0, KnownIsDeclared, KnownIsNat DEF InStep
  <2>2. Imported(kind) \in Nat
    BY <1>0, ImportedIsNat DEF InStep
  <2>3. QED
    BY <2>1, <2>2 DEF Space
<1>4. ~Misordered
  <2>1. SUFFICES ASSUME NEW i \in 1..Len(read), NEW j \in 1..Len(read),
                        i < j, read[i].id # 0, read[j].id # 0,
                        read[j].id <= read[i].id
                 PROVE  FALSE
    BY <1>1 DEF Misordered
  <2>2. read[i].id < read[j].id
    BY <1>1, <2>1 DEF Ascending
  <2>3. read[i].id \in 0..13 /\ read[j].id \in 0..13
    BY <1>0, SectionFields, ElementOfSeq
  <2>4. PICK x \in 0..13, y \in 0..13 : x = read[i].id /\ y = read[j].id
    BY <2>3
  <2>5. x < y /\ y <= x
    BY <2>1, <2>2, <2>4, Zenon
  <2>6. QED
    BY <2>5
<1>5. ~Oversized
  <2>1. ASSUME NEW i \in 1..Len(read), read[i].id \in 1..7,
               read[i].count > Limit[read[i].id]
        PROVE  FALSE
    <3>1. read[i].count <= Limit[read[i].id]
      BY <1>0, <2>1 DEF InStep, Ordered
    <3>2. PICK x \in Nat, y \in Nat :
            x = read[i].count /\ y = Limit[read[i].id]
      <4>1. read[i].count \in 0..MaxSize
        BY <1>0, SectionFields, ElementOfSeq
      <4>2. Limit[read[i].id] \in Nat
        BY <2>1, LimitAssumption
      <4>3. 0..MaxSize \subseteq Nat
        OBVIOUS
      <4>4. QED
        BY <4>1, <4>2, <4>3, Zenon
    <3>3. x > y /\ x <= y
      BY <2>1, <3>1, <3>2, Zenon
    <3>4. QED
      BY <3>3
  <2>2. \A i \in 1..Len(signatures) : FitsRegisters(signatures[i])
    BY <1>0 DEF InStep, Checked
  <2>3. QED
    BY <1>1, <2>1, <2>2, Zenon DEF Oversized
<1>6. ~Miscounted
  <2>1. Declared("func") = Len(functions)
    BY <1>0 DEF InStep, Tracked, Declared, SectionOf
  <2>2. \A i \in 1..Len(read) :
          read[i].id = 10 => read[i].count = Len(functions)
    BY <1>0 DEF InStep, Ordered
  <2>3. QED
    BY <1>1, <2>1, <2>2, Zenon DEF Miscounted
<1>7. ~UnknownType
  <2>1. ASSUME NEW i \in 1..Len(imports), imports[i].kind = "func"
        PROVE  ~(imports[i].idx >= Len(signatures))
    <3>1. imports[i].idx < Len(signatures)
      BY <1>0, <2>1 DEF InStep, Checked
    <3>2. imports[i] \in Imports
      BY ElementOfSeq DEF TypeOK
    <3>3. PICK x \in Nat : x = imports[i].idx
      BY <2>1, <3>2, ImportIndex
    <3>4. QED
      BY <1>2, <3>1, <3>3
  <2>2. ASSUME NEW i \in 1..Len(functions)
        PROVE  ~(Items(3)[i] >= Len(signatures))
    <3>1. Items(3)[i] < Len(signatures)
      BY <1>0 DEF InStep, Tracked
    <3>2. Items(3)[i] \in Indices
      BY <1>0, <1>1, WellTyped, ElementOfSeq DEF InStep, Tracked
    <3>3. PICK x \in Nat : x = Items(3)[i]
      BY <1>2, <3>2
    <3>4. QED
      BY <1>2, <3>1, <3>3
  <2>3. \A i \in 1..Len(tables) : tables[i] \in RefTypes
    BY ElementOfSeq DEF TypeOK
  <2>4. \A i \in 1..Len(imports) :
          imports[i].kind = "table" => imports[i].type \in RefTypes
    BY <1>0 DEF InStep, Checked
  <2>5. QED
    BY <1>1, <2>1, <2>2, <2>3, <2>4, Zenon DEF UnknownType
<1>8. ASSUME NEW j \in 1..Len(exports)
      PROVE  /\ ~(exports[j].idx >= Declared(exports[j].kind))
             /\ ~(exports[j].idx >= Space(exports[j].kind))
  <2>1. exports[j] \in Exports
    BY ElementOfSeq DEF TypeOK
  <2>2. PICK x \in Nat, kind \in Kinds :
          x = exports[j].idx /\ kind = exports[j].kind
    BY <1>2, <2>1 DEF Exports
  <2>3. x < Known(kind)
    BY <1>0, <2>2 DEF ExportsKnown
  <2>4. PICK d \in Nat, s \in Nat :
          d = Declared(kind) /\ s = Space(kind) /\ d <= s /\ x < d
    BY <1>3, <2>3
  <2>5. ~(x >= d) /\ ~(x >= s)
    BY <2>4
  <2>6. QED
    BY <2>2, <2>4, <2>5
<1>9. ASSUME NEW j \in 1..Len(Items(8))
      PROVE  /\ ~(Items(8)[j] >= Declared("func"))
             /\ ~(Items(8)[j] >= Space("func"))
  <2>1. Items(8)[j] < Len(functions)
    BY <1>0 DEF InStep, Checked
  <2>2. Items(8)[j] \in Indices
    BY <1>0, WellTyped, ElementOfSeq DEF InStep, Ordered
  <2>3. PICK x \in Nat : x = Items(8)[j]
    BY <1>2, <2>2
  <2>4. "func" \in Kinds /\ Known("func") = Len(functions)
    BY DEF Kinds, Known
  <2>5. PICK d \in Nat, s \in Nat :
          d = Declared("func") /\ s = Space("func") /\ d <= s /\ x < d
    BY <1>3, <2>1, <2>3, <2>4
  <2>6. ~(x >= d) /\ ~(x >= s)
    BY <2>5
  <2>7. QED
    BY <2>3, <2>5, <2>6
<1>10. ~UnknownIndex
  BY <1>1, <1>8, <1>9, Zenon DEF UnknownIndex
<1>11. ~InvalidCode
  <2>1. ASSUME NEW k \in 1..Len(Items(10)), NEW e \in CodeErrors
        PROVE  ~Wrong(e, TypeOf(k), Items(10)[k])
    <3>1. k \in 1..Len(functions)
      <4>1. Has(10)
        <5>1. Items(10) # <<>>
          OBVIOUS
        <5>2. QED
          BY <5>1, Zenon DEF Items, Has
      <4>2. Len(Items(10)) + left = Len(functions)
        BY <1>0, <4>1 DEF InStep, Coded
      <4>3. Len(Items(10)) \in Nat
        BY <1>0, WellTyped, LenProperties DEF InStep, Ordered
      <4>4. QED
        BY <1>0, <4>2, <4>3
    <3>2. HasCode(functions[k], Items(10)[k])
      BY <1>0 DEF InStep, Coded
    <3>3. TypeOf(k) = functions[k].signature
      BY <1>0, <3>1 DEF InStep, Tracked, TypeOf
    <3>4. PICK c \in Codes : c = Items(10)[k]
      BY <1>0, WellTyped, ElementOfSeq DEF InStep, Ordered
    <3>5. /\ Len(LocalsOf(c.groups)) <= MaxLocals
          /\ Valid(TypeOf(k), LocalsOf(c.groups), c) /\ c.sized
      BY <3>2, <3>3, <3>4, Zenon DEF HasCode
    <3>6. ~(Len(LocalsOf(c.groups)) > MaxLocals)
      <4>1. Len(LocalsOf(c.groups)) \in Nat
        BY CodesAssumption, LenProperties
      <4>2. QED
        BY <3>5, <4>1
    <3>7. QED
      BY <3>4, <3>5, <3>6 DEF Wrong, CodeErrors
  <2>2. QED
    BY <1>1, <2>1, InvalidCodeIs, Zenon
<1>12. ~Unsupported
  <2>1. \A i \in 1..Len(read) : read[i].id \in (0..8) \cup {10}
    BY <1>0 DEF InStep, Ordered
  <2>2. ~\E k \in 1..Len(Items(6)) : Items(6)[k].ended
    BY <1>0, Zenon DEF InStep, Checked
  <2>3. QED
    BY <1>1, <1>8, <1>9, <2>1, <2>2, Zenon DEF Unsupported
<1>13. QED
  BY <1>4, <1>5, <1>6, <1>7, <1>10, <1>11, <1>12

(* ParseModule returns a module only if its sections are in order, within   *)
(* the limits and supported, its types and indices known and its code       *)
(* valid, however large it is.  What is Overlooked is not part of that.     *)
THEOREM AcceptedIsSoundHolds == Spec => []AcceptedIsSound
<1>1. TypeOK /\ Faithful /\ NothingDangles => AcceptedIsSound
  BY BuiltIsSound DEF AcceptedIsSound
<1>2. QED
  BY <1>1, TypeCorrect, FaithfulAlways, NothingDanglesHolds, PTL

(* Every ParseException has a reason in the bytes, unless it refuses an     *)
(* export after the first; every ModuleTooLargeException something too      *)
(* large and every ValidationException an ill-typed body.                   *)
THEOREM RejectsOnlyFlawedHolds == Spec => []RejectsOnlyFlawed
<1>1. Faithful => RejectsOnlyFlawed
  BY DEF Faithful
<1>2. QED
  BY <1>1, FaithfulAlways, PTL

-----------------------------------------------------------------------------
(* A set of positions has a least one.                                      *)
LEMMA Least ==
  ASSUME NEW n \in Nat, NEW T \in SUBSET (1..n), T # {}
  PROVE  \E x \in T : \A y \in T : x <= y
<1> DEFINE Up == {1..k : k \in T}
<1>1. /\ IsWellFoundedOn(StrictSubsetOrdering(Nat), FiniteSubsetsOf(Nat))
      /\ Up \subseteq FiniteSubsetsOf(Nat)
  <2>1. ASSUME NEW k \in T PROVE 1..k \in FiniteSubsetsOf(Nat)
    <3>1. IsFiniteSet(1..k)
      BY FS_Interval
    <3>2. QED
      BY <3>1 DEF FiniteSubsetsOf
  <2>2. QED
    BY <2>1, FS_StrictSubsetOrderingWellFounded
<1>2. PICK s \in Up : \A t \in Up : <<t, s>> \notin StrictSubsetOrdering(Nat)
  <2>1. Up # {}
    OBVIOUS
  <2> HIDE DEF Up
  <2>2. QED
    BY <1>1, <2>1, WFMin, Zenon
<1>3. PICK x \in T : s = 1..x
  OBVIOUS
<1>4. ASSUME NEW y \in T, y < x PROVE FALSE
  <2>1. 1..y \in Up
    OBVIOUS
  <2>2. 1..y \subseteq 1..x /\ x \in 1..x /\ x \notin 1..y
    BY <1>4
  <2>3. 1..y \in SUBSET Nat /\ 1..x \in SUBSET Nat
    OBVIOUS
  <2>4. <<1..y, 1..x>> \in StrictSubsetOrdering(Nat)
    BY <2>2, <2>3 DEF StrictSubsetOrdering
  <2>5. QED
    BY <1>2, <1>3, <2>1, <2>4
<1>5. QED
  BY <1>4

(* The first export of a name is one of that name, if there is any.         *)
LEMMA FirstExportIs ==
  ASSUME TypeOK, NEW j \in FunctionExports
  PROVE  LET first == FirstExport(exports[j].name) IN
         first \in FunctionExports /\ exports[first].name = exports[j].name
<1> DEFINE name == exports[j].name
           T == {k \in FunctionExports : exports[k].name = name}
           IsFirst(k) == /\ exports[k].name = name
                         /\ \A i \in FunctionExports :
                              exports[i].name = name => k <= i
<1>1. Len(exports) \in Nat /\ FunctionExports \subseteq 1..Len(exports)
  BY DEF TypeOK, FunctionExports
<1>2. T \in SUBSET (1..Len(exports)) /\ T # {}
  BY <1>1
<1>3. \E k \in T : \A i \in T : k <= i
  <2> HIDE DEF T
  <2>1. QED
    BY <1>1, <1>2, Least
<1>4. \E k \in FunctionExports : IsFirst(k)
  BY <1>3
<1>5. FirstExport(name) = CHOOSE k \in FunctionExports : IsFirst(k)
  BY DEF FirstExport
<1>6. FirstExport(name) \in FunctionExports /\ IsFirst(FirstExport(name))
  <2> HIDE DEF IsFirst, name
  <2>1. QED
    BY <1>4, <1>5
<1>7. QED
  BY <1>6

(* And what it built is what they declare.                                  *)
LEMMA BuiltAsDeclared ==
  ASSUME TypeOK, Faithful, NothingDangles, Built
  PROVE  BuildsDeclared
<1>0. /\ InStep /\ read \in Seq(Sections) /\ left = 0 /\ ExportsKnown
      /\ \A module \in parsed : module = Result
  BY Parts DEF TypeOK, Faithful, Returned
<1>1. /\ Len(functions) \in Nat /\ DOMAIN functions = 1..Len(functions)
  BY DEF TypeOK
<1>2. Result.functions = functions
  BY DEF Result
<1>3. CodeMatches
  <2>1. ASSUME Has(10), NEW k \in 1..Len(functions)
        PROVE  /\ functions[k].body = {Items(10)[k]}
               /\ functions[k].locals = LocalsOf(Items(10)[k].groups)
    <3>1. Len(Items(10)) + left = Len(functions)
      BY <1>0, <2>1 DEF InStep, Coded
    <3>2. Len(Items(10)) \in Nat
      BY <1>0, WellTyped, LenProperties DEF InStep, Ordered
    <3>3. k \in 1..Len(Items(10))
      BY <1>0, <3>1, <3>2
    <3>4. HasCode(functions[k], Items(10)[k])
      BY <1>0, <3>3 DEF InStep, Coded
    <3>5. QED
      BY <3>4, Zenon DEF HasCode
  <2>2. QED
    BY <1>0, <1>1, <1>2, <2>1, Zenon DEF CodeMatches
<1>4. ASSUME NEW name \in DOMAIN Result.exported
      PROVE  LET i == Result.exported[name] IN
             /\ \E j \in DOMAIN Items(7) :
                  Items(7)[j] = [name |-> name, kind |-> "func", idx |-> i]
             /\ i < Len(functions)
  <2>1. /\ name \in {exports[j].name : j \in FunctionExports}
        /\ Result.exported[name] = exports[FirstExport(name)].idx
    BY DEF Result
  <2>2. PICK j \in FunctionExports : name = exports[j].name
    BY <2>1
  <2>3. PICK f \in FunctionExports :
          f = FirstExport(name) /\ exports[f].name = name
    BY <2>2, FirstExportIs
  <2>4. /\ f \in DOMAIN exports /\ f \in 1..Len(exports)
        /\ exports[f].kind = "func" /\ exports[f] \in Exports
    <3>1. exports \in Seq(Exports)
      BY DEF TypeOK
    <3>2. f \in DOMAIN exports /\ exports[f].kind = "func"
      BY DEF FunctionExports
    <3>3. QED
      BY <3>1, <3>2, ElementOfSeq
  <2>5. PICK i \in Nat : i = exports[f].idx
    BY <2>4 DEF Exports, Indices
  <2>6. exports[f] = [name |-> name, kind |-> "func", idx |-> i]
    BY <2>3, <2>4, <2>5 DEF Exports
  <2>7. i < Len(functions)
    <3>1. exports[f].idx < Known(exports[f].kind)
      BY <1>0, <2>4 DEF ExportsKnown
    <3>2. QED
      BY <2>4, <2>5, <3>1 DEF Known
  <2>8. Items(7) = exports
    BY <1>0 DEF InStep, Tracked
  <2>9. Result.exported[name] = i
    BY <2>1, <2>3, <2>5
  <2>10. QED
    BY <2>4, <2>6, <2>7, <2>8, <2>9
<1>5. DOMAIN Result.exported = ExportedNames
  <2>1. Items(7) = exports
    BY <1>0 DEF InStep, Tracked
  <2>2. DOMAIN Result.exported = {exports[j].name : j \in FunctionExports}
    BY DEF Result
  <2>3. QED
    BY <2>1, <2>2 DEF ExportedNames, FunctionExports
<1>6. ExportsResolve
  BY <1>0, <1>2, <1>4, <1>5, Zenon DEF ExportsResolve
<1>7. TypesMatch
  <2>1. Declared("func") = Len(functions)
    BY <1>0 DEF InStep, Tracked, Declared, SectionOf
  <2>2. ASSUME NEW k \in 1..Len(functions)
        PROVE  functions[k].signature = TypeOf(k)
    BY <1>0 DEF InStep, Tracked, TypeOf
  <2>3. QED
    BY <1>0, <1>1, <1>2, <2>1, <2>2, Zenon DEF TypesMatch
<1>8. QED
  BY <1>3, <1>6, <1>7 DEF BuildsDeclared

(* ParseModule returns every declared function with its type, once there is *)
(* a code section with its code and locals, and unless one is imported the  *)
(* names that export functions and no others, each at such a function.      *)
THEOREM BuildsDeclaredHolds == Spec => []BuildsDeclared
<1>1. ~Built => BuildsDeclared
  BY DEF BuildsDeclared, TypesMatch, ExportsResolve, CodeMatches
<1>2. TypeOK /\ Faithful /\ NothingDangles => BuildsDeclared
  BY <1>1, BuiltAsDeclared
<1>3. QED
  BY <1>2, TypeCorrect, FaithfulAlways, NothingDanglesHolds, PTL

-----------------------------------------------------------------------------
(* The numbers (Leb128): arithmetic first, because nothing is known here of *)
(* powers, remainders and sums but their definitions.  A recursive function *)
(* is shown to exist by its least counterexample.                           *)
HIDE BoundAssumption

(* A set of numbers has a least one.                                        *)
LEMMA LeastOf ==
  ASSUME NEW S, S \subseteq Nat, S # {}
  PROVE  \E m \in S : \A x \in S : m =< x
<1> DEFINE Less == {p \in Nat \X Nat : p[1] < p[2]}
<1>1. IsWellFoundedOn(Less, Nat)
  BY NatLessThanWellFounded DEF OpToRel
<1>2. PICK m \in S : \A y \in S : ~ (<<y, m>> \in Less)
  <2> HIDE DEF Less
  <2> QED
    BY <1>1, WFMin
<1>3. ASSUME NEW y \in S PROVE m =< y
  <2>1. m \in Nat /\ y \in Nat
    OBVIOUS
  <2>2. ~ (<<y, m>> \in Nat \X Nat /\ y < m)
    BY <1>2
  <2> QED
    BY <2>1, <2>2
<1> QED
  BY <1>3

(* A sum of terms t from p + 1 to q, at every place.                        *)
Adds(f, t, p, q) ==
  /\ f \in [p..q -> Int] /\ f[p] = 0
  /\ \A i \in p + 1..q : f[i] = f[i - 1] + t[i]

(* There is one: there is no first place it cannot be taken to.             *)
LEMMA AddsExist ==
  ASSUME NEW p \in Nat, NEW n \in Nat, NEW t \in [Nat -> Int]
  PROVE  \E f : Adds(f, t, p, p + n)
<1> DEFINE S == {k \in Nat : ~ \E f : Adds(f, t, p, p + k)}
<1>1. CASE S = {}
  BY <1>1
<1>2. CASE S # {}
  <2>1. S \subseteq Nat
    OBVIOUS
  <2>2. PICK m : m \in S /\ \A x \in S : m =< x
    <3> HIDE DEF S
    <3> QED
      BY <1>2, <2>1, LeastOf
  <2>3. m # 0
    <3>1. PICK z : z = [k \in p..p |-> 0]
      OBVIOUS
    <3>2. Adds(z, t, p, p)
      BY <3>1 DEF Adds
    <3> QED
      BY <2>2, <3>2
  <2>4. m - 1 \in Nat /\ m \in Nat /\ ~(m =< m - 1)
    BY <2>2, <2>3
  <2>5. m - 1 \notin S
    BY <2>2, <2>4
  <2>6. PICK f : Adds(f, t, p, p + (m - 1))
    BY <2>4, <2>5
  <2>7. PICK e \in Nat : e = p + m /\ e - 1 = p + (m - 1) /\ e > p
    BY <2>4
  <2>8. f \in [p..e - 1 -> Int] /\ f[p] = 0
        /\ \A i \in p + 1..e - 1 : f[i] = f[i - 1] + t[i]
    BY <2>6, <2>7 DEF Adds
  <2>9. PICK g : g = [k \in p..e |-> IF k = e THEN f[e - 1] + t[e] ELSE f[k]]
    OBVIOUS
  <2>10. f[e - 1] \in Int /\ t[e] \in Int
    BY <2>7, <2>8
  <2>11. g \in [p..e -> Int]
    <3>1. ASSUME NEW k \in p..e PROVE g[k] \in Int
      BY <2>7, <2>8, <2>9, <2>10
    <3> QED
      BY <2>9, <3>1
  <2>12. g[p] = 0
    BY <2>7, <2>8, <2>9
  <2>13. ASSUME NEW i \in p + 1..e PROVE g[i] = g[i - 1] + t[i]
    BY <2>7, <2>8, <2>9
  <2>14. Adds(g, t, p, e)
    BY <2>11, <2>12, <2>13 DEF Adds
  <2> QED
    BY <2>2, <2>7, <2>14
<1> QED
  BY <1>1, <1>2

(* Pow2 up to n.                                                            *)
Doubles(f, n) ==
  /\ f \in [0..n -> Nat] /\ f[0] = 1
  /\ \A i \in 1..n : f[i] = 2 * f[i - 1]

(* It can be taken to any number.                                           *)
LEMMA DoublesExist == ASSUME NEW n \in Nat PROVE \E f : Doubles(f, n)
<1> DEFINE S == {k \in Nat : ~ \E f : Doubles(f, k)}
<1>1. CASE S = {}
  BY <1>1
<1>2. CASE S # {}
  <2>1. S \subseteq Nat
    OBVIOUS
  <2>2. PICK m : m \in S /\ \A x \in S : m =< x
    <3> HIDE DEF S
    <3> QED
      BY <1>2, <2>1, LeastOf
  <2>3. m # 0
    <3>1. PICK z : z = [k \in 0..0 |-> 1]
      OBVIOUS
    <3>2. Doubles(z, 0)
      BY <3>1 DEF Doubles
    <3> QED
      BY <2>2, <3>2
  <2>4. m - 1 \in Nat /\ m \in Nat /\ ~(m =< m - 1)
    BY <2>2, <2>3
  <2>5. m - 1 \notin S
    BY <2>2, <2>4
  <2>6. PICK f : Doubles(f, m - 1)
    BY <2>4, <2>5
  <2>7. PICK g : g = [k \in 0..m |-> IF k = m THEN 2 * f[m - 1] ELSE f[k]]
    OBVIOUS
  <2>8. f[m - 1] \in Nat /\ \A k \in 0..m - 1 : f[k] \in Nat
    BY <2>4, <2>6 DEF Doubles
  <2>9. g \in [0..m -> Nat]
    <3>1. ASSUME NEW k \in 0..m PROVE g[k] \in Nat
      BY <2>4, <2>7, <2>8
    <3> QED
      BY <2>7, <3>1
  <2>10. g[0] = 1
    BY <2>3, <2>4, <2>6, <2>7 DEF Doubles
  <2>11. ASSUME NEW i \in 1..m PROVE g[i] = 2 * g[i - 1]
    BY <2>4, <2>6, <2>7 DEF Doubles
  <2>12. Doubles(g, m)
    BY <2>9, <2>10, <2>11 DEF Doubles
  <2> QED
    BY <2>2, <2>12
<1> QED
  BY <1>1, <1>2

(* How far it is taken makes no difference.                                 *)
LEMMA DoublesAgree ==
  ASSUME NEW n \in Nat, NEW m \in Nat, NEW f, NEW g, Doubles(f, n),
         Doubles(g, m), n =< m
  PROVE  f[n] = g[n]
<1> DEFINE S == {k \in 0..n : f[k] # g[k]}
<1>1. CASE S = {}
  <2>1. n \in 0..n
    OBVIOUS
  <2> QED
    BY <1>1, <2>1
<1>2. CASE S # {}
  <2>1. S \subseteq Nat
    OBVIOUS
  <2>2. PICK k : k \in S /\ \A x \in S : k =< x
    <3> HIDE DEF S
    <3> QED
      BY <1>2, <2>1, LeastOf
  <2>3. k # 0
    BY <2>2 DEF Doubles
  <2>4. k \in 1..n /\ k \in 1..m /\ k - 1 \in 0..n /\ ~(k =< k - 1)
    BY <2>2, <2>3
  <2>5. f[k - 1] = g[k - 1]
    BY <2>2, <2>4
  <2>6. f[k] = 2 * f[k - 1] /\ g[k] = 2 * g[k - 1]
    BY <2>4 DEF Doubles
  <2> QED
    BY <2>2, <2>5, <2>6
<1> QED
  BY <1>1, <1>2

(* Pow2 is the function its definition describes.                           *)
LEMMA PowersKnown ==
  /\ Pow2 \in [Nat -> Nat] /\ Pow2[0] = 1
  /\ \A n \in Nat : Pow2[n + 1] = 2 * Pow2[n]
<1> DEFINE Doubled(g, n) == IF n = 0 THEN 1 ELSE 2 * g[n - 1]
           Upto(n) == CHOOSE f : Doubles(f, n)
<1>1. ASSUME NEW n \in Nat PROVE Doubles(Upto(n), n)
  BY DoublesExist
<1>2. PICK h : h = [n \in Nat |-> Upto(n)[n]]
  OBVIOUS
<1>3. ASSUME NEW n \in Nat PROVE h[n] = Upto(n)[n]
  BY <1>2
<1> HIDE DEF Upto
<1>4. h[0] = 1
  BY <1>1, <1>3 DEF Doubles
<1>5. ASSUME NEW n \in Nat, n # 0 PROVE h[n] = 2 * h[n - 1] /\ h[n] \in Nat
  <2>1. n - 1 \in Nat /\ n \in 1..n /\ n - 1 =< n
    BY <1>5
  <2>2. Doubles(Upto(n), n) /\ Doubles(Upto(n - 1), n - 1)
    BY <1>1, <2>1
  <2>3. Upto(n - 1)[n - 1] = Upto(n)[n - 1]
    BY <2>1, <2>2, DoublesAgree
  <2>4. Upto(n)[n] = 2 * Upto(n)[n - 1] /\ Upto(n)[n] \in Nat
    BY <2>1, <2>2 DEF Doubles
  <2> QED
    BY <1>3, <2>1, <2>3, <2>4
<1>6. h = [n \in Nat |-> Doubled(h, n)]
  <2>1. ASSUME NEW n \in Nat PROVE h[n] = Doubled(h, n)
    BY <1>4, <1>5
  <2> QED
    BY <1>2, <2>1
<1>7. Pow2 = CHOOSE g : g = [n \in Nat |-> Doubled(g, n)]
  BY DEF Pow2
<1>8. Pow2 = [n \in Nat |-> Doubled(Pow2, n)]
  <2> HIDE DEF Doubled
  <2> QED
    BY <1>6, <1>7
<1>9. Pow2[0] = 1
  BY <1>8
<1>10. ASSUME NEW n \in Nat PROVE Pow2[n + 1] = 2 * Pow2[n]
  BY <1>8
<1>11. Pow2 \in [Nat -> Nat]
  <2> DEFINE S == {k \in Nat : Pow2[k] \notin Nat}
  <2>1. CASE S # {}
    <3>1. S \subseteq Nat
      OBVIOUS
    <3>2. PICK k : k \in S /\ \A x \in S : k =< x
      <4> HIDE DEF S
      <4> QED
        BY <2>1, <3>1, LeastOf
    <3>3. k # 0
      BY <1>9, <3>2
    <3>4. k - 1 \in Nat /\ k = (k - 1) + 1 /\ ~(k =< k - 1)
      BY <3>2, <3>3
    <3>5. Pow2[k - 1] \in Nat
      BY <3>2, <3>4
    <3>6. Pow2[k] = 2 * Pow2[k - 1]
      BY <1>10, <3>4
    <3> QED
      BY <3>2, <3>5, <3>6
  <2>2. CASE S = {}
    <3>1. DOMAIN Pow2 = Nat /\ Pow2 = [k \in Nat |-> Pow2[k]]
      BY <1>8
    <3> QED
      BY <2>2, <3>1
  <2> QED
    BY <2>1, <2>2
<1> QED
  BY <1>9, <1>10, <1>11

(* A product grows with its factor.                                         *)
LEMMA ProductGrows ==
  ASSUME NEW a \in Nat, NEW c \in Nat, a =< c, NEW P \in Nat
  PROVE  a * P =< c * P
<1>1. PICK e \in Nat : c = a + e
  <2>1. c - a \in Nat /\ c = a + (c - a)
    OBVIOUS
  <2> QED
    BY <2>1
<1>2. e * P \in Nat /\ a * P \in Nat
  OBVIOUS
<1>3. c * P = a * P + e * P
  BY <1>1
<1> QED
  BY <1>2, <1>3

(* Adding exponents multiplies.                                             *)
LEMMA PowersMultiply ==
  ASSUME NEW a \in Nat, NEW b \in Nat
  PROVE  Pow2[a + b] = Pow2[a] * Pow2[b]
<1> DEFINE S == {k \in Nat : Pow2[a + k] # Pow2[a] * Pow2[k]}
<1>1. CASE S = {}
  BY <1>1
<1>2. CASE S # {}
  <2>1. S \subseteq Nat
    OBVIOUS
  <2>2. PICK k : k \in S /\ \A x \in S : k =< x
    <3> HIDE DEF S
    <3> QED
      BY <1>2, <2>1, LeastOf
  <2>3. PICK A \in Nat : A = Pow2[a]
    BY PowersKnown
  <2>4. k # 0
    <3>1. Pow2[a + 0] = A * 1
      BY <2>3
    <3> QED
      BY <2>2, <2>3, <3>1, PowersKnown
  <2>5. PICK j \in Nat : k = j + 1 /\ ~(k =< j)
    <3>1. k - 1 \in Nat /\ k = (k - 1) + 1 /\ ~(k =< k - 1)
      BY <2>2, <2>4
    <3> QED
      BY <3>1
  <2>6. Pow2[a + j] = A * Pow2[j]
    BY <2>2, <2>3, <2>5
  <2>7. PICK B \in Nat : B = Pow2[j]
    BY PowersKnown
  <2>8. Pow2[j + 1] = 2 * B
    BY <2>7, PowersKnown
  <2>9. Pow2[(a + j) + 1] = 2 * Pow2[a + j] /\ (a + j) + 1 = a + k
    BY <2>5, PowersKnown
  <2>10. 2 * (A * B) = A * (2 * B)
    OBVIOUS
  <2> QED
    BY <2>2, <2>3, <2>5, <2>6, <2>7, <2>8, <2>9, <2>10
<1> QED
  BY <1>1, <1>2

(* Every power is at least one.                                             *)
LEMMA PowersPositive == \A n \in Nat : Pow2[n] \in Nat /\ Pow2[n] >= 1
<1> DEFINE S == {k \in Nat : ~(Pow2[k] >= 1)}
<1>1. CASE S = {}
  BY <1>1, PowersKnown
<1>2. CASE S # {}
  <2>1. S \subseteq Nat
    OBVIOUS
  <2>2. PICK k : k \in S /\ \A x \in S : k =< x
    <3> HIDE DEF S
    <3> QED
      BY <1>2, <2>1, LeastOf
  <2>3. k # 0
    BY <2>2, PowersKnown
  <2>4. PICK j \in Nat : k = j + 1 /\ ~(k =< j)
    <3>1. k - 1 \in Nat /\ k = (k - 1) + 1 /\ ~(k =< k - 1)
      BY <2>2, <2>3
    <3> QED
      BY <3>1
  <2>5. Pow2[j] >= 1 /\ Pow2[j] \in Nat /\ Pow2[j + 1] = 2 * Pow2[j]
    BY <2>2, <2>4, PowersKnown
  <2> QED
    BY <2>2, <2>4, <2>5
<1> QED
  BY <1>1, <1>2

(* A larger exponent at least doubles.                                      *)
LEMMA PowersGrow ==
  ASSUME NEW a \in Nat, NEW b \in Nat, a < b
  PROVE  2 * Pow2[a] =< Pow2[b]
<1>1. PICK c \in Nat : b = (a + 1) + c
  <2>1. b - (a + 1) \in Nat /\ b = (a + 1) + (b - (a + 1))
    OBVIOUS
  <2> QED
    BY <2>1
<1>2. Pow2[b] = Pow2[a + 1] * Pow2[c] /\ Pow2[a + 1] = 2 * Pow2[a]
  <2>1. a + 1 \in Nat
    OBVIOUS
  <2> QED
    BY <1>1, <2>1, PowersMultiply, PowersKnown
<1>3. PICK A \in Nat : A = Pow2[a]
  BY PowersKnown
<1>4. PICK C \in Nat : C = Pow2[c] /\ C >= 1
  BY PowersPositive
<1>5. (2 * A) * C >= 2 * A
  BY <1>4
<1> QED
  BY <1>2, <1>3, <1>4, <1>5

-----------------------------------------------------------------------------
(* Numbers of Size bits: the remainder is what is left after taking M off   *)
(* any number of times.                                                     *)
LEMMA RemainderIs ==
  ASSUME NEW M \in Nat \ {0}, NEW x \in Int, NEW c \in Int, NEW y \in 0..M - 1,
         x = y + c * M
  PROVE  x % M = y
<1>1. PICK q \in Int : q = x \div M
  OBVIOUS
<1>2. PICK r \in 0..M - 1 : r = x % M
  OBVIOUS
<1>3. x = q * M + r
  BY <1>1, <1>2
<1>4. (c - q) * M = r - y
  BY <1>3
<1>5. PICK d \in Int : d = c - q /\ d * M = r - y
  BY <1>4
<1>6. d = 0
  <2>1. ~(d >= 1)
    <3>1. d >= 1 => d * M >= M
      OBVIOUS
    <3> QED
      BY <1>5, <3>1
  <2>2. ~(d =< -1)
    <3>1. d =< -1 => d * M =< -M
      OBVIOUS
    <3> QED
      BY <1>5, <3>1
  <2> QED
    BY <2>1, <2>2
<1> QED
  BY <1>2, <1>5, <1>6

(* What is small enough is its own remainder.                               *)
LEMMA RemainderSmall ==
  ASSUME NEW M \in Nat \ {0}, NEW x \in 0..M - 1
  PROVE  x % M = x
  OBVIOUS

(* Taking remainders in between changes nothing.                            *)
LEMMA RemainderAdds ==
  ASSUME NEW M \in Nat \ {0}, NEW x \in Int, NEW y \in Int
  PROVE  ((x % M) + y) % M = (x + y) % M
<1>1. PICK q \in Int, r \in 0..M - 1 : r = x % M /\ x = q * M + r
  <2>1. x \div M \in Int /\ x % M \in 0..M - 1 /\ x = (x \div M) * M + (x % M)
    OBVIOUS
  <2> QED
    BY <2>1
<1>2. PICK p \in Int, s \in 0..M - 1 : s = (r + y) % M /\ r + y = p * M + s
  <2>1. /\ (r + y) \div M \in Int /\ (r + y) % M \in 0..M - 1
        /\ r + y = ((r + y) \div M) * M + ((r + y) % M)
    OBVIOUS
  <2> QED
    BY <2>1
<1>3. PICK c \in Int : c = q + p
  OBVIOUS
<1>4. c * M = q * M + p * M
  BY <1>3
<1>5. PICK e \in Int : e = x + y
  OBVIOUS
<1>6. e = s + c * M
  <2>1. e = q * M + r + y
    BY <1>1, <1>5
  <2> QED
    BY <1>2, <1>4, <2>1
<1>7. e % M = s
  BY <1>6, RemainderIs
<1> QED
  BY <1>1, <1>2, <1>5, <1>7

-----------------------------------------------------------------------------
(* A byte and a number.                                                     *)
LEMMA HalvesKnown == \A n \in Nat \ {0} : Pow2[n] = 2 * Pow2[n - 1]
<1> SUFFICES ASSUME NEW n \in Nat \ {0} PROVE Pow2[n] = 2 * Pow2[n - 1]
  OBVIOUS
<1>1. n - 1 \in Nat /\ (n - 1) + 1 = n
  OBVIOUS
<1> QED
  BY <1>1, PowersKnown

(* The masks of the code.                                                   *)
LEMMA Masks ==
  /\ LowMask \in Nat /\ LowMask >= 2 /\ LowMask = 2 * Pow2[G - 1]
  /\ Pow2[G - 1] \in Nat /\ Pow2[G - 1] >= 1
<1>1. G - 1 \in Nat
  BY WidthAssumption
<1>2. Pow2[G] = 2 * Pow2[G - 1]
  BY WidthAssumption, HalvesKnown
<1> QED
  BY <1>1, <1>2, PowersPositive DEF LowMask

(* A byte is a group of G bits and whether another one follows.             *)
LEMMA ByteIs ==
  ASSUME NEW b \in Bytes
  PROVE  /\ Low(b) \in 0..LowMask - 1
         /\ b = IF Continues(b) THEN Low(b) + LowMask ELSE Low(b)
<1>1. PICK M \in Nat : M = LowMask /\ M >= 2
  BY Masks
<1>2. b \in 0..2 * M - 1
  BY <1>1 DEF Bytes
<1>3. CASE b < M
  <2>1. b % M = b
    <3>1. b \in 0..M - 1 /\ b = b + 0 * M
      BY <1>2, <1>3
    <3> QED
      BY <1>1, <3>1, RemainderIs
  <2> QED
    BY <1>1, <1>2, <1>3, <2>1 DEF Low, Continues
<1>4. CASE b >= M
  <2>1. PICK c \in 0..M - 1 : c = b - M
    BY <1>2, <1>4
  <2>2. b % M = c
    <3>1. b = c + 1 * M /\ b \in Int
      BY <1>2, <2>1
    <3> QED
      BY <1>1, <3>1, RemainderIs
  <2> QED
    BY <1>1, <1>2, <1>4, <2>1, <2>2 DEF Low, Continues
<1> QED
  BY <1>1, <1>2, <1>3, <1>4

(* What EncodeByte writes.                                                  *)
LEMMA ByteOf ==
  ASSUME NEW x \in 0..LowMask - 1
  PROVE  /\ x \in Bytes /\ Low(x) = x /\ ~Continues(x)
         /\ x + LowMask \in Bytes /\ Low(x + LowMask) = x
         /\ Continues(x + LowMask)
<1>1. PICK M \in Nat : M = LowMask /\ M >= 2
  BY Masks
<1>2. x \in 0..M - 1
  BY <1>1
<1>3. x % M = x
  <2>1. x = x + 0 * M
    BY <1>2
  <2> QED
    BY <1>1, <1>2, <2>1, RemainderIs
<1>4. (x + M) % M = x
  <2>1. x + M = x + 1 * M
    BY <1>2
  <2>2. x + M \in Int
    BY <1>2
  <2> QED
    BY <1>1, <1>2, <2>1, <2>2, RemainderIs
<1> QED
  BY <1>1, <1>2, <1>3, <1>4 DEF Bytes, Low, Continues

(* Groups is how many bytes a number of Size bits needs.                    *)
LEMMA GroupsCover ==
  /\ Groups \in Nat /\ Groups >= 1
  /\ G * Groups >= Size /\ G * (Groups - 1) < Size
<1>1. PICK g \in Nat : g = G /\ g >= 1
  BY WidthAssumption
<1>2. PICK z \in Nat : z = Size /\ z >= 1
  BY WidthAssumption
<1>3. PICK q \in Int, r \in 0..g - 1 : /\ q = (z + g - 1) \div g
                                       /\ z + g - 1 = q * g + r
  <2>1. PICK n \in Int : n = z + g - 1
    OBVIOUS
  <2>2. /\ n \div g \in Int /\ n % g \in 0..g - 1
        /\ n = (n \div g) * g + (n % g)
    BY <1>1
  <2> QED
    BY <2>1, <2>2
<1>4. Groups = q
  BY <1>1, <1>2, <1>3 DEF Groups
<1>5. q >= 1
  <2>1. q =< 0 => q * g =< 0
    BY <1>1
  <2> QED
    BY <1>1, <1>2, <1>3, <2>1
<1>6. g * q = q * g /\ g * (q - 1) = q * g - g
  OBVIOUS
<1>7. g * q >= z /\ g * (q - 1) < z
  BY <1>3, <1>6
<1> QED
  BY <1>1, <1>2, <1>4, <1>5, <1>7

(* While shift is below Size another byte is in order.                      *)
LEMMA BelowGroups ==
  ASSUME NEW k \in Nat
  PROVE  G * k < Size <=> k < Groups
<1>1. PICK g \in Nat : g = G /\ g >= 1
  BY WidthAssumption
<1>2. PICK q \in Nat : /\ q = Groups /\ q >= 1 /\ g * q >= Size
                       /\ g * (q - 1) < Size
  BY <1>1, GroupsCover
<1>3. Size \in Nat
  BY WidthAssumption
<1>4. k >= q => g * k >= g * q
  BY <1>1
<1>5. k =< q - 1 => g * k =< g * (q - 1)
  BY <1>1
<1>6. g * k \in Int /\ g * q \in Int /\ g * (q - 1) \in Int
  OBVIOUS
<1> QED
  BY <1>1, <1>2, <1>3, <1>4, <1>5, <1>6

-----------------------------------------------------------------------------
(* The sums of Reference.  Two of them agree as far as their terms do.      *)
LEMMA AddsAgree ==
  ASSUME NEW p \in Nat, NEW q \in Nat, NEW r \in Nat, p =< q, q =< r,
         NEW t, NEW u, NEW f, NEW g, Adds(f, t, p, q), Adds(g, u, p, r),
         \A i \in p + 1..q : t[i] = u[i]
  PROVE  f[q] = g[q]
<1> DEFINE S == {k \in p..q : f[k] # g[k]}
<1>1. CASE S = {}
  <2>1. q \in p..q
    OBVIOUS
  <2> QED
    BY <1>1, <2>1
<1>2. CASE S # {}
  <2>1. S \subseteq Nat
    OBVIOUS
  <2>2. PICK k : k \in S /\ \A x \in S : k =< x
    <3> HIDE DEF S
    <3> QED
      BY <1>2, <2>1, LeastOf
  <2>3. k # p
    BY <2>2 DEF Adds
  <2>4. /\ k \in p + 1..q /\ k \in p + 1..r /\ k - 1 \in p..q
        /\ ~(k =< k - 1)
    BY <2>2, <2>3
  <2>5. f[k - 1] = g[k - 1]
    BY <2>2, <2>4
  <2>6. f[k] = f[k - 1] + t[k] /\ g[k] = g[k - 1] + u[k]
    BY <2>4 DEF Adds
  <2>7. t[k] = u[k]
    BY <2>4
  <2> QED
    BY <2>2, <2>5, <2>6, <2>7
<1> QED
  BY <1>1, <1>2

(* The terms: each byte's group in its place.                               *)
Terms(b, p, q) == [i \in Nat |-> IF i \in p + 1..q
                                 THEN Low(b[i]) * Pow2[G * (i - 1 - p)] ELSE 0]
Total(b, p, q) == Sums(b, p, q)[q]

(* A group in its place is a number.                                        *)
LEMMA TermTyped ==
  ASSUME NEW b \in Seq(Bytes), NEW p \in Nat, NEW i \in p + 1..Len(b)
  PROVE  /\ Low(b[i]) \in 0..LowMask - 1 /\ G * (i - 1 - p) \in Nat
         /\ Low(b[i]) * Pow2[G * (i - 1 - p)] \in Nat
<1>1. PICK k \in Nat : k = i - 1 - p
  BY WidthAssumption
<1>2. G * k \in Nat
  <2>1. PICK g \in Nat : g = G
    BY WidthAssumption
  <2> QED
    BY <2>1
<1>3. Pow2[G * k] \in Nat
  BY <1>2, PowersKnown
<1>4. b[i] \in Bytes
  OBVIOUS
<1>5. PICK m \in 0..LowMask - 1 : m = Low(b[i])
  BY <1>4, ByteIs
<1>6. m \in Nat
  BY Masks
<1> QED
  BY <1>1, <1>2, <1>3, <1>5, <1>6

(* Sums is the sum of these terms.                                          *)
LEMMA SumsKnown ==
  ASSUME NEW b \in Seq(Bytes), NEW p \in Nat, NEW q \in Nat, p =< q,
         q =< Len(b)
  PROVE  Adds(Sums(b, p, q), Terms(b, p, q), p, q)
<1> DEFINE Summed(s) == [i \in p..q |->
             IF i = p THEN 0
             ELSE s[i - 1] + Low(b[i]) * Pow2[G * (i - 1 - p)]]
<1>1. PICK t : t = Terms(b, p, q)
  OBVIOUS
<1>2. ASSUME NEW i \in p + 1..q
      PROVE  t[i] = Low(b[i]) * Pow2[G * (i - 1 - p)]
  BY <1>1 DEF Terms
<1>3. t \in [Nat -> Int]
  <2>1. ASSUME NEW i \in Nat PROVE t[i] \in Int
    <3>1. CASE i \in p + 1..q
      <4>1. i \in p + 1..Len(b)
        BY <3>1
      <4>2. PICK n \in Nat : n = Low(b[i]) * Pow2[G * (i - 1 - p)]
        BY <4>1, TermTyped
      <4>3. t[i] = n
        BY <1>2, <3>1, <4>2
      <4> QED
        BY <4>2, <4>3
    <3>2. CASE i \notin p + 1..q
      BY <1>1, <3>2 DEF Terms
    <3> QED
      BY <3>1, <3>2
  <2> QED
    BY <1>1, <2>1 DEF Terms
<1>4. PICK n \in Nat : q = p + n
  <2>1. q - p \in Nat /\ q = p + (q - p)
    OBVIOUS
  <2> QED
    BY <2>1
<1>5. PICK f : Adds(f, t, p, q)
  BY <1>3, <1>4, AddsExist
<1>6. f = Summed(f)
  <2>1. ASSUME NEW i \in p..q PROVE f[i] = Summed(f)[i]
    BY <1>2, <1>5 DEF Adds
  <2> QED
    BY <1>5, <2>1 DEF Adds
<1>7. Sums(b, p, q) = CHOOSE s : s = Summed(s)
  BY DEF Sums
<1>8. PICK s : s = Sums(b, p, q) /\ s = Summed(s)
  <2> HIDE DEF Summed
  <2> QED
    BY <1>6, <1>7
<1>9. s[p] = 0
  BY <1>8
<1>10. ASSUME NEW i \in p + 1..q PROVE s[i] = s[i - 1] + t[i]
  BY <1>2, <1>8
<1>11. s \in [p..q -> Int]
  <2> DEFINE S == {k \in p..q : s[k] \notin Int}
  <2>1. CASE S # {}
    <3>1. S \subseteq Nat
      OBVIOUS
    <3>2. PICK k : k \in S /\ \A x \in S : k =< x
      <4> HIDE DEF S
      <4> QED
        BY <2>1, <3>1, LeastOf
    <3>3. k # p
      BY <1>9, <3>2
    <3>4. k \in p + 1..q /\ k - 1 \in p..q /\ ~(k =< k - 1) /\ k \in Nat
      BY <3>2, <3>3
    <3>5. s[k - 1] \in Int /\ t[k] \in Int
      BY <1>3, <3>2, <3>4
    <3> QED
      BY <1>10, <3>2, <3>4, <3>5
  <2>2. CASE S = {}
    <3>1. s = [k \in p..q |-> s[k]]
      BY <1>8
    <3> QED
      BY <2>2, <3>1
  <2> QED
    BY <2>1, <2>2
<1> QED
  BY <1>1, <1>8, <1>9, <1>10, <1>11 DEF Adds

(* Total is the value of the groups from p + 1 to q.                        *)
LEMMA TotalNone ==
  ASSUME NEW b \in Seq(Bytes), NEW p \in 0..Len(b)
  PROVE  Total(b, p, p) = 0
<1>1. p \in Nat /\ Len(b) \in Nat
  OBVIOUS
<1>2. Adds(Sums(b, p, p), Terms(b, p, p), p, p)
  BY <1>1, SumsKnown
<1> QED
  BY <1>2 DEF Adds, Total

(* Bytes after the last one, and what else follows, do not matter.          *)
LEMMA TotalPrefix ==
  ASSUME NEW b \in Seq(Bytes), NEW c \in Seq(Bytes), NEW p \in Nat,
         NEW q \in Nat, NEW r \in Nat, p =< q, q =< r, q =< Len(b),
         r =< Len(c), \A i \in p + 1..q : b[i] = c[i]
  PROVE  Sums(b, p, q)[q] = Sums(c, p, r)[q]
<1>1. Adds(Sums(b, p, q), Terms(b, p, q), p, q)
  BY SumsKnown
<1>2. Adds(Sums(c, p, r), Terms(c, p, r), p, r)
  BY SumsKnown
<1>3. \A i \in p + 1..q : Terms(b, p, q)[i] = Terms(c, p, r)[i]
  BY DEF Terms
<1> QED
  BY <1>1, <1>2, <1>3, AddsAgree

(* One byte more.                                                           *)
LEMMA TotalSteps ==
  ASSUME NEW b \in Seq(Bytes), NEW p \in Nat, NEW q \in Nat, p =< q,
         q < Len(b)
  PROVE  Total(b, p, q + 1) =
           Total(b, p, q) + Low(b[q + 1]) * Pow2[G * (q - p)]
<1>1. PICK r \in Nat : r = q + 1 /\ r =< Len(b) /\ r \in p + 1..r /\ r - 1 = q
  OBVIOUS
<1>2. Adds(Sums(b, p, r), Terms(b, p, r), p, r)
  BY <1>1, SumsKnown
<1>3. Sums(b, p, r)[r] = Sums(b, p, r)[r - 1] + Terms(b, p, r)[r]
  BY <1>1, <1>2 DEF Adds
<1>4. Terms(b, p, r)[r] = Low(b[r]) * Pow2[G * (r - 1 - p)]
  BY <1>1 DEF Terms
<1>5. Sums(b, p, q)[q] = Sums(b, p, r)[q]
  BY <1>1, TotalPrefix
<1> QED
  BY <1>1, <1>3, <1>4, <1>5 DEF Total

(* A group more is a power of LowMask more.                                 *)
LEMMA PlaceSteps ==
  ASSUME NEW k \in Nat
  PROVE  /\ G * k \in Nat /\ Pow2[G * k] \in Nat /\ Pow2[G * k] >= 1
         /\ Pow2[G * (k + 1)] = LowMask * Pow2[G * k]
<1>1. PICK g \in Nat : g = G
  BY WidthAssumption
<1>2. g * k \in Nat /\ g * (k + 1) = g * k + g
  OBVIOUS
<1>3. PICK a \in Nat : a = g * k
  BY <1>2
<1>4. Pow2[a + g] = Pow2[a] * Pow2[g] /\ Pow2[a] \in Nat /\ Pow2[g] \in Nat
      /\ Pow2[a] >= 1
  BY PowersMultiply, PowersPositive
<1>5. Pow2[a] * Pow2[g] = Pow2[g] * Pow2[a]
  BY <1>4
<1> QED
  BY <1>1, <1>2, <1>3, <1>4, <1>5 DEF LowMask

(* A number of q - p groups is below the next group's place.                *)
LEMMA TotalBelow ==
  ASSUME NEW b \in Seq(Bytes), NEW p \in Nat, NEW n \in Nat, p + n =< Len(b)
  PROVE  /\ Total(b, p, p + n) \in Nat
         /\ Total(b, p, p + n) < Pow2[G * n]
<1> DEFINE Below(k) == /\ Total(b, p, p + k) \in Nat
                       /\ Total(b, p, p + k) < Pow2[G * k]
           S == {k \in 0..n : ~Below(k)}
<1>1. CASE S = {}
  <2>1. n \in 0..n
    OBVIOUS
  <2> QED
    BY <1>1, <2>1
<1>2. CASE S # {}
  <2>1. S \subseteq Nat
    OBVIOUS
  <2>2. PICK k : k \in S /\ \A x \in S : k =< x
    <3> HIDE DEF S
    <3> QED
      BY <1>2, <2>1, LeastOf
  <2>3. Below(0)
    <3>1. p + 0 = p /\ p \in 0..Len(b) /\ G * 0 = 0
      BY WidthAssumption
    <3>2. Total(b, p, p) = 0
      BY <3>1, TotalNone
    <3>3. Pow2[G * 0] = 1 /\ Total(b, p, p + 0) = 0
      <4>1. PICK t : t = Total(b, p, p) /\ t = 0
        BY <3>2
      <4>2. Total(b, p, p + 0) = t
        <5> HIDE DEF Below
        <5> QED
          BY <3>1, <4>1
      <4>3. Pow2[G * 0] = 1
        BY <3>1, PowersKnown
      <4> QED
        BY <4>1, <4>2, <4>3
    <3> QED
      BY <3>3
  <2>4. k # 0
    BY <2>2, <2>3
  <2>5. PICK j \in Nat : k = j + 1 /\ j \in 0..n /\ ~(k =< j)
    <3>1. k - 1 \in Nat /\ k = (k - 1) + 1 /\ k - 1 \in 0..n /\ ~(k =< k - 1)
      BY <2>2, <2>4
    <3> QED
      BY <3>1
  <2>6. Below(j)
    BY <2>2, <2>5
  <2>7. PICK q \in Nat : /\ q = p + j /\ p =< q /\ q < Len(b)
                         /\ q + 1 = p + k /\ q - p = j
    <3>1. k =< n
      BY <2>2
    <3> QED
      BY <2>5, <3>1
  <2>8. PICK P \in Nat : P = Pow2[G * j] /\ P >= 1
    BY PlaceSteps
  <2>9. PICK s \in Nat : s = Total(b, p, q) /\ s < P
    BY <2>6, <2>7, <2>8
  <2>10. PICK M \in Nat : M = LowMask /\ M >= 2
    BY Masks
  <2>11. PICK m \in 0..M - 1 : m = Low(b[q + 1])
    <3>1. q + 1 \in p + 1..Len(b)
      BY <2>7
    <3> QED
      BY <2>10, <3>1, TermTyped
  <2>12. Total(b, p, p + k) = s + m * P
    BY <2>7, <2>8, <2>9, <2>11, TotalSteps
  <2>13. Pow2[G * k] = M * P
    BY <2>5, <2>8, <2>10, PlaceSteps
  <2>14. s + m * P \in Nat /\ s + m * P < M * P
    <3>1. m * P \in Nat
      BY <2>11
    <3>2. (m + 1) * P =< M * P
      <4>1. m + 1 \in Nat /\ m + 1 =< M
        BY <2>10, <2>11
      <4> QED
        BY ONLY <4>1, <2>8, <2>10, ProductGrows
    <3>3. (m + 1) * P = m * P + P
      BY <2>11
    <3> QED
      BY <2>9, <3>1, <3>2, <3>3
  <2> QED
    BY <2>2, <2>12, <2>13, <2>14
<1> QED
  BY <1>1, <1>2

-----------------------------------------------------------------------------
(* The number that the groups mean, before it is cut to Size bits.          *)
Meant(b, p, q, s) == IF s /\ SignBit(b[q]) THEN Total(b, p, q) - Pow2[G * (q - p)]
                     ELSE Total(b, p, q)

(* What int_type can hold is what cutting leaves as it is.                  *)
LEMMA HeldIs ==
  ASSUME NEW s \in BOOLEAN, NEW n \in Numbers(s)
  PROVE  AsType(n % Pow2[Size], s) = n
<1>1. PICK H \in Nat : /\ H = Pow2[Size - 1] /\ H >= 1
                       /\ Pow2[Size] = 2 * H
  <2>1. Size - 1 \in Nat
    BY WidthAssumption
  <2> QED
    BY <2>1, WidthAssumption, PowersPositive, HalvesKnown
<1>2. PICK M \in Nat : M = Pow2[Size] /\ M = 2 * H
  BY <1>1
<1>3. CASE s
  <2>1. n \in -H..H - 1
    BY <1>1, <1>3 DEF Numbers
  <2>2. CASE n >= 0
    <3>1. n \in 0..M - 1
      BY <1>2, <2>1, <2>2
    <3>2. n % M = n
      BY <1>1, <1>2, <3>1, RemainderSmall
    <3> QED
      BY <1>1, <1>2, <2>1, <3>2 DEF AsType
  <2>3. CASE n < 0
    <3>1. PICK y \in 0..M - 1 : y = n + M
      BY <1>2, <2>1, <2>3
    <3>2. n \in Int /\ n = y + (-1) * M
      BY <2>1, <3>1
    <3>3. n % M = y
      BY <1>1, <1>2, <3>2, RemainderIs
    <3>4. y >= H /\ y - M = n
      BY <1>2, <2>1, <3>1
    <3> QED
      BY <1>1, <1>2, <1>3, <3>1, <3>3, <3>4 DEF AsType
  <2> QED
    BY <2>1, <2>2, <2>3
<1>4. CASE ~s
  <2>1. n \in 0..M - 1
    BY <1>2, <1>4 DEF Numbers
  <2>2. n % M = n
    BY <1>1, <1>2, <2>1, RemainderSmall
  <2> QED
    BY <1>2, <1>4, <2>2 DEF AsType
<1> QED
  BY <1>3, <1>4

(* The sign bit of the last byte is the highest of its groups' bits.        *)
LEMMA SignIsHalf ==
  ASSUME NEW b \in Seq(Bytes), NEW p \in Nat, NEW q \in Nat, p =< q,
         q < Len(b)
  PROVE  SignBit(b[q + 1]) <=>
           2 * Total(b, p, q + 1) >= Pow2[G * (q + 1 - p)]
<1>1. PICK k \in Nat : k = q - p /\ q + 1 - p = k + 1 /\ q = p + k
  OBVIOUS
<1>2. PICK P \in Nat : P = Pow2[G * k] /\ P >= 1
  BY PlaceSteps
<1>3. PICK s \in Nat : s = Total(b, p, q) /\ s < P
  <2>1. p + k =< Len(b)
    BY <1>1
  <2>2. Total(b, p, p + k) \in Nat /\ Total(b, p, p + k) < P
    BY <1>2, <2>1, TotalBelow
  <2> QED
    BY <1>1, <2>2
<1>4. PICK h \in Nat : h = Pow2[G - 1] /\ h >= 1 /\ LowMask = 2 * h
  BY Masks
<1>5. PICK m \in 0..2 * h - 1 : m = Low(b[q + 1])
  <2>1. q + 1 \in p + 1..Len(b)
    OBVIOUS
  <2> QED
    BY <1>4, <2>1, TermTyped
<1>6. Total(b, p, q + 1) = s + m * P
  BY <1>1, <1>2, <1>3, <1>5, TotalSteps
<1>7. Pow2[G * (k + 1)] = (2 * h) * P
  BY <1>2, <1>4, PlaceSteps
<1>8. SignBit(b[q + 1]) <=> m >= h
  BY <1>4, <1>5 DEF SignBit
<1>9. m >= h => m * P >= h * P
  BY <1>5
<1>10. m =< h - 1 => m * P =< (h - 1) * P
  BY <1>5
<1>11. (h - 1) * P = h * P - P /\ (2 * h) * P = 2 * (h * P)
  OBVIOUS
<1>12. PICK a \in Int, d \in Int : a = m * P /\ d = h * P
  BY <1>5
<1>13. m >= h <=> 2 * (s + a) >= 2 * d
  <2>1. CASE m >= h
    BY <1>3, <1>9, <1>12, <2>1
  <2>2. CASE m < h
    <3>1. m =< h - 1
      BY <1>5, <2>2
    <3>2. a =< d - P
      BY <1>10, <1>11, <1>12, <3>1
    <3> QED
      BY <1>3, <1>5, <2>2, <3>2
  <2> QED
    BY <1>5, <2>1, <2>2
<1> QED
  BY <1>1, <1>6, <1>7, <1>8, <1>11, <1>12, <1>13

(* Reference is what is meant, cut.                                         *)
LEMMA ReferenceCuts ==
  ASSUME NEW b, NEW p, NEW q, NEW s
  PROVE  Reference(b, p, q, s) = AsType(Meant(b, p, q, s) % Pow2[Size], s)
BY DEF Reference, Meant, Total

(* That a number x is cut to y by a word of M values.                       *)
Cut(x, M, y) == x % M = y

(* A number that fits, cut.                                                 *)
LEMMA CutsFitting ==
  ASSUME NEW M \in Nat, NEW P \in Nat, NEW t \in Nat, t < P, P =< M
  PROVE  Cut(t, M, t)
<1>1. t \in 0..M - 1 /\ M \in Nat \ {0}
  OBVIOUS
<1> QED
  BY <1>1, RemainderSmall DEF Cut

(* A negative number that fits, cut.                                        *)
LEMMA CutsNegative ==
  ASSUME NEW M \in Nat, NEW P \in Nat, NEW t \in Nat, t < P, P =< M,
         NEW x, x = t - P, NEW y, y = t + M - P
  PROVE  Cut(x, M, y)
<1>1. y \in 0..M - 1 /\ M \in Nat \ {0}
  OBVIOUS
<1>2. x = y + (-1) * M
  OBVIOUS
<1> QED
  BY <1>1, <1>2, RemainderIs DEF Cut

(* Whole multiples are cut off.                                             *)
LEMMA CutsMultiple ==
  ASSUME NEW M \in Nat \ {0}, NEW C \in Nat, NEW t \in Nat,
         NEW P, P = M * C, NEW x \in Int, x = t - P, NEW v, Cut(t, M, v)
  PROVE  Cut(x, M, v)
<1>1. PICK y \in 0..M - 1, d \in Int : y = t % M /\ t = d * M + y
  <2>1. t \div M \in Int /\ t % M \in 0..M - 1
        /\ t = (t \div M) * M + (t % M)
    OBVIOUS
  <2> QED
    BY <2>1
<1>2. PICK f \in Int : f = d - C
  OBVIOUS
<1>3. f * M = d * M - M * C
  BY <1>2
<1>4. x = y + f * M
  <2>1. x = d * M + y - M * C
    BY <1>1, <1>2
  <2> QED
    BY <1>3, <2>1
<1>5. x % M = y
  BY <1>4, RemainderIs
<1> QED
  BY <1>1, <1>5 DEF Cut

(* What Decode computes from the sum of the groups it has read.             *)
LEMMA DecodedIs ==
  ASSUME NEW b \in Seq(Bytes), NEW p \in Nat, NEW n \in Nat, p + n =< Len(b),
         NEW s \in BOOLEAN, NEW v, v = Total(b, p, p + n) % Pow2[Size]
  PROVE  Reference(b, p, p + n, s) =
           AsType(IF s /\ G * n < Size /\ SignBit(b[p + n])
                  THEN v + Pow2[Size] - Pow2[G * n] ELSE v, s)
<1>1. PICK q \in Nat : q = p + n /\ q - p = n
  OBVIOUS
<1>2. PICK P \in Nat, t \in Nat : P = Pow2[G * n] /\ t = Total(b, p, q) /\ t < P
  BY <1>1, PlaceSteps, TotalBelow
<1>3. PICK M \in Nat \ {0} : M = Pow2[Size]
  BY WidthAssumption, PowersPositive
<1>4. PICK e \in Nat : e = G * n
  BY PlaceSteps
<1>5. PICK z \in Nat : z = Size
  BY WidthAssumption
<1>6. PICK m : m = Meant(b, p, q, s)
  OBVIOUS
<1>7. m = IF s /\ SignBit(b[q]) THEN t - P ELSE t
  BY <1>1, <1>2, <1>6 DEF Meant
<1>8. v = t % M /\ Cut(t, M, v)
  BY <1>1, <1>2, <1>3 DEF Cut
<1>9. CASE s /\ SignBit(b[q]) /\ e < z
  <2>1. P =< M
    <3>1. 2 * Pow2[e] =< Pow2[z]
      BY <1>9, PowersGrow
    <3> QED
      BY <1>2, <1>3, <1>4, <1>5, <3>1
  <2>2. PICK x \in Int : x = t - P /\ m = x
    BY <1>7, <1>9
  <2>3. PICK y : y = t + M - P
    OBVIOUS
  <2>4. Cut(t, M, t) /\ Cut(x, M, y)
    BY <1>2, <2>1, <2>2, <2>3, CutsFitting, CutsNegative
  <2>5. m % M = v + M - P
    BY <1>8, <2>2, <2>3, <2>4 DEF Cut
  <2> QED
    BY <1>1, <1>2, <1>3, <1>4, <1>5, <1>6, <1>9, <2>5, ReferenceCuts
<1>10. CASE s /\ SignBit(b[q]) /\ ~(e < z)
  <2>1. PICK c \in Nat : e = z + c
    <3>1. e - z \in Nat /\ e = z + (e - z)
      BY <1>10
    <3> QED
      BY <3>1
  <2>2. PICK C \in Nat : C = Pow2[c]
    BY PowersKnown
  <2>3. Pow2[e] = Pow2[z] * Pow2[c]
    BY <2>1, PowersMultiply
  <2>4. P = M * C
    BY <1>2, <1>3, <1>4, <1>5, <2>2, <2>3
  <2>5. PICK x \in Int : x = t - P /\ m = x
    BY <1>7, <1>10
  <2>6. Cut(x, M, v)
    BY <1>8, <2>4, <2>5, CutsMultiple
  <2>7. m % M = v
    BY <2>5, <2>6 DEF Cut
  <2> QED
    BY <1>1, <1>3, <1>4, <1>5, <1>6, <1>10, <2>7, ReferenceCuts
<1>11. CASE ~(s /\ SignBit(b[q]))
  <2>1. m % M = v
    BY <1>7, <1>8, <1>11
  <2> QED
    BY <1>1, <1>3, <1>6, <1>11, <2>1, ReferenceCuts
<1> QED
  BY <1>9, <1>10, <1>11

-----------------------------------------------------------------------------
(* Encode.  After q bytes of x the rest is v: the byte is the last one when *)
(* the rest is what its sign says (leb128.h:26).                            *)
IsLast(b, q, v, s) ==
  IF s THEN (v = 0 /\ ~SignBit(b[q])) \/ (v = -1 /\ SignBit(b[q]))
  ELSE v = 0

(* Then the bytes mean the number.                                          *)
LEMMA LastMeans ==
  ASSUME NEW b, NEW q, NEW s \in BOOLEAN, NEW x \in Numbers(s), NEW v \in Int,
         NEW t \in Int, NEW P \in Int, t = Total(b, 0, q),
         P = Pow2[G * (q - 0)], x = t + v * P, IsLast(b, q, v, s)
  PROVE  Reference(b, 0, q, s) = x
<1>1. Meant(b, 0, q, s) = x
  <2>1. CASE s /\ v = -1 /\ SignBit(b[q])
    BY <2>1 DEF Meant
  <2>2. CASE v = 0 /\ ~(s /\ SignBit(b[q]))
    BY <2>2 DEF Meant
  <2> QED
    BY <2>1, <2>2 DEF IsLast
<1>2. Reference(b, 0, q, s) = AsType(x % Pow2[Size], s)
  BY <1>1, ReferenceCuts
<1> QED
  BY <1>2, HeldIs

(* What the groups so far are, in terms of the next one's place.            *)
LEMMA SoFar ==
  ASSUME NEW b \in Seq(Bytes), NEW r \in Nat, r < Len(b)
  PROVE  \E t \in Nat, P \in Nat :
           /\ t = Total(b, 0, r + 1) /\ P = Pow2[G * (r + 1)] /\ P >= 1 /\ t < P
           /\ SignBit(b[r + 1]) <=> 2 * t >= P
<1>1. PICK q \in Nat : q = r + 1 /\ 0 + q =< Len(b) /\ 0 + q = q /\ q - 0 = q
                       /\ r + 1 - 0 = q
  OBVIOUS
<1>2. Total(b, 0, 0 + q) \in Nat /\ Total(b, 0, 0 + q) < Pow2[G * q]
  BY <1>1, TotalBelow
<1>3. PICK P \in Nat : P = Pow2[G * q] /\ P >= 1
  BY PlaceSteps
<1>4. PICK t \in Nat : t = Total(b, 0, q) /\ t < P
  BY <1>1, <1>2, <1>3
<1>5. SignBit(b[r + 1]) <=> 2 * Total(b, 0, r + 1) >= Pow2[G * (r + 1 - 0)]
  BY SignIsHalf
<1>6. SignBit(b[q]) <=> 2 * t >= P
  BY <1>1, <1>3, <1>4, <1>5
<1> QED
  BY <1>1, <1>3, <1>4, <1>6

\* The bounds of int_type.
LEMMA NumbersAre ==
  \E H \in Nat : /\ H >= 1 /\ Pow2[Size] = 2 * H
                 /\ Numbers(TRUE) = -H..H - 1
                 /\ Numbers(FALSE) = 0..2 * H - 1
<1>1. Size - 1 \in Nat
  BY WidthAssumption
<1>2. PICK H \in Nat : H = Pow2[Size - 1] /\ H >= 1 /\ Pow2[Size] = 2 * H
  BY <1>1, WidthAssumption, PowersPositive, HalvesKnown
<1> QED
  BY <1>2 DEF Numbers

(* Multiples of a place.                                                    *)
LEMMA Multiples ==
  ASSUME NEW P \in Nat, P >= 1, NEW v \in Int
  PROVE  \E y \in Int : /\ y = v * P
                        /\ v >= 1 => y >= P
                        /\ v =< -2 => y + P =< -P
                        /\ v = -1 => y = -P
                        /\ v = 0 => y = 0
<1>1. v >= 1 => v * P >= P
  OBVIOUS
<1>2. v =< -2 => v * P + P =< -P
  <2>1. v =< -2 => (v + 1) * P =< -P
    OBVIOUS
  <2>2. (v + 1) * P = v * P + P
    OBVIOUS
  <2> QED
    BY <2>1, <2>2
<1>3. v = -1 => v * P = -P
  OBVIOUS
<1>4. v = 0 => v * P = 0
  OBVIOUS
<1> QED
  BY <1>1, <1>2, <1>3, <1>4

(* How a number compares with the places around it.                         *)
LEMMA Compares ==
  ASSUME NEW P \in Nat, P >= 1, NEW t \in Nat, t < P, NEW v \in Int,
         NEW x \in Int, NEW y \in Int, x = t + y, v >= 1 => y >= P,
         v =< -2 => y + P =< -P, v = -1 => y = -P, v = 0 => y = 0,
         NEW H \in Nat, H >= 1
  PROVE  /\ (v # 0 => x # t) /\ (v # -1 => x # t - P)
         /\ P =< H => t - P \in -H..H - 1
         /\ 2 * H =< P /\ x \in -H..H - 1 =>
              /\ v = 0 \/ v = -1
              /\ v = 0 => 2 * t < P
              /\ v = -1 => 2 * t >= P
         /\ 2 * H =< P /\ x \in 0..2 * H - 1 => v = 0
<1>1. v >= 1 \/ v =< -2 \/ v = -1 \/ v = 0
  OBVIOUS
<1>2. (v # 0 => x # t) /\ (v # -1 => x # t - P)
  BY <1>1
<1>3. P =< H => t - P \in -H..H - 1
  OBVIOUS
<1>4. ASSUME 2 * H =< P, x \in -H..H - 1
      PROVE  /\ v = 0 \/ v = -1
             /\ v = 0 => 2 * t < P
             /\ v = -1 => 2 * t >= P
  <2>1. v = 0 \/ v = -1
    BY <1>1, <1>4
  <2>2. v = 0 => 2 * t < P
    BY <1>4
  <2>3. v = -1 => 2 * t >= P
    BY <1>4
  <2> QED
    BY <2>1, <2>2, <2>3
<1>5. 2 * H =< P /\ x \in 0..2 * H - 1 => v = 0
  BY <1>1
<1> QED
  BY <1>2, <1>3, <1>4, <1>5

(* Before the last byte the bytes mean something else.                      *)
LEMMA NotLastMeans ==
  ASSUME NEW b \in Seq(Bytes), NEW r \in Nat, r < Len(b), NEW s \in BOOLEAN,
         NEW x \in Numbers(s), NEW v \in Int,
         x = Total(b, 0, r + 1) + v * Pow2[G * (r + 1)],
         ~IsLast(b, r + 1, v, s), G * (r + 1) < Size
  PROVE  Reference(b, 0, r + 1, s) # x
<1>1. PICK t \in Nat, P \in Nat :
        /\ t = Total(b, 0, r + 1) /\ P = Pow2[G * (r + 1)] /\ P >= 1 /\ t < P
        /\ SignBit(b[r + 1]) <=> 2 * t >= P
  BY SoFar
<1>2. PICK H \in Nat : /\ H >= 1 /\ Pow2[Size] = 2 * H
                       /\ Numbers(TRUE) = -H..H - 1
                       /\ Numbers(FALSE) = 0..2 * H - 1
  BY NumbersAre
<1>3. P =< H
  <2>1. PICK e \in Nat, z \in Nat : e = G * (r + 1) /\ z = Size /\ e < z
    <3>1. r + 1 \in Nat
      OBVIOUS
    <3> QED
      BY <3>1, PlaceSteps, WidthAssumption
  <2>2. 2 * Pow2[e] =< Pow2[z]
    BY <2>1, PowersGrow
  <2> QED
    BY <1>1, <1>2, <2>1, <2>2
<1>4. PICK y \in Int : /\ x = t + y
                       /\ v >= 1 => y >= P
                       /\ v =< -2 => y + P =< -P
                       /\ v = -1 => y = -P
                       /\ v = 0 => y = 0
  <2>1. PICK y \in Int : /\ y = v * P
                         /\ v >= 1 => y >= P
                         /\ v =< -2 => y + P =< -P
                         /\ v = -1 => y = -P
                         /\ v = 0 => y = 0
    BY <1>1, Multiples
  <2>2. x = t + y
    BY <1>1, <2>1
  <2> QED
    BY <2>1, <2>2
<1>5. (v # 0 => x # t) /\ (v # -1 => x # t - P) /\ t - P \in -H..H - 1
  <2>1. x \in Int /\ t < P /\ P >= 1 /\ H >= 1
    BY <1>1, <1>2, <1>4
  <2> QED
    BY <1>3, <1>4, <2>1, Compares
<1>6. PICK n \in Int : /\ s /\ SignBit(b[r + 1]) => n = t - P
                       /\ ~(s /\ SignBit(b[r + 1])) => n = t
  <2>1. CASE s /\ SignBit(b[r + 1])
    <3>1. t - P \in Int
      OBVIOUS
    <3> QED
      BY <2>1, <3>1
  <2>2. CASE ~(s /\ SignBit(b[r + 1]))
    BY <2>2
  <2> QED
    BY <2>1, <2>2
<1>7. n \in Numbers(s)
  <2>1. CASE s /\ SignBit(b[r + 1])
    <3>1. n = t - P
      BY <1>6, <2>1
    <3>2. n \in -H..H - 1
      BY <1>5, <3>1
    <3>3. s = TRUE
      BY <2>1
    <3> QED
      BY <1>2, <3>2, <3>3
  <2>2. CASE s /\ ~SignBit(b[r + 1])
    <3>1. ~(2 * t >= P) /\ n = t
      BY <1>1, <1>6, <2>2
    <3>2. n \in -H..H - 1
      BY <1>3, <3>1
    <3>3. s = TRUE
      BY <2>2
    <3> QED
      BY <1>2, <3>2, <3>3
  <2>3. CASE ~s
    <3>1. n = t
      BY <1>6, <2>3
    <3>2. n \in 0..2 * H - 1
      BY <1>1, <1>3, <3>1
    <3>3. s = FALSE
      BY <2>3
    <3> QED
      BY <1>2, <3>2, <3>3
  <2> QED
    BY <2>1, <2>2, <2>3
<1>8. n # x
  BY <1>5, <1>6 DEF IsLast
<1>9. Meant(b, 0, r + 1, s) = n
  <2>1. r + 1 - 0 = r + 1
    OBVIOUS
  <2> QED
    BY <1>1, <1>6, <2>1 DEF Meant
<1>10. Reference(b, 0, r + 1, s) = n
  BY <1>7, <1>9, ReferenceCuts, HeldIs
<1> QED
  BY <1>8, <1>10

(* Groups bytes are enough.                                                 *)
LEMMA LastInTime ==
  ASSUME NEW b \in Seq(Bytes), NEW r \in Nat, r < Len(b), NEW s \in BOOLEAN,
         NEW x \in Numbers(s), NEW v \in Int,
         x = Total(b, 0, r + 1) + v * Pow2[G * (r + 1)],
         ~(G * (r + 1) < Size)
  PROVE  IsLast(b, r + 1, v, s)
<1>1. PICK t \in Nat, P \in Nat :
        /\ t = Total(b, 0, r + 1) /\ P = Pow2[G * (r + 1)] /\ P >= 1 /\ t < P
        /\ SignBit(b[r + 1]) <=> 2 * t >= P
  BY SoFar
<1>2. PICK H \in Nat : /\ H >= 1 /\ Pow2[Size] = 2 * H
                       /\ Numbers(TRUE) = -H..H - 1
                       /\ Numbers(FALSE) = 0..2 * H - 1
  BY NumbersAre
<1>3. 2 * H =< P
  <2>1. PICK e \in Nat, z \in Nat : e = G * (r + 1) /\ z = Size /\ z =< e
    <3>1. r + 1 \in Nat
      OBVIOUS
    <3> QED
      BY <3>1, PlaceSteps, WidthAssumption
  <2>2. CASE z = e
    BY <1>1, <1>2, <2>1, <2>2
  <2>3. CASE z < e
    <3>1. 2 * Pow2[z] =< Pow2[e]
      BY <2>3, PowersGrow
    <3> QED
      BY <1>1, <1>2, <2>1, <3>1
  <2> QED
    BY <2>1, <2>2, <2>3
<1>4. PICK y \in Int : /\ x = t + y
                       /\ v >= 1 => y >= P
                       /\ v =< -2 => y + P =< -P
                       /\ v = -1 => y = -P
                       /\ v = 0 => y = 0
  <2>1. PICK y \in Int : /\ y = v * P
                         /\ v >= 1 => y >= P
                         /\ v =< -2 => y + P =< -P
                         /\ v = -1 => y = -P
                         /\ v = 0 => y = 0
    BY <1>1, Multiples
  <2>2. x = t + y
    BY <1>1, <2>1
  <2> QED
    BY <2>1, <2>2
<1>5. x \in Int /\ t < P /\ P >= 1 /\ H >= 1
  BY <1>1, <1>2, <1>4
<1>6. CASE s
  <2>1. x \in -H..H - 1
    BY <1>2, <1>6
  <2>2. (v = 0 \/ v = -1) /\ (v = 0 => 2 * t < P) /\ (v = -1 => 2 * t >= P)
    BY <1>3, <1>4, <1>5, <2>1, Compares
  <2> QED
    BY <1>1, <1>6, <2>2 DEF IsLast
<1>7. CASE ~s
  <2>1. x \in 0..2 * H - 1
    <3>1. s = FALSE
      BY <1>7
    <3> QED
      BY <1>2, <3>1
  <2>2. v = 0
    BY <1>3, <1>4, <1>5, <2>1, Compares
  <2> QED
    BY <1>7, <2>2 DEF IsLast
<1> QED
  BY <1>6, <1>7

-----------------------------------------------------------------------------
(* The invariant.  A stream that Encode wrote is as short as a number; the  *)
(* others are within their bound.                                           *)
Streamed ==
  /\ buffer \in Seq(Bytes)
  /\ position \in 0..Len(buffer) /\ begin \in 0..position
  /\ doing \in {"idle", "encode", "decode"}
  /\ signed \in BOOLEAN
  /\ value \in Numbers(FALSE) \cup Numbers(TRUE)
  /\ shift \in 0..Groups * G
  /\ byte \in Bytes
  /\ \A x \in source : x.signed \in BOOLEAN /\ x.n \in Numbers(x.signed)
  /\ Len(buffer) =< MaxBytes \/ source # {}
  /\ doing # "idle" => outcome = None

(* Decode has summed up the groups since begin, all of them to be continued.*)
Decoding == doing = "decode" =>
  /\ position - begin =< Groups
  /\ shift = G * (position - begin)
  /\ Unended(begin, position - 1)
  /\ byte = IF position = begin THEN LowMask ELSE buffer[position]
  /\ value = Total(buffer, begin, position) % Pow2[Size]

(* Encode has written the lower groups of the number, and value is the rest;*)
(* no first part of the output means the number.                            *)
Differs(x, q) == Reference(buffer, 0, q, x.signed) # x.n

Encoding == doing = "encode" =>
  /\ position = 0 /\ source # {} /\ Len(buffer) < Groups
  /\ value \in Numbers(signed)
  /\ Unended(0, Len(buffer))
  /\ \A x \in source :
       /\ x.signed = signed
       /\ x.n = Total(buffer, 0, Len(buffer)) + value * Pow2[G * Len(buffer)]
       /\ \A q \in 1..Len(buffer) : Differs(x, q)

(* Afterwards the whole output means the number, and nothing shorter does.  *)
Encoded == doing # "encode" => \A x \in source :
  /\ Len(buffer) \in 1..Groups
  /\ Ends(Len(buffer)) /\ Unended(0, Len(buffer) - 1)
  /\ Reference(buffer, 0, Len(buffer), x.signed) = x.n
  /\ \A q \in 1..Len(buffer) - 1 : Differs(x, q)

Coding == Streamed /\ Decoding /\ Encoding /\ Encoded /\ DecodesReference

\* What TypeOK says follows.
LEMMA StreamedTypes == Streamed => StreamTypeOK
<1> SUFFICES ASSUME Streamed PROVE StreamTypeOK
  OBVIOUS
<1>1. \A i \in DOMAIN buffer : buffer[i] \in Bytes
  BY DEF Streamed
<1> QED
  BY <1>1 DEF Streamed, StreamTypeOK

(* A stream that was not encoded here, or an empty output.                  *)
LEMMA InitCoding == StreamInit => Coding
<1> SUFFICES ASSUME StreamInit PROVE Coding
  OBVIOUS
<1>1. position = 0 /\ begin = 0 /\ shift = 0 /\ byte = 0 /\ outcome = None
  BY DEF StreamInit
<1>2. 0 \in 0..Groups * G
  <2>1. PICK n \in Nat, g \in Nat : n = Groups /\ g = G
    BY GroupsCover, WidthAssumption
  <2>2. n * g \in Nat
    OBVIOUS
  <2> QED
    BY <2>1, <2>2
<1>3. 0 \in Bytes /\ 0 \in Numbers(FALSE)
  <2>1. PICK M \in Nat : M = LowMask /\ M >= 2
    BY Masks
  <2>2. PICK H \in Nat : H >= 1 /\ Numbers(FALSE) = 0..2 * H - 1
    BY NumbersAre
  <2>3. 0 \in 0..2 * M - 1 /\ 0 \in 0..2 * H - 1
    BY <2>1, <2>2
  <2> QED
    BY <2>1, <2>2, <2>3 DEF Bytes
<1>4. DecodesReference
  BY <1>1 DEF None, Call, DecodesReference
<1>5. CASE /\ buffer \in UNION {[1..n -> Bytes] : n \in 0..MaxBytes}
           /\ doing = "idle" /\ signed = FALSE /\ value = 0 /\ source = {}
  <2>1. PICK n \in 0..MaxBytes : buffer \in [1..n -> Bytes]
    BY <1>5
  <2>2. n \in Nat /\ n =< MaxBytes
    BY WidthAssumption
  <2>3. buffer \in Seq(Bytes) /\ Len(buffer) = n
    BY <2>1, <2>2
  <2>4. Streamed
    <3>1. position \in 0..Len(buffer) /\ begin \in 0..position
      BY <1>1, <2>2, <2>3
    <3>2. value \in Numbers(FALSE) \cup Numbers(TRUE)
      BY <1>3, <1>5
    <3>3. shift \in 0..Groups * G /\ byte \in Bytes
      BY <1>1, <1>2, <1>3
    <3> QED
      BY <1>5, <2>2, <2>3, <3>1, <3>2, <3>3 DEF Streamed
  <2> QED
    BY <1>4, <1>5, <2>4 DEF Coding, Decoding, Encoding, Encoded
<1>6. CASE /\ buffer = <<>> /\ doing = "encode" /\ signed \in BOOLEAN
           /\ value \in Numbers(signed)
           /\ source = {[n |-> value, signed |-> signed]}
  <2>1. buffer \in Seq(Bytes) /\ Len(buffer) = 0
    BY <1>6
  <2>2. value \in Numbers(FALSE) \cup Numbers(TRUE) /\ value \in Int
    BY <1>6 DEF Numbers
  <2>3. Streamed
    <3>1. position \in 0..Len(buffer) /\ begin \in 0..position
      BY <1>1, <2>1
    <3>2. shift \in 0..Groups * G /\ byte \in Bytes
      BY <1>1, <1>2, <1>3
    <3>3. \A x \in source : x.signed \in BOOLEAN /\ x.n \in Numbers(x.signed)
      BY <1>6
    <3> QED
      BY <1>1, <1>6, <2>1, <2>2, <3>1, <3>2, <3>3 DEF Streamed
  <2>4. Total(buffer, 0, 0) = 0
    <3>1. 0 \in 0..Len(buffer)
      BY <2>1
    <3> QED
      BY <2>1, <3>1, TotalNone
  <2>5. Pow2[G * 0] = 1
    <3>1. G * 0 = 0
      BY WidthAssumption
    <3> QED
      BY <3>1, PowersKnown
  <2>6. value = Total(buffer, 0, Len(buffer)) + value * Pow2[G * Len(buffer)]
    BY <2>1, <2>2, <2>4, <2>5
  <2>7. 0 < Groups
    BY GroupsCover
  <2>8. Unended(0, Len(buffer)) /\ \A q \in 1..Len(buffer) : FALSE
    BY <2>1 DEF Unended
  <2>9. Encoding
    BY <1>1, <1>6, <2>1, <2>6, <2>7, <2>8 DEF Encoding
  <2> QED
    BY <1>4, <1>6, <2>3, <2>9 DEF Coding, Decoding, Encoded
<1> QED
  BY <1>5, <1>6 DEF StreamInit

(* Of what a call leaves DecodesReference says nothing.                     *)
Uncoded ==
  \/ outcome.call \in {"ReadByte", "PeekByte", "ReadBytes", "Skip"}
  \/ outcome = Call("throw", "EndOfStream") /\ position = begin

(* Reading and skipping bytes touches no number.                            *)
LEMMA CallKeeps ==
  ASSUME Coding, doing = "idle", doing' = "idle",
         UNCHANGED <<buffer, signed, value, shift, byte, source>>,
         begin' = position, position' \in position..Len(buffer),
         Uncoded'
  PROVE  Coding'
<1>1. Streamed /\ Encoded
  BY DEF Coding
<1>2. position \in Nat /\ Len(buffer) \in Nat
  BY <1>1 DEF Streamed
<1>3. position' \in 0..Len(buffer) /\ begin' \in 0..position'
  BY <1>1, <1>2 DEF Streamed
<1>4. Streamed'
  BY <1>1, <1>3 DEF Streamed
<1>5. Encoded'
  BY <1>1 DEF Encoded, Differs, Ends, Unended
<1>6. DecodesReference'
  BY <1>2 DEF Uncoded, DecodesReference, Call
<1> QED
  BY <1>4, <1>5, <1>6 DEF Coding, Decoding, Encoding

(* The calls on the stream.                                                 *)
LEMMA StreamCallKeeps == ASSUME Coding, StreamCall PROVE Coding'
<1>1. position \in 0..Len(buffer) /\ Len(buffer) \in Nat
  BY DEF Coding, Streamed
<1>2. CASE ReadByte
  <2>1. CASE HasRemaining
    <3>1. position + 1 \in position..Len(buffer)
      BY <1>1, <2>1 DEF HasRemaining
    <3>2. /\ doing = "idle" /\ doing' = "idle" /\ begin' = position
          /\ UNCHANGED <<buffer, signed, value, shift, byte, source>>
      BY <1>2, <2>1 DEF ReadByte, Calls
    <3>3. position' = position + 1 /\ outcome'.call = "ReadByte"
      BY <1>2, <2>1 DEF ReadByte, Call
    <3>4. /\ position' \in position..Len(buffer)
          /\ Uncoded'
      BY <3>1, <3>3 DEF Uncoded
    <3> QED
      BY <3>2, <3>4, CallKeeps
  <2>2. CASE ~HasRemaining
    <3>1. position \in position..Len(buffer)
      BY <1>1
    <3> QED
      BY <1>2, <2>2, <3>1, CallKeeps DEF ReadByte, Calls, Throws, Uncoded
  <2> QED
    BY <2>1, <2>2
<1>3. CASE PeekByte
  <2>1. position \in position..Len(buffer)
    BY <1>1
  <2>2. CASE HasRemaining
    BY <1>3, <2>1, <2>2, CallKeeps DEF PeekByte, Calls, Call, Uncoded
  <2>3. CASE ~HasRemaining
    BY <1>3, <2>1, <2>3, CallKeeps DEF PeekByte, Calls, Throws, Uncoded
  <2> QED
    BY <2>2, <2>3
<1>4. ASSUME NEW n \in 0..MaxBytes + 1, ReadBytes(n) \/ Skip(n) PROVE Coding'
  <2>1. n \in Nat
    BY WidthAssumption
  <2>2. CASE n =< Remainder
    <3>1. position + n \in position..Len(buffer)
      BY <1>1, <2>1, <2>2 DEF Remainder
    <3>2. /\ doing = "idle" /\ doing' = "idle" /\ begin' = position
          /\ UNCHANGED <<buffer, signed, value, shift, byte, source>>
      BY <1>4, <2>2 DEF ReadBytes, Skip, Calls
    <3>3. position' = position + n /\ outcome'.call \in {"ReadBytes", "Skip"}
      BY <1>4, <2>2 DEF ReadBytes, Skip, Call
    <3>4. /\ position' \in position..Len(buffer)
          /\ Uncoded'
      BY <3>1, <3>3 DEF Uncoded
    <3> QED
      BY <3>2, <3>4, CallKeeps
  <2>3. CASE ~(n =< Remainder)
    <3>1. position \in position..Len(buffer)
      BY <1>1
    <3> QED
      BY <1>4, <2>3, <3>1, CallKeeps DEF ReadBytes, Skip, Calls, Throws, Uncoded
  <2> QED
    BY <2>2, <2>3
<1> QED
  BY <1>2, <1>3, <1>4 DEF StreamCall

(* Decode begins with nothing read and the continuation bit set.            *)
LEMMA DecodeKeeps ==
  ASSUME Coding, NEW s \in BOOLEAN, Decode(s)
  PROVE  Coding'
<1>1. Streamed /\ Encoded /\ doing = "idle"
  BY DEF Coding, Decode, Calls
<1>2. /\ doing' = "decode" /\ signed' = s /\ value' = 0 /\ shift' = 0
      /\ byte' = LowMask /\ outcome' = None /\ begin' = position
      /\ UNCHANGED <<buffer, position, source>>
  BY DEF Decode, Calls
<1>3. position \in Nat /\ position \in 0..Len(buffer)
  BY <1>1 DEF Streamed
<1>4. 0 \in 0..Groups * G /\ G * 0 = 0 /\ 0 =< Groups
  <2>1. PICK n \in Nat, g \in Nat : n = Groups /\ g = G
    BY GroupsCover, WidthAssumption
  <2>2. n * g \in Nat /\ g * 0 = 0
    OBVIOUS
  <2> QED
    BY <2>1, <2>2
<1>5. LowMask \in Bytes
  BY Masks DEF Bytes
<1>6. 0 \in Numbers(FALSE)
  <2>1. PICK H \in Nat : H >= 1 /\ Numbers(FALSE) = 0..2 * H - 1
    BY NumbersAre
  <2>2. 0 \in 0..2 * H - 1
    BY <2>1
  <2> QED
    BY <2>1, <2>2
<1>7. Streamed'
  <2>1. begin' \in 0..position'
    BY <1>2, <1>3
  <2> QED
    BY <1>1, <1>2, <1>4, <1>5, <1>6, <2>1 DEF Streamed
<1>8. Encoded'
  BY <1>1, <1>2 DEF Encoded, Differs, Ends, Unended
<1>9. Decoding'
  <2>1. position' - begin' = 0
    BY <1>2, <1>3
  <2>2. \A i \in begin' + 1..position' - 1 : Continues(buffer'[i])
    BY <1>2, <1>3
  <2>3. 0 = Total(buffer, position, position) % Pow2[Size]
    <3>1. Total(buffer, position, position) = 0
      BY <1>1, <1>3, TotalNone DEF Streamed
    <3>2. PICK M \in Nat : M = Pow2[Size] /\ M >= 1
      BY WidthAssumption, PowersPositive
    <3>3. 0 \in 0..M - 1
      BY <3>2
    <3> QED
      BY <3>1, <3>2, <3>3, RemainderSmall
  <2>4. (value = Total(buffer, begin, position) % Pow2[Size])'
    BY <1>2, <2>3
  <2> QED
    BY <1>2, <1>4, <2>1, <2>2, <2>4 DEF Decoding, Unended, Continues
<1>10. DecodesReference'
  BY <1>2 DEF DecodesReference, None, Call
<1> QED
  BY <1>2, <1>7, <1>8, <1>9, <1>10 DEF Coding, Encoding

(* What is known while Decode's loop runs.                                  *)
LEMMA LoopKnown ==
  ASSUME Coding, doing = "decode"
  PROVE  \E n \in 0..Groups :
           /\ n \in Nat /\ position = begin + n /\ position - begin = n
           /\ begin \in Nat /\ position \in Nat /\ begin + n =< Len(buffer)
           /\ buffer \in Seq(Bytes) /\ Len(buffer) \in Nat
           /\ shift = G * n /\ shift \in Nat
           /\ Unended(begin, position - 1)
           /\ byte = IF n = 0 THEN LowMask ELSE buffer[position]
           /\ Continues(byte) => Unended(begin, position)
           /\ value = Total(buffer, begin, begin + n) % Pow2[Size]
           /\ outcome = None
<1>1. /\ buffer \in Seq(Bytes) /\ position \in 0..Len(buffer)
      /\ begin \in 0..position /\ outcome = None /\ Len(buffer) \in Nat
  BY DEF Coding, Streamed
<1>2. PICK n \in Nat : position = begin + n /\ position - begin = n
  <2>1. position - begin \in Nat /\ position = begin + (position - begin)
    BY <1>1
  <2> QED
    BY <2>1
<1>3. /\ n =< Groups /\ shift = G * n /\ Unended(begin, position - 1)
      /\ byte = IF position = begin THEN LowMask ELSE buffer[position]
      /\ value = Total(buffer, begin, position) % Pow2[Size]
  BY <1>2 DEF Coding, Decoding
<1>4. n \in 0..Groups /\ shift \in Nat
  BY <1>3, GroupsCover, PlaceSteps
<1>5. position = begin <=> n = 0
  BY <1>1, <1>2
<1>6. Continues(byte) => Unended(begin, position)
  <2>1. ASSUME Continues(byte), NEW i \in begin + 1..position
        PROVE  Continues(buffer[i])
    <3>1. i \in begin + 1..position - 1 \/ (i = position /\ position # begin)
      BY <1>1
    <3> QED
      BY <1>3, <2>1, <3>1 DEF Unended
  <2> QED
    BY <2>1 DEF Unended
<1>7. /\ byte = IF n = 0 THEN LowMask ELSE buffer[position]
      /\ value = Total(buffer, begin, begin + n) % Pow2[Size]
  BY <1>2, <1>3, <1>5
<1>8. begin \in Nat /\ position \in Nat /\ begin + n =< Len(buffer)
  BY <1>1, <1>2
<1> QED
  BY <1>1, <1>2, <1>3, <1>4, <1>6, <1>7, <1>8

(* A turn of the loop adds a group to the sum.                              *)
LEMMA DecodeByteKeeps == ASSUME Coding, DecodeByte PROVE Coding'
<1>1. /\ doing = "decode" /\ shift < Size /\ Continues(byte)
      /\ UNCHANGED <<buffer, signed, source, begin>>
  BY DEF DecodeByte, DecodesMore
<1>2. PICK n \in 0..Groups :
           /\ n \in Nat /\ position = begin + n /\ position - begin = n
           /\ begin \in Nat /\ position \in Nat /\ begin + n =< Len(buffer)
           /\ buffer \in Seq(Bytes) /\ Len(buffer) \in Nat
           /\ shift = G * n /\ shift \in Nat
           /\ Unended(begin, position - 1)
           /\ byte = IF n = 0 THEN LowMask ELSE buffer[position]
           /\ Continues(byte) => Unended(begin, position)
           /\ value = Total(buffer, begin, begin + n) % Pow2[Size]
           /\ outcome = None
  BY <1>1, LoopKnown
<1>3. Streamed /\ Encoded
  BY DEF Coding
<1>4. Encoded' \/ doing' = "encode"
  BY <1>1, <1>3 DEF Encoded, Differs, Ends, Unended
<1>5. CASE ~HasRemaining
  <2>1. /\ outcome' = Call("throw", "EndOfStream") /\ doing' = "idle"
        /\ UNCHANGED <<position, value, shift, byte>>
    BY <1>5 DEF DecodeByte, Throws
  <2>2. position = Len(buffer)
    BY <1>2, <1>5 DEF HasRemaining
  <2>3. Streamed'
    BY <1>1, <1>3, <2>1 DEF Streamed
  <2>4. DecodesReference'
    <3>1. Unended(begin, position)
      BY <1>1, <1>2
    <3> QED
      BY <1>1, <2>1, <2>2, <3>1 DEF DecodesReference, Call, Unended
  <2> QED
    BY <1>4, <2>1, <2>3, <2>4 DEF Coding, Decoding, Encoding
<1>6. CASE HasRemaining
  <2>1. PICK b \in Bytes : b = buffer[position + 1]
    <3>1. position + 1 \in 1..Len(buffer)
      BY <1>2, <1>6 DEF HasRemaining
    <3> QED
      BY <1>2, <3>1
  <2>2. /\ byte' = b /\ position' = position + 1 /\ shift' = shift + G
        /\ value' = (value + Low(b) * Pow2[shift]) % Pow2[Size]
        /\ doing' = "decode" /\ outcome' = None
    BY <1>1, <1>2, <1>6, <2>1 DEF DecodeByte
  <2>3. PICK m \in Nat : m = n + 1 /\ m =< Groups /\ position + 1 = begin + m
                         /\ begin + m - begin = m /\ begin + n < Len(buffer)
    <3>1. n < Groups
      BY <1>1, <1>2, BelowGroups
    <3> QED
      BY <1>2, <1>6, <3>1, GroupsCover DEF HasRemaining
  <2>4. shift' = G * m
    <3>1. PICK g \in Nat : g = G
      BY WidthAssumption
    <3>2. g * (n + 1) = g * n + g
      BY <1>2
    <3> QED
      BY <1>2, <2>2, <2>3, <3>1, <3>2
  <2>5. shift' \in 0..Groups * G
    <3>1. PICK g \in Nat, e \in Nat : g = G /\ e = Groups
      BY WidthAssumption, GroupsCover
    <3>2. g * m =< e * g /\ g * m >= 0
      BY <2>3, <3>1
    <3>3. g * m \in Int /\ e * g \in Int
      OBVIOUS
    <3> QED
      BY <2>4, <3>1, <3>2, <3>3
  <2>6. value' = Total(buffer, begin, begin + m) % Pow2[Size]
    <3>1. PICK M \in Nat \ {0} : M = Pow2[Size]
      BY WidthAssumption, PowersPositive
    <3>2. PICK t \in Int : t = Total(buffer, begin, begin + n)
      BY <1>2, TotalBelow
    <3>3. PICK l \in 0..LowMask - 1 : l = Low(b)
      BY ByteIs
    <3>4. PICK P \in Nat : P = Pow2[G * n]
      BY <1>2, PlaceSteps
    <3>5. PICK a \in Int : a = l * P
      <4>1. l \in Nat
        BY Masks
      <4> QED
        BY <4>1
    <3>6. Total(buffer, begin, begin + m) = t + a
      <4>1. PICK q \in Nat : q = begin + n /\ q - begin = n /\ q + 1 = begin + m
                             /\ begin =< q /\ q < Len(buffer)
        BY <1>2, <2>3
      <4>2. Total(buffer, begin, q + 1) =
              Total(buffer, begin, q) + Low(buffer[q + 1]) * Pow2[G * (q - begin)]
        BY <1>2, <4>1, TotalSteps
      <4> QED
        BY <1>2, <2>1, <2>3, <3>2, <3>3, <3>4, <3>5, <4>1, <4>2
    <3>7. value' = ((t % M) + a) % M
      BY <1>2, <2>2, <3>1, <3>2, <3>3, <3>4, <3>5
    <3>8. \A x, y \in Int : ((x % M) + y) % M = (x + y) % M
      BY RemainderAdds
    <3> QED
      BY <3>1, <3>6, <3>7, <3>8
  <2>7. value' \in Numbers(FALSE)
    <3>1. PICK H \in Nat : /\ H >= 1 /\ Pow2[Size] = 2 * H
                           /\ Numbers(FALSE) = 0..2 * H - 1
      BY NumbersAre
    <3>2. PICK t \in Nat : t = Total(buffer, begin, begin + m)
      <4>1. begin + m =< Len(buffer)
        BY <1>2, <2>3
      <4> QED
        BY <1>2, <4>1, TotalBelow
    <3>3. PICK M \in Nat : M = 2 * H /\ M >= 1
      BY <3>1
    <3>4. t % M \in 0..M - 1
      BY <3>3
    <3> QED
      BY <2>6, <3>1, <3>2, <3>3, <3>4
  <2>8. Streamed'
    <3>1. position' \in 0..Len(buffer) /\ begin \in 0..position'
      BY <1>2, <2>2, <2>3
    <3> QED
      BY <1>1, <1>3, <2>2, <2>5, <2>7, <3>1 DEF Streamed
  <2>9. Decoding'
    <3>1. position' - begin' = m /\ position' = begin + m /\ position' # begin'
      BY <1>1, <1>2, <2>2, <2>3
    <3>2. \A i \in begin' + 1..position' - 1 : Continues(buffer[i])
      <4>1. position' - 1 = position
        BY <1>2, <2>2
      <4> QED
        BY <1>1, <1>2, <4>1 DEF Unended
    <3>3. byte' = buffer[position']
      BY <2>1, <2>2
    <3> QED
      BY <1>1, <2>2, <2>3, <2>4, <2>6, <3>1, <3>2, <3>3
      DEF Decoding, Unended, Continues
  <2>10. DecodesReference'
    BY <2>2 DEF DecodesReference, None, Call
  <2> QED
    BY <1>4, <2>2, <2>8, <2>9, <2>10 DEF Coding, Encoding
<1> QED
  BY <1>5, <1>6

(* The loop has ended: at a byte that is the last one, or after as many as  *)
(* int_type needs.                                                          *)
LEMMA DecodeReturnsKeeps == ASSUME Coding, DecodeReturns PROVE Coding'
<1>1. /\ doing = "decode" /\ ~(shift < Size /\ Continues(byte))
      /\ UNCHANGED <<buffer, position, signed, value, shift, byte, source, begin>>
      /\ doing' = "idle"
      /\ outcome' = IF Continues(byte) THEN Call("throw", "Overflow")
                    ELSE Call("Decode", AsType(Extended, signed))
  BY DEF DecodeReturns, DecodesMore, Throws
<1>2. PICK n \in 0..Groups :
           /\ n \in Nat /\ position = begin + n /\ position - begin = n
           /\ begin \in Nat /\ position \in Nat /\ begin + n =< Len(buffer)
           /\ buffer \in Seq(Bytes) /\ Len(buffer) \in Nat
           /\ shift = G * n /\ shift \in Nat
           /\ Unended(begin, position - 1)
           /\ byte = IF n = 0 THEN LowMask ELSE buffer[position]
           /\ Continues(byte) => Unended(begin, position)
           /\ value = Total(buffer, begin, begin + n) % Pow2[Size]
           /\ outcome = None
  BY <1>1, LoopKnown
<1>3. Streamed /\ Encoded
  BY DEF Coding
<1>4. Encoded'
  BY <1>1, <1>3 DEF Encoded, Differs, Ends, Unended
<1>5. Streamed'
  BY <1>1, <1>3 DEF Streamed
<1>6. CASE Continues(byte)
  <2>1. n = Groups
    <3>1. ~(n < Groups)
      BY <1>1, <1>2, <1>6, BelowGroups
    <3> QED
      BY <1>2, <3>1, GroupsCover
  <2>2. DecodesReference'
    BY <1>1, <1>2, <1>6, <2>1 DEF DecodesReference, Call, Unended
  <2> QED
    BY <1>1, <1>4, <1>5, <2>2 DEF Coding, Decoding, Encoding
<1>7. CASE ~Continues(byte)
  <2>1. n # 0
    <3>1. Continues(LowMask)
      BY Masks DEF Continues
    <3> QED
      BY <1>2, <1>7, <3>1
  <2>2. byte = buffer[position] /\ ~Continues(buffer[position])
    BY <1>2, <1>7, <2>1
  <2>3. position \in begin + 1..begin + Groups
    BY <1>2, <2>1, GroupsCover
  <2>4. AsType(Extended, signed) = Reference(buffer, begin, position, signed)
    <3>1. signed \in BOOLEAN
      BY <1>3 DEF Streamed
    <3>2. Reference(buffer, begin, begin + n, signed) =
            AsType(IF signed /\ G * n < Size /\ SignBit(buffer[begin + n])
                   THEN value + Pow2[Size] - Pow2[G * n] ELSE value, signed)
      BY <1>2, <3>1, DecodedIs
    <3> QED
      BY <1>2, <2>2, <3>2 DEF Extended
  <2>5. DecodesReference'
    BY <1>1, <1>2, <1>7, <2>2, <2>3, <2>4
    DEF DecodesReference, Call, Ends, Unended
  <2> QED
    BY <1>1, <1>4, <1>5, <2>5 DEF Coding, Decoding, Encoding
<1> QED
  BY <1>6, <1>7

\* Two streams with the same first q bytes.
Alike(b, c, q) == /\ q =< Len(b) /\ q =< Len(c)
                  /\ \A i \in 1..q : b[i] = c[i]

(* Writing on does not change what was written.                             *)
LEMMA TotalUpto ==
  ASSUME NEW b \in Seq(Bytes), NEW c \in Seq(Bytes), NEW q \in Nat,
         Alike(b, c, q)
  PROVE  Total(b, 0, q) = Total(c, 0, q)
<1>1. Sums(b, 0, q)[q] = Sums(c, 0, q)[q]
  <2>1. 0 \in Nat /\ 0 =< q /\ q =< q /\ 0 + 1 = 1
    OBVIOUS
  <2>2. /\ q =< Len(b) /\ q =< Len(c)
        /\ \A i \in 0 + 1..q : b[i] = c[i]
    BY DEF Alike
  <2> QED
    BY <2>1, <2>2, TotalPrefix
<1> QED
  BY <1>1 DEF Total

(* Nor what it means.                                                       *)
LEMMA ReferencePrefix ==
  ASSUME NEW b \in Seq(Bytes), NEW c \in Seq(Bytes), NEW q \in Nat, NEW s,
         1 =< q, Alike(b, c, q)
  PROVE  Reference(c, 0, q, s) = Reference(b, 0, q, s)
<1>1. Total(b, 0, q) = Total(c, 0, q)
  BY TotalUpto
<1>2. b[q] = c[q]
  BY DEF Alike
<1> QED
  BY <1>1, <1>2, ReferenceCuts DEF Meant

(* The rest of a number is a number.                                        *)
LEMMA RestIs ==
  ASSUME NEW s \in BOOLEAN, NEW v \in Numbers(s)
  PROVE  /\ v \in Int /\ v \div LowMask \in Numbers(s)
         /\ Low(v) \in 0..LowMask - 1
         /\ v = (v \div LowMask) * LowMask + Low(v)
<1>1. PICK M \in Nat : M = LowMask /\ M >= 2
  BY Masks
<1>2. PICK H \in Nat : /\ H >= 1 /\ Numbers(TRUE) = -H..H - 1
                       /\ Numbers(FALSE) = 0..2 * H - 1
  BY NumbersAre
<1>3. v \in Int
  <2>1. -H..H - 1 \subseteq Int /\ 0..2 * H - 1 \subseteq Int
    OBVIOUS
  <2>2. s = TRUE \/ s = FALSE
    OBVIOUS
  <2> QED
    BY <1>2, <2>1, <2>2
<1>4. PICK w \in Int, c \in 0..M - 1 :
        w = v \div M /\ c = v % M /\ v = w * M + c
  <2>1. v \div M \in Int /\ v % M \in 0..M - 1 /\ v = (v \div M) * M + (v % M)
    BY <1>1, <1>3
  <2> QED
    BY <2>1
<1>5. PICK a \in Int : a = w * M /\ v = a + c /\ (w >= 0 => a >= w)
  <2>1. w >= 0 => w * M >= w
    BY <1>1
  <2>2. w * M \in Int
    OBVIOUS
  <2> QED
    BY <1>4, <2>1, <2>2
<1>6. w =< -1 => v < 0
  <2>1. w =< -1 => w * M =< -M
    BY <1>1
  <2> QED
    BY <1>1, <1>5, <2>1
<1>7. w >= 0 => w =< v
  BY <1>5
<1>8. v >= 0 => w >= 0
  BY <1>3, <1>6
<1>9. w =< -1 => w >= v
  <2>1. w =< -1 => w * M + M =< w + 1
    <3>1. w =< -1 => (w + 1) * M =< w + 1
      BY <1>1
    <3>2. (w + 1) * M = w * M + M
      OBVIOUS
    <3> QED
      BY <3>1, <3>2
  <2>2. v =< a + M - 1
    BY <1>1, <1>5
  <2> QED
    BY <1>1, <1>5, <2>1, <2>2
<1>10. w \in Numbers(s)
  <2>1. CASE s
    <3>1. v \in -H..H - 1 /\ s = TRUE
      BY <1>2, <2>1
    <3>2. w \in -H..H - 1
      BY <1>2, <1>7, <1>9, <3>1
    <3> QED
      BY <1>2, <3>1, <3>2
  <2>2. CASE ~s
    <3>1. v \in 0..2 * H - 1 /\ s = FALSE
      BY <1>2, <2>2
    <3>2. w \in 0..2 * H - 1
      BY <1>7, <1>8, <3>1
    <3> QED
      BY <1>2, <3>1, <3>2
  <2> QED
    BY <2>1, <2>2
<1> QED
  BY <1>1, <1>3, <1>4, <1>10 DEF Low

(* A group moves from the rest to what is written.                          *)
LEMMA Regroups ==
  ASSUME NEW t \in Int, NEW w \in Int, NEW c \in Int, NEW M \in Int,
         NEW P \in Int, NEW v \in Int, v = w * M + c
  PROVE  t + v * P = (t + c * P) + w * (M * P)
<1>1. v * P = (w * M) * P + c * P
  OBVIOUS
<1>2. (w * M) * P = w * (M * P)
  OBVIOUS
<1>3. PICK a \in Int, d \in Int, e \in Int :
        a = v * P /\ d = c * P /\ e = w * (M * P) /\ a = e + d
  BY <1>1, <1>2
<1> QED
  BY <1>3

(* A byte more of the output: the number is still what is written and the   *)
(* rest, and no byte before is another one.                                 *)
Written(b, B, c, s, v, j) ==
  /\ B \in Seq(Bytes) /\ Len(B) = j + 1 /\ B[j + 1] = c
  /\ \A i \in 1..j : B[i] = b[i]
  /\ \A q \in 1..j : Reference(B, 0, q, s) = Reference(b, 0, q, s)
  /\ Total(b, 0, j) + v * Pow2[G * j] =
       Total(B, 0, j + 1) + (v \div LowMask) * Pow2[G * (j + 1)]

\* Appending a byte whose low bits are the rest's does that.
LEMMA WritesGroup ==
  ASSUME NEW b \in Seq(Bytes), NEW c \in Bytes, NEW s \in BOOLEAN,
         NEW v \in Numbers(s), Low(c) = Low(v), NEW j \in Nat, j = Len(b),
         NEW B, B = Append(b, c)
  PROVE  Written(b, B, c, s, v, j)
<1>1. /\ B \in Seq(Bytes) /\ Len(B) = j + 1 /\ B[j + 1] = c
      /\ \A i \in 1..j : B[i] = b[i]
  OBVIOUS
<1>2. \A q \in 1..j : Reference(B, 0, q, s) = Reference(b, 0, q, s)
  <2> TAKE q \in 1..j
  <2>1. B \in Seq(Bytes) /\ q \in Nat /\ 1 =< q
    BY <1>1
  <2>2. Alike(b, B, q)
    BY <1>1 DEF Alike
  <2>3. b \in Seq(Bytes)
    OBVIOUS
  <2> QED
    BY ONLY <2>1, <2>2, <2>3, ReferencePrefix
<1>3. Total(B, 0, j) = Total(b, 0, j)
  <2>1. B \in Seq(Bytes) /\ Alike(b, B, j)
    BY <1>1 DEF Alike
  <2>2. Total(b, 0, j) = Total(B, 0, j)
    BY <2>1, TotalUpto
  <2> QED
    BY <2>2
<1>4. PICK t \in Int : t = Total(b, 0, j)
  <2>1. 0 + j = j /\ 0 + j =< Len(b) /\ 0 \in Nat
    BY <1>1
  <2>2. Total(b, 0, 0 + j) \in Nat
    BY <1>1, <2>1, TotalBelow
  <2> QED
    BY <2>1, <2>2
<1>5. PICK P \in Nat : P = Pow2[G * j]
  BY PlaceSteps
<1>6. PICK M \in Nat : M = LowMask /\ Pow2[G * (j + 1)] = M * P
  <2>1. Pow2[G * (j + 1)] = LowMask * Pow2[G * j]
    BY PlaceSteps
  <2> QED
    BY <1>5, <2>1, Masks
<1>7. PICK w \in Int, l \in Int, x \in Int :
        /\ w = v \div LowMask /\ l = Low(v) /\ x = v /\ x = w * M + l
  <2>1. v \in Int /\ v \div LowMask \in Int /\ Low(v) \in Int
    <3>1. v \in Int /\ Low(v) \in 0..LowMask - 1
      BY RestIs
    <3> QED
      BY <3>1, Masks
  <2> QED
    BY <1>6, <2>1, RestIs
<1>8. Total(B, 0, j + 1) = t + l * P
  <2>1. 0 \in Nat /\ 0 =< j /\ j < Len(B) /\ j - 0 = j
    BY <1>1
  <2>2. Total(B, 0, j + 1) = Total(B, 0, j) + Low(B[j + 1]) * Pow2[G * (j - 0)]
    BY <1>1, <2>1, TotalSteps
  <2> QED
    BY <1>1, <1>3, <1>4, <1>5, <1>7, <2>1, <2>2
<1>9. t + x * P = (t + l * P) + w * (M * P)
  <2>1. M \in Int /\ P \in Int /\ x = w * M + l
    BY <1>7
  <2> QED
    BY <2>1, Regroups
<1>10. Total(b, 0, j) + v * Pow2[G * j] =
         Total(B, 0, j + 1) + (v \div LowMask) * Pow2[G * (j + 1)]
  BY <1>4, <1>5, <1>6, <1>7, <1>8, <1>9
<1> QED
  BY <1>1, <1>2, <1>10 DEF Written

(* Encode writes a byte.                                                    *)
LEMMA EncodeByteKeeps == ASSUME Coding, EncodeByte PROVE Coding'
<1>1. Streamed /\ Encoding /\ doing = "encode" /\ DecodesReference
  BY DEF Coding, EncodeByte
<1>2. /\ buffer \in Seq(Bytes) /\ signed \in BOOLEAN /\ position = 0
      /\ value \in Numbers(signed) /\ source # {} /\ Len(buffer) < Groups
      /\ Unended(0, Len(buffer)) /\ outcome = None
  BY <1>1 DEF Streamed, Encoding
<1>3. PICK c \in Bytes :
        /\ c = IF EncodesLast THEN Low(value) ELSE Low(value) + LowMask
        /\ Low(c) = Low(value) /\ (Continues(c) <=> ~EncodesLast)
  <2>1. Low(value) \in 0..LowMask - 1
    BY <1>2, RestIs
  <2> QED
    BY <2>1, ByteOf
<1>4. PICK j \in Nat : j = Len(buffer) /\ j < Groups
  BY <1>2
<1>5. PICK B : B = Append(buffer, c)
  OBVIOUS
<1>6. /\ B \in Seq(Bytes) /\ Len(B) = j + 1 /\ B[j + 1] = c
      /\ \A i \in 1..j : B[i] = buffer[i]
      /\ \A q \in 1..j : Reference(B, 0, q, signed)
                           = Reference(buffer, 0, q, signed)
      /\ Total(buffer, 0, j) + value * Pow2[G * j] =
           Total(B, 0, j + 1) + (value \div LowMask) * Pow2[G * (j + 1)]
  <2>1. /\ buffer \in Seq(Bytes) /\ c \in Bytes /\ signed \in BOOLEAN
        /\ value \in Numbers(signed) /\ Low(c) = Low(value)
        /\ j \in Nat /\ j = Len(buffer) /\ B = Append(buffer, c)
    BY <1>2, <1>3, <1>4, <1>5
  <2>2. Written(buffer, B, c, signed, value, j)
    BY <2>1, WritesGroup
  <2> QED
    BY <2>2 DEF Written
<1>7. /\ buffer' = B /\ value' = Rest
      /\ doing' = IF EncodesLast THEN "idle" ELSE "encode"
      /\ UNCHANGED <<position, signed, shift, byte, source, begin, outcome>>
  BY <1>3, <1>5 DEF EncodeByte
<1>8. Rest \in Numbers(signed) /\ Rest \in Int /\ Rest = value \div LowMask
  <2>1. Rest \in Numbers(signed)
    BY <1>2, RestIs DEF Rest
  <2> QED
    BY <1>2, <2>1, RestIs DEF Rest
<1>9. EncodesLast <=> IsLast(B, j + 1, Rest, signed)
  <2>1. SignBit(B[j + 1]) <=> SignBit(value)
    BY <1>3, <1>6 DEF SignBit
  <2> QED
    BY <2>1 DEF EncodesLast, IsLast
<1>10. \A x \in source :
        /\ x.signed = signed /\ x.n \in Numbers(signed)
        /\ x.n = Total(B, 0, j + 1) + Rest * Pow2[G * (j + 1)]
        /\ \A q \in 1..j : Reference(B, 0, q, x.signed) # x.n
  BY <1>1, <1>2, <1>4, <1>6, <1>8 DEF Streamed, Encoding, Differs
<1>11. Streamed'
  <2>1. position' \in 0..Len(B) /\ begin' \in 0..position'
    BY <1>1, <1>2, <1>4, <1>6, <1>7 DEF Streamed
  <2>2. value' \in Numbers(FALSE) \cup Numbers(TRUE)
    BY <1>2, <1>7, <1>8
  <2>3. doing' \in {"idle", "encode", "decode"} /\ outcome' = None
    BY <1>2, <1>7
  <2> QED
    BY <1>1, <1>2, <1>6, <1>7, <2>1, <2>2, <2>3 DEF Streamed
<1>12. DecodesReference'
  BY <1>2, <1>7 DEF DecodesReference, None, Call
<1>13. \A i \in 1..j : Continues(B[i])
  BY <1>2, <1>4, <1>6 DEF Unended
<1>14. CASE EncodesLast
  <2>1. Ends(Len(buffer))' /\ Unended(0, Len(buffer) - 1)'
    <3>1. \A i \in 0 + 1..j + 1 - 1 : Continues(B[i])
      BY <1>13
    <3> QED
      BY <1>3, <1>6, <1>7, <1>14, <3>1 DEF Ends, Unended, Continues, LowMask
  <2>2. \A x \in source : Reference(B, 0, j + 1, x.signed) = x.n
    <3> TAKE x \in source
    <3>1. PICK t \in Int, P \in Int :
            t = Total(B, 0, j + 1) /\ P = Pow2[G * (j + 1)]
            /\ j + 1 - 0 = j + 1 /\ x.n = t + Rest * P
      <4>1. j < Len(B)
        BY <1>6
      <4>2. Total(B, 0, j + 1) \in Nat /\ Pow2[G * (j + 1)] \in Nat
        BY <1>6, <4>1, SoFar
      <4> QED
        BY <1>10, <4>2
    <3>2. x.n \in Numbers(signed) /\ x.signed = signed
      BY <1>10
    <3> QED
      BY <1>2, <1>8, <1>9, <1>14, <3>1, <3>2, LastMeans
  <2>3. j + 1 \in 1..Groups
    BY <1>4, GroupsCover
  <2>4. Encoded'
    <3>1. j + 1 - 1 = j
      OBVIOUS
    <3> QED
      BY <1>6, <1>7, <1>10, <2>1, <2>2, <2>3, <3>1 DEF Encoded, Differs
  <2> QED
    BY <1>7, <1>11, <1>12, <1>14, <2>4 DEF Coding, Decoding, Encoding
<1>15. CASE ~EncodesLast
  <2>1. PICK x \in source : TRUE
    BY <1>2
  <2>2. j < Len(B)
    BY <1>6
  <2>3. G * (j + 1) < Size
    <3> SUFFICES ASSUME ~(G * (j + 1) < Size) PROVE FALSE
      OBVIOUS
    <3>1. PICK y \in Numbers(signed) :
            y = Total(B, 0, j + 1) + Rest * Pow2[G * (j + 1)]
      BY <1>10, <2>1
    <3>2. B \in Seq(Bytes) /\ signed \in BOOLEAN /\ Rest \in Int
      BY <1>2, <1>6, <1>8
    <3>3. IsLast(B, j + 1, Rest, signed)
      BY <2>2, <3>1, <3>2, LastInTime
    <3> QED
      BY <1>9, <1>15, <3>3
  <2>4. j + 1 < Groups
    BY <2>3, BelowGroups
  <2>5. \A y \in source : Reference(B, 0, j + 1, y.signed) # y.n
    <3> TAKE y \in source
    <3>1. PICK x1 \in Numbers(signed) :
            /\ x1 = y.n
            /\ x1 = Total(B, 0, j + 1) + Rest * Pow2[G * (j + 1)]
      BY <1>10
    <3>2. B \in Seq(Bytes) /\ signed \in BOOLEAN /\ Rest \in Int
      BY <1>2, <1>6, <1>8
    <3>3. ~IsLast(B, j + 1, Rest, signed)
      BY <1>9, <1>15
    <3>4. Reference(B, 0, j + 1, signed) # x1
      BY <2>2, <2>3, <3>1, <3>2, <3>3, NotLastMeans
    <3>5. y.signed = signed
      BY <1>10
    <3> QED
      BY <3>1, <3>4, <3>5
  <2>6. Unended(0, Len(buffer))'
    <3>1. \A i \in 0 + 1..j + 1 : Continues(B[i])
      <4>1. \A i \in 0 + 1..j + 1 : i \in 1..j \/ i = j + 1
        OBVIOUS
      <4> QED
        BY <1>3, <1>6, <1>13, <1>15, <4>1
    <3> QED
      BY <1>6, <1>7, <3>1 DEF Unended, Continues
  <2>7. \A y \in source : \A q \in 1..j + 1 : Reference(B, 0, q, y.signed) # y.n
    <3>1. \A q \in 1..j + 1 : q \in 1..j \/ q = j + 1
      OBVIOUS
    <3> QED
      BY <1>10, <2>5, <3>1
  <2>8. Encoding'
    BY <1>2, <1>6, <1>7, <1>8, <1>10, <1>15, <2>4, <2>6, <2>7
    DEF Encoding, Differs
  <2> QED
    BY <1>7, <1>11, <1>12, <1>15, <2>8 DEF Coding, Decoding, Encoded
<1> QED
  BY <1>14, <1>15

-----------------------------------------------------------------------------
(* A step of the stream or of a loop.                                       *)
LEMMA CodingKept == Coding /\ [StreamNext]_streamVars => Coding'
<1> SUFFICES ASSUME Coding, [StreamNext]_streamVars PROVE Coding'
  OBVIOUS
<1>1. CASE StreamCall
  BY <1>1, StreamCallKeeps
<1>2. ASSUME NEW s \in BOOLEAN, Decode(s) PROVE Coding'
  BY <1>2, DecodeKeeps
<1>3. CASE EncodeByte
  BY <1>3, EncodeByteKeeps
<1>4. CASE DecodeByte
  BY <1>4, DecodeByteKeeps
<1>5. CASE DecodeReturns
  BY <1>5, DecodeReturnsKeeps
<1>6. CASE UNCHANGED streamVars
  <2>1. UNCHANGED <<buffer, position, doing, signed, value, shift, byte, source,
                    begin, outcome>>
    BY <1>6 DEF streamVars
  <2>2. Streamed' /\ Decoding'
    BY <2>1 DEF Coding, Streamed, Decoding, Unended
  <2>3. Encoding' /\ Encoded'
    BY <2>1 DEF Coding, Encoding, Encoded, Differs, Ends, Unended
  <2>4. DecodesReference'
    BY <2>1 DEF Coding, DecodesReference, Ends, Unended
  <2> QED
    BY <2>2, <2>3, <2>4 DEF Coding
<1> QED
  BY <1>1, <1>2, <1>3, <1>4, <1>5, <1>6 DEF StreamNext, Loop

(* The invariant of both loops and of what they leave: every number that    *)
(* Encode writes and Decode reads (leb128.h:12-83).                         *)
THEOREM CodingHolds == StreamSpec => []Coding
  BY InitCoding, CodingKept, PTL DEF StreamSpec

(* Decode (leb128.h:52-83) returns what the bytes it consumed mean, cut to  *)
(* int_type, and consumes one number; it throws Overflow exactly at numbers *)
(* of too many bytes, and EndOfStream exactly at one that is cut.           *)
THEOREM DecodesReferenceHolds == StreamSpec => []DecodesReference
<1>1. Coding => DecodesReference
  BY DEF Coding
<1> QED
  BY <1>1, CodingHolds, PTL

\* The bytes of a number end once: Decode stops where Encode did.
LEMMA CodedRoundTrip == Coding => RoundTrip
<1> SUFFICES ASSUME Coding, NEW x \in source, outcome.call = "Decode",
                    begin = 0, signed = x.signed
             PROVE  outcome.result = x.n /\ position = Len(buffer)
  BY DEF RoundTrip
<1>1. Streamed /\ Encoded /\ DecodesReference
  BY DEF Coding
<1>2. doing # "encode"
  BY <1>1 DEF Streamed, None, Call
<1>3. PICK l \in Nat, p \in Nat : l = Len(buffer) /\ p = position /\ p =< l
  BY <1>1 DEF Streamed
<1>4. /\ l >= 1 /\ ~Continues(buffer[l])
      /\ \A i \in 0 + 1..l - 1 : Continues(buffer[i])
      /\ Reference(buffer, 0, l, x.signed) = x.n
  BY <1>1, <1>2, <1>3 DEF Encoded, Ends, Unended
<1>5. /\ p >= 1 /\ ~Continues(buffer[p])
      /\ outcome.result = Reference(buffer, 0, p, signed)
  BY <1>1, <1>3 DEF DecodesReference, Ends
<1>6. p = l
  BY <1>3, <1>4, <1>5
<1> QED
  BY <1>3, <1>4, <1>5, <1>6

(* Encode (leb128.h:12-47) writes what Decode turns back into the number,   *)
(* and nothing shorter means it.                                            *)
THEOREM EncodesCanonicallyHolds == StreamSpec => []EncodesCanonically
<1>1. Coding => EncodesCanonically
  <2>1. Encoded => EncodesShortest
    BY DEF Encoded, EncodesShortest, Differs
  <2> QED
    BY <2>1, CodedRoundTrip DEF Coding, EncodesCanonically
<1> QED
  BY <1>1, CodingHolds, PTL

-----------------------------------------------------------------------------
(* Where positions fit the int32_t that ReadBytes casts them to, as they do *)
(* in a stream of less than 2 GiB.                                          *)
Short == MaxBytes < Pow2[IntBits - 1] /\ Groups < Pow2[IntBits - 1]

\* What the cast leaves as it is.
LEMMA Int32Is ==
  ASSUME NEW n \in Nat, n < Pow2[IntBits - 1]
  PROVE  Int32(n) = n
<1>1. PICK H \in Nat : H = Pow2[IntBits - 1] /\ H >= 1 /\ Pow2[IntBits] = 2 * H
  <2>1. IntBits - 1 \in Nat
    BY WidthAssumption
  <2> QED
    BY <2>1, WidthAssumption, PowersPositive, HalvesKnown
<1>2. PICK M \in Nat \ {0} : M = 2 * H
  BY <1>1
<1>3. n % M = n
  <2>1. n \in 0..M - 1
    BY <1>1, <1>2
  <2> QED
    BY <2>1, RemainderSmall
<1> QED
  BY <1>1, <1>2, <1>3 DEF Int32

\* A byte, and any number of bytes, as a part of the buffer.
LEMMA BytesAre ==
  ASSUME NEW p \in Nat, NEW n \in Nat, buffer \in Seq(Bytes),
         p + n =< Len(buffer)
  PROVE  BytesBetween(p, p + n) = SubSeq(buffer, p + 1, p + n)
<1>1. p + n - p = n /\ p + n - (p + 1) + 1 = n /\ Len(buffer) \in Nat
  OBVIOUS
<1>2. /\ p + 1 \in Int /\ p + n \in Int
      /\ \A i \in p + 1..p + n : buffer[i] \in Bytes
  OBVIOUS
<1>3. PICK t : t = SubSeq(buffer, p + 1, p + n)
  OBVIOUS
<1>4. /\ t \in Seq(Bytes) /\ Len(t) = n
      /\ \A i \in 1..n : t[i] = buffer[p + 1 + i - 1]
  <2>1. /\ t \in Seq(Bytes)
        /\ Len(t) = IF p + 1 =< p + n THEN p + n - (p + 1) + 1 ELSE 0
        /\ \A i \in 1..p + n - (p + 1) + 1 : t[i] = buffer[p + 1 + i - 1]
    BY <1>2, <1>3, SubSeqProperties
  <2> QED
    BY <1>1, <2>1
<1>5. t = [i \in 1..n |-> t[i]]
  BY <1>4
<1>6. \A i \in 1..n : t[i] = buffer[p + i] /\ p + i \in DOMAIN buffer
  <2> TAKE i \in 1..n
  <2>1. p + 1 + i - 1 = p + i /\ p + i \in 1..Len(buffer)
    BY <1>1
  <2> QED
    BY <1>4, <2>1
<1>7. BytesBetween(p, p + n) =
        [i \in 1..n |-> IF p + i \in DOMAIN buffer THEN buffer[p + i] ELSE -1]
  BY <1>1 DEF BytesBetween
<1>8. BytesBetween(p, p + n) = [i \in 1..n |-> t[i]]
  BY <1>6, <1>7
<1> QED
  BY <1>3, <1>5, <1>8

\* One byte.
LEMMA ByteAs ==
  ASSUME NEW p \in Nat, buffer \in Seq(Bytes), p + 1 =< Len(buffer)
  PROVE  SubSeq(buffer, p + 1, p + 1) = <<buffer[p + 1]>>
<1>1. PICK m \in Nat : m = p + 1 /\ m \in 1..Len(buffer)
  <2>1. p + 1 \in Nat /\ p + 1 \in 1..Len(buffer)
    OBVIOUS
  <2> QED
    BY <2>1
<1>2. SubSeq(buffer, m, m) = <<buffer[m]>> \o SubSeq(buffer, m + 1, m)
  <2>1. m \in m..Len(buffer)
    BY <1>1
  <2> QED
    BY <1>1, <2>1, SubSeqRecursiveFirst
<1>3. SubSeq(buffer, m + 1, m) = <<>>
  <2>1. m \in Int /\ m + 1 \in Int /\ m < m + 1
    BY <1>1
  <2> QED
    BY <2>1, SubSeqEmpty
<1>4. <<buffer[m]>> \o <<>> = <<buffer[m]>>
  <2>1. <<buffer[m]>> \in Seq(Bytes)
    BY <1>1
  <2> QED
    BY <2>1, ConcatEmptySeq
<1> QED
  BY <1>1, <1>2, <1>3, <1>4

\* What BytesInOrder says of the latest call.
CallReturned ==
  /\ outcome.call \in {"ReadByte", "ReadBytes"} =>
       outcome.result = SubSeq(buffer, begin + 1, position)
  /\ outcome.call = "PeekByte" =>
       position = begin /\ outcome.result = <<buffer[position + 1]>>

\* A stream's length, whoever wrote it.
LEMMA Lengths ==
  ASSUME Short, Coding, doing = "idle"
  PROVE  Len(buffer) \in Nat /\ Len(buffer) < Pow2[IntBits - 1]
<1>1. PICK l \in Nat : l = Len(buffer) /\ (l =< MaxBytes \/ source # {})
  BY DEF Coding, Streamed
<1>2. source # {} => l =< Groups
  BY <1>1 DEF Coding, Encoded
<1>3. PICK h \in Nat : h = Pow2[IntBits - 1]
  <2>1. IntBits - 1 \in Nat
    BY WidthAssumption
  <2> QED
    BY <2>1, PowersPositive
<1> QED
  BY <1>1, <1>2, <1>3, GroupsCover, WidthAssumption DEF Short

\* ReadBytes returns what lies between its two positions.
LEMMA ReadBytesReturns ==
  ASSUME Short, Coding, NEW n \in 0..MaxBytes + 1, ReadBytes(n)
  PROVE  CallReturned'
<1>1. /\ doing = "idle" /\ begin' = position /\ buffer' = buffer
      /\ n \in Nat
  BY WidthAssumption DEF ReadBytes, Calls
<1>2. /\ buffer \in Seq(Bytes) /\ position \in Nat /\ Len(buffer) \in Nat
      /\ position =< Len(buffer)
  BY DEF Coding, Streamed
<1>3. CASE n =< Remainder
  <2>1. position + n =< Len(buffer)
    BY <1>1, <1>2, <1>3 DEF Remainder
  <2>2. Int32(position) = position /\ Int32(n) = n
    <3>1. PICK h \in Nat : h = Pow2[IntBits - 1] /\ Len(buffer) < h
      <4>1. IntBits - 1 \in Nat
        BY WidthAssumption
      <4> QED
        BY <1>1, <4>1, Lengths, PowersPositive
    <3>2. position < h /\ n < h
      BY <1>1, <1>2, <2>1, <3>1
    <3> QED
      BY <1>1, <1>2, <3>1, <3>2, Int32Is
  <2>3. /\ outcome' = Call("ReadBytes", BytesBetween(position, position + n))
        /\ position' = position + n
    BY <1>3, <2>2 DEF ReadBytes
  <2>4. BytesBetween(position, position + n) =
          SubSeq(buffer, position + 1, position + n)
    BY <1>1, <1>2, <2>1, BytesAre
  <2> QED
    BY <1>1, <2>3, <2>4 DEF CallReturned, Call
<1>4. CASE ~(n =< Remainder)
  BY <1>4 DEF ReadBytes, Throws, CallReturned, Call
<1> QED
  BY <1>3, <1>4

\* Every step keeps it.
LEMMA ReturnedKept ==
  ASSUME Short, Coding, CallReturned, [StreamNext]_streamVars
  PROVE  CallReturned'
<1>1. /\ buffer \in Seq(Bytes) /\ position \in Nat /\ Len(buffer) \in Nat
      /\ doing # "idle" => outcome = None
  BY DEF Coding, Streamed
<1>2. CASE ReadByte
  <2>1. CASE HasRemaining
    <3>1. position + 1 =< Len(buffer)
      BY <1>1, <2>1 DEF HasRemaining
    <3>2. /\ outcome' = Call("ReadByte", <<buffer[position + 1]>>)
          /\ position' = position + 1 /\ begin' = position /\ buffer' = buffer
      BY <1>2, <2>1 DEF ReadByte, Calls
    <3>3. SubSeq(buffer, position + 1, position + 1) = <<buffer[position + 1]>>
      BY <1>1, <3>1, ByteAs
    <3> QED
      BY <3>2, <3>3 DEF CallReturned, Call
  <2>2. CASE ~HasRemaining
    BY <1>2, <2>2 DEF ReadByte, Throws, CallReturned, Call
  <2> QED
    BY <2>1, <2>2
<1>3. CASE PeekByte
  BY <1>3 DEF PeekByte, Calls, Throws, CallReturned, Call
<1>4. ASSUME NEW n \in 0..MaxBytes + 1, ReadBytes(n) PROVE CallReturned'
  BY <1>4, ReadBytesReturns
<1>5. ASSUME NEW n \in 0..MaxBytes + 1, Skip(n) PROVE CallReturned'
  BY <1>5 DEF Skip, Throws, CallReturned, Call
<1>6. ASSUME NEW s \in BOOLEAN, Decode(s) PROVE CallReturned'
  BY <1>6 DEF Decode, None, CallReturned, Call
<1>7. CASE EncodeByte
  BY <1>1, <1>7 DEF EncodeByte, None, CallReturned, Call
<1>8. CASE DecodeByte
  BY <1>1, <1>8 DEF DecodeByte, Throws, None, CallReturned, Call
<1>9. CASE DecodeReturns
  BY <1>9 DEF DecodeReturns, Throws, CallReturned, Call
<1>10. CASE UNCHANGED streamVars
  BY <1>10 DEF streamVars, CallReturned
<1> QED
  BY <1>2, <1>3, <1>4, <1>5, <1>6, <1>7, <1>8, <1>9, <1>10
  DEF StreamNext, StreamCall, Loop

(* ReadByte, PeekByte, ReadBytes and Skip (base/stream.cc:10-39) see the    *)
(* stream's bytes in order, each once, where positions fit an int32_t.      *)
THEOREM BytesInOrderHolds ==
  ASSUME Short
  PROVE  StreamSpec => []BytesInOrder
<1>1. StreamInit => CallReturned
  BY DEF StreamInit, None, Call, CallReturned
<1>2. Coding /\ CallReturned /\ [StreamNext]_streamVars => CallReturned'
  BY ReturnedKept
<1>3. Coding /\ CallReturned => BytesInOrder
  BY StreamedTypes DEF Coding, CallReturned, BytesInOrder
<1> QED
  BY <1>1, <1>2, <1>3, CodingHolds, PTL DEF StreamSpec
=============================================================================
