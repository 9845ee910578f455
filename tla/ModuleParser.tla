----------------------------- MODULE ModuleParser -----------------------------
(***************************************************************************)
(* parser/parser.cc: ModuleBuilder reads a module section by section and   *)
(* item by item, checks each against what it has read before, and builds   *)
(* the ParsedModule.  What the bytes say is the choice of the environment: *)
(* every action takes the section or item it reads as a parameter.  An     *)
(* exception leaves the parser for good (thrown).                          *)
(*                                                                         *)
(* The history variable read keeps what the bytes said, so that what the   *)
(* parser decides on the way can be compared with what WebAssembly says of *)
(* the module as a whole.                                                  *)
(***************************************************************************)
EXTENDS Integers, Sequences, FiniteSets

CONSTANTS
  Names,         \* export names
  Signatures,    \* what a type section may say: [params, results]
  Codes,         \* what a code section may say, see Valid
  Limit,         \* items allowed in sections 1 to 7 (kMaxFunctionSignatures...)
  MaxParameters, \* kMaxFunctionParameters
  MaxResults,    \* kMaxFunctionResults
  MaxLocals,     \* MAX_FUNCTION_LOCALS
  MaxSize,       \* bound: sections and items of a module, together
  MaxCustoms,    \* bound: custom sections, wherever they are
  MaxIndex       \* bound: indices are 0..MaxIndex

ASSUME LimitAssumption == Limit \in [1..7 -> Nat]
ASSUME BoundAssumption ==
  /\ MaxParameters \in Nat /\ MaxResults \in Nat /\ MaxLocals \in Nat
  /\ MaxSize \in Nat /\ MaxCustoms \in Nat /\ MaxIndex \in Nat

VARIABLES
  latest,      \* _latest_section_read
  signatures,  \* _func_signatures
  imports,     \* _imports
  functions,   \* _functions: each one's signature and code
  tables,      \* _tables
  memories,    \* _memories
  globals,     \* _globals
  exports,     \* _exports
  start,       \* _start, a set of at most one index
  section,     \* the section that is being parsed
  left,        \* the items it still has
  ahead,       \* the next byte is the end opcode of a global's expression
  thrown,      \* the exception that left the parser, or "none"
  parsed,      \* the ParsedModule, a set that is empty until it is built
  read         \* history: what the bytes said, section by section

vectors == <<signatures, imports, functions, tables, memories, globals,
             exports, start>>
vars == <<latest, vectors, section, left, ahead, thrown, parsed, read>>

Kinds == {"func", "table", "memory", "global"}
SectionOf == [func |-> 3, table |-> 4, memory |-> 5, global |-> 6]
Indices == 0..MaxIndex
RefTypes == {"funcref", "externref"}
Imports == [kind : {"func"}, idx : Indices]
             \cup [kind : {"table"}, type : {"funcref", "i32"}]
             \cup [kind : {"memory", "global"}]
Exports == [name : Names, kind : Kinds, idx : Indices]
ValTypes == {"i32", "i64"}

\* Mistake: what is imported is counted, although it is kept elsewhere.
KnownInSpace(kind) ==
  Len(SelectSeq(imports, LAMBDA i : i.kind = kind)) +
  CASE kind = "func"   -> Len(functions)
    [] kind = "table"  -> Len(tables)
    [] kind = "memory" -> Len(memories)
    [] kind = "global" -> Len(globals)

\* How many entities of a kind the builder knows.
Known(kind) == CASE kind = "func"   -> Len(functions)
                 [] kind = "table"  -> Len(tables)
                 [] kind = "memory" -> Len(memories)
                 [] kind = "global" -> Len(globals)

Init ==
  /\ latest = 0
  /\ signatures = <<>> /\ imports = <<>> /\ functions = <<>>
  /\ tables = <<>> /\ memories = <<>> /\ globals = <<>>
  /\ exports = <<>> /\ start = {}
  /\ section = 0 /\ left = 0
  /\ ahead = FALSE
  /\ thrown = "none"
  /\ parsed = {}
  /\ read = <<>>

-----------------------------------------------------------------------------
Parsing == thrown = "none" /\ parsed = {}
Between == Parsing /\ left = 0 /\ ~ahead
In(id) == Parsing /\ left > 0 /\ section = id /\ ~ahead

Throw(e) ==
  /\ thrown' = e
  /\ UNCHANGED <<vectors, section, left, ahead, parsed>>

\* History: the bytes of a section's head, or of an item.
SaysSection(id, n) ==
  read' = Append(read, [id |-> id, count |-> n, items |-> <<>>])
SaysItem(i) == read' = [read EXCEPT ![Len(read)].items = Append(@, i)]

\* Bound: the size of what was read.
ReadSize == LET items[i \in 0..Len(read)] ==
              IF i = 0 THEN 0 ELSE items[i - 1] + read[i].count
        IN  Len(read) + items[Len(read)]

\* Bound: a custom section is skipped, so that many are as good as a few.
Customs == Cardinality({i \in DOMAIN read : read[i].id = 0})

-----------------------------------------------------------------------------
\* Mistake: only a repeated section is noticed, not an earlier one.
InOrderIfNew(id) == id = 0 \/ id # latest

(* Custom sections may be anywhere.                                         *)
InOrder(id) == id = 0 \/ id > latest
Latest(id) == IF id = 0 THEN latest ELSE id

TooLarge(id, n) == id \in 1..7 /\ n > Limit[id]

(* A vector section is refused by its size alone; the code section's size   *)
(* must be the number of declared functions.                                *)
SizeError(id, n) ==
  IF TooLarge(id, n) THEN "ModuleTooLarge"
  ELSE IF id = 10 /\ n # Len(functions) THEN "Parse" ELSE "none"

(* ParseOneSection as far as the section's items.  The start section has    *)
(* one item and no count; custom sections are skipped; element and data     *)
(* sections are not implemented and unknown ones rejected.                  *)
Section(id, n) ==
  /\ Between
  /\ ReadSize + 1 + n <= MaxSize
  /\ id = 0 => Customs < MaxCustoms
  /\ id = 8 => n = 1
  /\ id \notin (1..8) \cup {10} => n = 0
  /\ SaysSection(id, n)
  /\ IF InOrder(id) THEN latest' = Latest(id) ELSE UNCHANGED latest
  /\ IF ~InOrder(id) \/ id \notin (0..8) \cup {10} THEN Throw("Parse")
     ELSE IF SizeError(id, n) # "none" THEN Throw(SizeError(id, n))
     ELSE /\ section' = id
          /\ left' = n
          /\ UNCHANGED <<vectors, ahead, thrown, parsed>>

(* Parse: what comes first is not the magic number and version one.         *)
BadHeader ==
  /\ Parsing /\ read = <<>>
  /\ Throw("Parse")
  /\ UNCHANGED <<latest, read>>

(* What comes next does not decode: no bytes left, a number that is too     *)
(* long, an unknown type, magic or opcode, a name that is too long.         *)
Undecodable ==
  /\ Parsing
  /\ Throw("Undecodable")
  /\ UNCHANGED <<latest, read>>

\* One item of the section that is being parsed was read and kept.
Keep == /\ left' = left - 1
        /\ UNCHANGED <<latest, section, thrown, parsed>>

-----------------------------------------------------------------------------
(* ParseSignature: one that has too many parameters or results is refused.  *)
FitsRegisters(sig) == /\ Len(sig.params) <= MaxParameters
                      /\ Len(sig.results) <= MaxResults

ReadSignature(sig) ==
  /\ In(1)
  /\ SaysItem(sig)
  /\ IF FitsRegisters(sig)
     THEN /\ signatures' = Append(signatures, sig)
          /\ Keep
          /\ UNCHANGED <<imports, functions, tables, memories, globals,
                         exports, start, ahead>>
     ELSE Throw("ModuleTooLarge") /\ UNCHANGED latest

\* ValidateInRange.
InRange(i, size) == i < size

(* ParseOneImport: a function's type is known, and a table's one of         *)
(* references.                                                              *)
Importable(i) == /\ i.kind = "func" => InRange(i.idx, Len(signatures))
                 /\ i.kind = "table" => i.type \in RefTypes

ReadImport(i) ==
  /\ In(2)
  /\ SaysItem(i)
  /\ IF Importable(i)
     THEN /\ imports' = Append(imports, i)
          /\ Keep
          /\ UNCHANGED <<signatures, functions, tables, memories, globals,
                         exports, start, ahead>>
     ELSE Throw("Parse") /\ UNCHANGED latest

ReadFunction(t) ==
  /\ In(3)
  /\ SaysItem(t)
  /\ IF InRange(t, Len(signatures))
     THEN /\ functions' = Append(functions, [signature |-> signatures[t + 1],
                                             locals |-> <<>>, body |-> {}])
          /\ Keep
          /\ UNCHANGED <<signatures, imports, tables, memories, globals,
                         exports, start, ahead>>
     ELSE Throw("Parse") /\ UNCHANGED latest

\* ParseTableType: only references can be in a table.
ReadTable(t) ==
  /\ In(4)
  /\ SaysItem(t)
  /\ IF t \in RefTypes
     THEN /\ tables' = Append(tables, t)
          /\ Keep
          /\ UNCHANGED <<signatures, imports, functions, memories, globals,
                         exports, start, ahead>>
     ELSE Throw("Parse") /\ UNCHANGED latest

ReadMemory ==
  /\ In(5)
  /\ SaysItem("limits")
  /\ memories' = Append(memories, "limits")
  /\ Keep
  /\ UNCHANGED <<signatures, imports, functions, tables, globals, exports,
                 start, ahead>>

(* parse_global reads the type and a constant, but not the end opcode that  *)
(* ends the constant's expression.                                          *)
ReadGlobal(ended) ==
  /\ In(6)
  /\ SaysItem([ended |-> ended])
  /\ globals' = Append(globals, "global")
  /\ ahead' = ended
  /\ Keep
  /\ UNCHANGED <<signatures, imports, functions, tables, memories, exports,
                 start>>

(* The end opcode is then taken for the next global's type or for the id of *)
(* the data section, which is not implemented.                              *)
EndOpcode ==
  /\ Parsing /\ ahead
  /\ Throw("Parse")
  /\ UNCHANGED <<latest, read>>

-----------------------------------------------------------------------------
(* ParseExportsSection looks for the name in a set of the earlier ones, but *)
(* the set holds views of temporaries: NamedType::value returns a copy,     *)
(* which dies with the statement that inserts the view.  What a name is     *)
(* compared with is undefined, so any later one may be found or not.        *)
MayFind(found) == found => exports # <<>>

ReadExport(e, found) ==
  /\ In(7)
  /\ SaysItem(e)
  /\ MayFind(found)
  /\ IF InRange(e.idx, Known(e.kind)) /\ ~found
     THEN /\ exports' = Append(exports, e)
          /\ Keep
          /\ UNCHANGED <<signatures, imports, functions, tables, memories,
                         globals, start, ahead>>
     ELSE Throw("Parse") /\ UNCHANGED latest

ReadStart(i) ==
  /\ In(8)
  /\ SaysItem(i)
  /\ IF InRange(i, Len(functions))
     THEN /\ start' = {i}
          /\ Keep
          /\ UNCHANGED <<signatures, imports, functions, tables, memories,
                         globals, exports, ahead>>
     ELSE Throw("Parse") /\ UNCHANGED latest

-----------------------------------------------------------------------------
(* A code item: locals in groups of equal type, the locals its body reads   *)
(* as i32, the types its body leaves, and whether its declared size is the  *)
(* number of its bytes.                                                     *)
Copies(g) == [i \in 1..g.n |-> g.type]
LocalsOf(groups) == LET upTo[k \in 0..Len(groups)] ==
                          IF k = 0 THEN <<>>
                          ELSE upTo[k - 1] \o Copies(groups[k])
                    IN  upTo[Len(groups)]

\* ParseLocals reads value types.
ASSUME CodesAssumption == \A c \in Codes : LocalsOf(c.groups) \in Seq(ValTypes)

(* FunctionValidator's verdict, as far as locals and results decide it.     *)
Valid(sig, locals, c) ==
  LET all == sig.params \o locals IN
  /\ \A i \in c.reads : i < Len(all) /\ all[i + 1] = "i32"
  /\ c.leaves = sig.results

\* Mistake: the loop runs from the last function to the first.
IndexReversed == left

(* The function whose code comes next: ParseCodeSection's loop variable.    *)
Index == Len(functions) - left + 1

\* Mistake: bodies are validated against the first function's type.
CodeErrorFirst(c) ==
  IF Len(LocalsOf(c.groups)) > MaxLocals THEN "ModuleTooLarge"
  ELSE IF ~Valid(functions[1].signature, LocalsOf(c.groups), c)
       THEN "Validation"
  ELSE IF ~c.sized THEN "Parse" ELSE "none"

CodeError(c) ==
  IF Len(LocalsOf(c.groups)) > MaxLocals THEN "ModuleTooLarge"
  ELSE IF ~Valid(functions[Index].signature, LocalsOf(c.groups), c)
       THEN "Validation"
  ELSE IF ~c.sized THEN "Parse" ELSE "none"

ReadCode(c) ==
  /\ In(10)
  /\ SaysItem(c)
  /\ IF CodeError(c) = "none"
     THEN /\ functions' = [functions EXCEPT ![Index] =
                           [@ EXCEPT !.locals = LocalsOf(c.groups),
                                     !.body = {c}]]
          /\ Keep
          /\ UNCHANGED <<signatures, imports, tables, memories, globals,
                         exports, start, ahead>>
     ELSE Throw(CodeError(c)) /\ UNCHANGED latest

-----------------------------------------------------------------------------
(* Build: the functions, and the exports that are functions by name.        *)
FunctionExports == {j \in DOMAIN exports : exports[j].kind = "func"}
FirstExport(name) ==
  CHOOSE j \in FunctionExports :
    /\ exports[j].name = name
    /\ \A k \in FunctionExports : exports[k].name = name => j <= k

Build ==
  /\ Between
  /\ parsed' =
       {[functions |-> functions,
         exported |-> [name \in {exports[j].name : j \in FunctionExports} |->
                         exports[FirstExport(name)].idx]]}
  /\ UNCHANGED <<latest, vectors, section, left, ahead, thrown, read>>

ReadItem ==
  \/ \E sig \in Signatures : ReadSignature(sig)
  \/ \E i \in Imports : ReadImport(i)
  \/ \E t \in Indices : ReadFunction(t)
  \/ \E t \in {"funcref", "i32"} : ReadTable(t)
  \/ ReadMemory
  \/ \E ended \in BOOLEAN : ReadGlobal(ended)
  \/ \E e \in Exports, found \in BOOLEAN : ReadExport(e, found)
  \/ \E i \in Indices : ReadStart(i)
  \/ \E c \in Codes : ReadCode(c)

Next ==
  \/ \E id \in 0..13, n \in 0..MaxSize : Section(id, n)
  \/ ReadItem
  \/ BadHeader
  \/ EndOpcode
  \/ Undecodable
  \/ Build

Spec == Init /\ [][Next]_vars

-----------------------------------------------------------------------------
Built == parsed # {}
Functions == [signature : Signatures, locals : Seq(ValTypes),
              body : SUBSET Codes]

(* Type invariant of all the state ModuleBuilder keeps: its vectors hold    *)
(* what the sections may hold, and a section's loop never runs past it.     *)
TypeOK ==
  /\ latest \in 0..13 /\ section \in 0..13 /\ left \in 0..MaxSize
  /\ signatures \in Seq(Signatures) /\ imports \in Seq(Imports)
  /\ functions \in Seq(Functions) /\ tables \in Seq(RefTypes)
  /\ memories \in Seq({"limits"}) /\ globals \in Seq({"global"})
  /\ exports \in Seq(Exports)
  /\ start \subseteq Indices /\ Cardinality(start) <= 1
  /\ ahead \in BOOLEAN
  /\ thrown \in {"none", "Parse", "ModuleTooLarge", "Validation",
                 "Undecodable"}
  /\ Built => thrown = "none" /\ left = 0
  /\ section = 10 => left <= Len(functions)

-----------------------------------------------------------------------------
(* What WebAssembly says of the module, from the bytes alone.               *)
Items(id) == IF \E i \in DOMAIN read : read[i].id = id
             THEN read[CHOOSE i \in DOMAIN read :
                         /\ read[i].id = id
                         /\ \A k \in 1..i - 1 : read[k].id # id].items
             ELSE <<>>
Has(id) == \E i \in DOMAIN read : read[i].id = id
Declared(kind) == Len(Items(SectionOf[kind]))
Imported(kind) ==
  Cardinality({i \in DOMAIN Items(2) : Items(2)[i].kind = kind})
Space(kind) == Imported(kind) + Declared(kind)
TypeOf(k) == Items(1)[Items(3)[k] + 1]

Misordered == \E i, j \in DOMAIN read :
  i < j /\ read[i].id # 0 /\ read[j].id # 0 /\ read[j].id <= read[i].id
Oversized == \/ \E i \in DOMAIN read : /\ read[i].id \in 1..7
                                        /\ read[i].count > Limit[read[i].id]
             \/ \E i \in DOMAIN Items(1) : ~FitsRegisters(Items(1)[i])
Miscounted == \E i \in DOMAIN read :
  read[i].id = 10 /\ read[i].count # Declared("func")
UnknownType ==
  \/ \E i \in DOMAIN Items(2) : /\ Items(2)[i].kind = "func"
                                /\ Items(2)[i].idx >= Len(Items(1))
  \/ \E i \in DOMAIN Items(2) : /\ Items(2)[i].kind = "table"
                                /\ Items(2)[i].type \notin RefTypes
  \/ \E i \in DOMAIN Items(3) : Items(3)[i] >= Len(Items(1))
  \/ \E i \in DOMAIN Items(4) : Items(4)[i] \notin RefTypes
UnknownIndex ==
  \/ \E i \in DOMAIN Items(7) : Items(7)[i].idx >= Space(Items(7)[i].kind)
  \/ \E i \in DOMAIN Items(8) : Items(8)[i] >= Space("func")
TooManyLocals == \E k \in DOMAIN Items(10) :
  Len(LocalsOf(Items(10)[k].groups)) > MaxLocals
IllTyped == \E k \in DOMAIN Items(10) :
  ~Valid(TypeOf(k), LocalsOf(Items(10)[k].groups), Items(10)[k])
Missized == \E k \in DOMAIN Items(10) : ~Items(10)[k].sized
InvalidCode == TooManyLocals \/ IllTyped \/ Missized

(* What this parser does not support: sections, the end of a global's       *)
(* expression, and references to what is imported.                          *)
Unsupported ==
  \/ \E i \in DOMAIN read : read[i].id \notin (0..8) \cup {10}
  \/ \E i \in DOMAIN Items(6) : Items(6)[i].ended
  \/ \E i \in DOMAIN Items(7) : Items(7)[i].idx >= Declared(Items(7)[i].kind)
  \/ \E i \in DOMAIN Items(8) : Items(8)[i] >= Declared("func")

(* What WebAssembly refuses too and nothing in the parser looks at:         *)
(* functions without a code section, a global's expression without its end, *)
(* equal export names, a start function that takes or returns something,    *)
(* and a second memory, one of the two imported.                            *)
FunctionType(i) ==
  LET types == SelectSeq(Items(2), LAMBDA m : m.kind = "func") IN
  IF i < Len(types) THEN Items(1)[types[i + 1].idx + 1]
  ELSE TypeOf(i - Len(types) + 1)
WithoutCode == Declared("func") > 0 /\ ~Has(10)
WithoutEnd == \E i \in DOMAIN Items(6) : ~Items(6)[i].ended
Repeated == \E i, j \in DOMAIN Items(7) :
  i < j /\ Items(7)[i].name = Items(7)[j].name
StartTyped == \E i \in DOMAIN Items(8) :
  FunctionType(Items(8)[i]) # [params |-> <<>>, results |-> <<>>]
MemoryTwice == Space("memory") > 1
Overlooked == WithoutCode \/ WithoutEnd \/ Repeated \/ StartTyped \/ MemoryTwice

(* ParseModule returns a module only if it is in order, within the limits,  *)
(* all its types and indices are known, its code is valid, and it uses      *)
(* nothing the parser does not support, whichever section says otherwise.   *)
(* That is less than WebAssembly asks: what is Overlooked is let through.   *)
AcceptedIsSound == Built =>
  /\ ~Misordered /\ ~Oversized /\ ~Miscounted
  /\ ~UnknownType /\ ~UnknownIndex /\ ~InvalidCode /\ ~Unsupported

(* ModuleBuilder's comment, "It also validates modules are well formed".    *)
AcceptsOnlyWellFormed == Built => ~Overlooked

\* The last export that was read is refused, and it is not the only one:
\* its name was compared with freed memory.
TakenForRepeated == section = 7 /\ left > 0 /\ Len(Items(7)) > 1

(* Each exception is thrown for a reason of its own kind that the bytes     *)
(* give: what was read in earlier sections never turns against a correct    *)
(* one.  Two are not justified by it: a ParseException at an export after   *)
(* the first (its name may be a new one, see RefusesOnlyRepeated), and one  *)
(* about bytes that do not decode, which the environment is to answer for.  *)
RejectsOnlyFlawed ==
  /\ thrown = "Parse" =>
       \/ Misordered \/ Miscounted \/ UnknownType \/ UnknownIndex
       \/ Missized \/ Unsupported \/ TakenForRepeated
       \/ read = <<>>  \* the header is wrong
  /\ thrown = "ModuleTooLarge" => Oversized \/ TooManyLocals
  /\ thrown = "Validation" => IllTyped

(* ParseExportsSection's "duplicate exported name": an export whose index   *)
(* is known is refused only if an earlier one has its name.                 *)
RefusesOnlyRepeated == thrown = "Parse" /\ section = 7 /\ left > 0 =>
  LET e == Items(7)[Len(Items(7))] IN
  e.idx < Known(e.kind) => \E j \in 1..Len(Items(7)) - 1 :
                             Items(7)[j].name = e.name

(* ParseExportsSection's "duplicate exported name": a module exports a name *)
(* once.                                                                    *)
ExportNamesUnique == Built => \A i, j \in DOMAIN Items(7) :
  Items(7)[i].name = Items(7)[j].name => i = j

\* Every declared function is there, in order and with its declared type.
TypesMatch == Built =>
  \A module \in parsed :
    /\ Len(module.functions) = Declared("func")
    /\ \A k \in DOMAIN module.functions :
         module.functions[k].signature = TypeOf(k)

\* The names are those of the module's function exports, and each leads to a
\* function exported under it, as long as no function is imported (imported
\* ones come first in the index space, but not in _functions).
ExportedNames == {Items(7)[j].name :
                    j \in {i \in DOMAIN Items(7) : Items(7)[i].kind = "func"}}
ExportsResolve == Built /\ Imported("func") = 0 =>
  \A module \in parsed :
    /\ DOMAIN module.exported = ExportedNames
    /\ \A name \in ExportedNames :
         LET i == module.exported[name] IN
         /\ \E j \in DOMAIN Items(7) :
              Items(7)[j] = [name |-> name, kind |-> "func", idx |-> i]
         /\ i < Len(module.functions)

\* Once a code section was read every function has its own code, the locals
\* that code declares, and no other's.
CodeMatches == Built /\ Has(10) =>
  \A module \in parsed : \A k \in DOMAIN module.functions :
    /\ module.functions[k].body = {Items(10)[k]}
    /\ module.functions[k].locals = LocalsOf(Items(10)[k].groups)

(* What ParseModule returns is what the bytes say: every function with its  *)
(* type, its code and locals, every name that exports one at that function. *)
(* The start function is not part of what it returns (ast.h:86).            *)
BuildsDeclared == TypesMatch /\ ExportsResolve /\ CodeMatches

(* kMaxFunctionSignatures ... kMaxExports bound what the builder holds over *)
(* the whole module, though each section checks its own size only: that no  *)
(* section comes twice is what keeps the sum within the limit.              *)
WithinLimits ==
  /\ Len(signatures) <= Limit[1] /\ Len(imports) <= Limit[2]
  /\ Len(functions) <= Limit[3] /\ Len(tables) <= Limit[4]
  /\ Len(memories) <= Limit[5] /\ Len(globals) <= Limit[6]
  /\ Len(exports) <= Limit[7]

(* Every reference the builder holds leads somewhere: the types of          *)
(* functions, exports and the start function.                               *)
NothingDangles ==
  /\ \A f \in DOMAIN functions : \E s \in DOMAIN signatures :
       functions[f].signature = signatures[s]
  /\ \A j \in DOMAIN exports :
       exports[j].idx < Len([func |-> functions, table |-> tables,
                             memory |-> memories, global |-> globals]
                              [exports[j].kind])
  /\ \A i \in start : i < Len(functions)
=============================================================================
