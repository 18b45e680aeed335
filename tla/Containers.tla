----------------------------- MODULE Containers -----------------------------
(* Structures, arrays, slices and maps.  The builder lowers a Go statement   *)
(* about them to make, assign, append, copy and delete statements of the     *)
(* intermediate representation (builder/type_stmts.go, assign_stmt.go), the  *)
(* translator turns these into calls of the make_, copy_, read_, write_,     *)
(* append_, copy_between_ and delete_ functions it declares for every type   *)
(* (translator/types.go, values.go, type_stmts.go), and the call graph       *)
(* counts the instances they create (ir/analyzer/call_graph_builder.go).     *)
(*                                                                           *)
(* The index of a map or of a random access is the one Go's key stands for.  *)
EXTENDS Integers, Sequences, SequencesExt

CONSTANTS Types,             \* name -> [kind, len, slots] or [kind, len, elem]
          Bound,             \* name -> number of instances Uppaal declares
          ContainerCapacity  \* slots of a slice or map

Names == DOMAIN Types

ASSUME CapacityAssumption == /\ ContainerCapacity \in Nat \ {0}
                             /\ \A T \in Names : Bound[T] \in Nat \ {0}

Nil == -1
Tmp == "tmp"      \* the unnamed variable the builder adds for an expression

Result(s, v) == [s |-> s, v |-> v]
Size(T) == IF Types[T].kind \in {"slice", "map"} THEN ContainerCapacity ELSE Types[T].len
SlotDecl(T, i) == IF Types[T].kind = "struct" THEN Types[T].slots[i + 1] ELSE Types[T].elem

(* Copying the value copies what it holds: structures and arrays that are    *)
(* not held through a pointer.                                               *)
RequiresDeepCopy(d) == d.type # "chan" /\ ~d.pointer

(* The declaration of the place a path names: a variable, then field or      *)
(* element indices.                                                          *)
RECURSIVE DeclAt(_, _)
DeclAt(decls, path) ==
    IF Len(path) = 1 THEN decls[path[1]]
    ELSE SlotDecl(DeclAt(decls, Front(path)).type, Last(path))

-----------------------------------------------------------------------------
(* Uppaal: u.made counts the calls of make_ and copy_, u.cell and u.len are  *)
(* the arrays of the type, u.bad an access outside of them.                  *)
Handles(T) == 0 .. Bound[T] - 1

Allocate(u, T) ==
    IF u.made[T] >= Bound[T]
    THEN Result([u EXCEPT !.made[T] = @ + 1, !.outOfResources = TRUE], 0)
    ELSE Result([u EXCEPT !.made[T] = @ + 1], u.made[T])
Exhausted(u, T) == u.made[T] >= Bound[T]

InArrays(T, h, i) == h \in Handles(T) /\ i \in 0 .. Size(T) - 1
SetSlot(u, T, h, i, v) ==
    IF InArrays(T, h, i) THEN [u EXCEPT !.cell[T][h][i] = v] ELSE [u EXCEPT !.bad = TRUE]
GetSlot(u, T, h, i) ==
    IF InArrays(T, h, i) THEN Result(u, u.cell[T][h][i]) ELSE Result([u EXCEPT !.bad = TRUE], 0)

RECURSIVE Make(_, _, _, _), FillSlots(_, _, _, _, _, _), CopyOf(_, _, _), CopySlots(_, _, _, _, _)
ZeroValue(u, d, initialize) ==
    IF initialize /\ RequiresDeepCopy(d) THEN Make(u, d.type, Size(d.type), TRUE) ELSE Result(u, Nil)

FillSlots(u, T, h, i, n, initialize) ==
    IF i = n THEN u
    ELSE LET z == ZeroValue(u, SlotDecl(T, i), initialize)
         IN FillSlots(SetSlot(z.s, T, h, i, z.v), T, h, i + 1, n, initialize)

Make(u, T, n, initialize) ==
    LET a == Allocate(u, T)
    IN IF Exhausted(u, T) THEN a
       ELSE Result(FillSlots([a.s EXCEPT !.len[T][a.v] = n], T, a.v, 0, n, initialize), a.v)

(* Mutant of CopiedValue: a copy shares what the original holds.             *)
SharedValue(u, d, v) == Result(u, v)

CopiedValue(u, d, v) == IF RequiresDeepCopy(d) THEN CopyOf(u, d.type, v) ELSE Result(u, v)

(* Slots 0 .. n - 1 of the old object, into the new one.                     *)
CopySlots(u, T, new, old, n) ==
    IF n = 0 THEN u
    ELSE LET before == CopySlots(u, T, new, old, n - 1)
             x == GetSlot(before, T, old, n - 1)
             c == CopiedValue(x.s, SlotDecl(T, n - 1), x.v)
         IN SetSlot(c.s, T, new, n - 1, c.v)

(* copy_ of a slice sets the length of the new slice to itself: a new array  *)
(* element, 0.                                                               *)
CopiedSlots(u, T, new) == IF Types[T].kind = "slice" THEN u.len[T][new] ELSE Size(T)
CopyOf(u, T, old) ==
    LET a == Allocate(u, T)
    IN IF Exhausted(u, T) THEN a
       ELSE Result(CopySlots(a.s, T, a.v, old, CopiedSlots(a.s, T, a.v)), a.v)

ReadMap(u, T, h, i) ==
    IF i = Nil THEN ZeroValue(u, SlotDecl(T, 0), TRUE)
    ELSE LET x == GetSlot(u, T, h, i) IN CopiedValue(x.s, SlotDecl(T, i), x.v)

(* Mutant of WriteMap: the check of the capacity is off by one.              *)
WriteMapPastCapacity(u, T, h, i, v) ==
    IF i > ContainerCapacity THEN [u EXCEPT !.outOfResources = TRUE]
    ELSE SetSlot([u EXCEPT !.len[T][h] = IF i >= @ THEN i + 1 ELSE @], T, h, i, v)

WriteMap(u, T, h, i, v) ==
    IF i >= ContainerCapacity THEN [u EXCEPT !.outOfResources = TRUE]
    ELSE SetSlot([u EXCEPT !.len[T][h] = IF i >= @ THEN i + 1 ELSE @], T, h, i, v)

DeleteMap(u, T, h, i) ==
    IF h < 0 \/ i < 0 THEN u
    ELSE LET n == u.len[T][h] - 1
         IN [u EXCEPT !.len[T][h] = n,
                      !.cell[T][h] = [j \in DOMAIN @ |-> IF j \in i .. n - 1 THEN @[j + 1] ELSE @[j]]]

(* The bound is the number of slices of the type, not the capacity.          *)
AppendTo(u, T, h, v) ==
    LET i == u.len[T][h]
    IN IF i >= Bound[T] THEN [u EXCEPT !.outOfResources = TRUE]
       ELSE SetSlot([u EXCEPT !.len[T][h] = i + 1], T, h, i, v)

CopyBetween(u, T, dst, src) ==
    LET n == u.len[T][dst]  k == u.len[T][src]
    IN IF dst = src THEN u ELSE CopySlots(u, T, dst, src, IF n < k THEN n ELSE k)

-----------------------------------------------------------------------------
(* The statements of the intermediate representation in Uppaal.              *)
RECURSIVE ValueAt(_, _, _)
ValueAt(u, decls, path) ==
    IF Len(path) = 1 THEN Result(u, u.env[path[1]])
    ELSE LET T == DeclAt(decls, Front(path)).type
             of == ValueAt(u, decls, Front(path))
         IN IF Types[T].kind = "map" THEN ReadMap(of.s, T, of.v, Last(path))
            ELSE GetSlot(of.s, T, of.v, Last(path))

Store(u, decls, path, v) ==
    IF Len(path) = 1 THEN [u EXCEPT !.env[path[1]] = v]
    ELSE LET T == DeclAt(decls, Front(path)).type
             of == ValueAt(u, decls, Front(path))
         IN IF Types[T].kind = "map" THEN WriteMap(of.s, T, of.v, Last(path), v)
            ELSE SetSlot(of.s, T, of.v, Last(path), v)

(* The source <<>> is the initialized value of the destination's type.       *)
SourceValue(u, decls, ir, d) ==
    IF ir.src = <<>> THEN ZeroValue(u, d, TRUE)
    ELSE LET x == ValueAt(u, decls, ir.src)
         IN IF ir.copy THEN CopyOf(x.s, d.type, x.v) ELSE x

Executed(u, decls, ir) ==
    CASE ir.op = "make" ->
           LET x == Make(u, ir.type, ir.n, ir.initialize) IN Store(x.s, decls, <<Tmp>>, x.v)
      [] ir.op \in {"assign", "range"} ->
           LET x == SourceValue(u, decls, ir, DeclAt(decls, ir.dst))
           IN Store(x.s, decls, ir.dst, x.v)
      [] ir.op = "append" ->
           LET T == decls[Tmp].type
               x == SourceValue(u, decls, ir, SlotDecl(T, 0))
           IN AppendTo(x.s, T, x.s.env[Tmp], x.v)
      [] ir.op = "copy" ->
           LET T == DeclAt(decls, ir.dst).type
               d == ValueAt(u, decls, ir.dst)
               x == ValueAt(d.s, decls, ir.src)
           IN CopyBetween(x.s, T, d.v, x.v)
      [] ir.op = "delete" ->
           LET x == ValueAt(u, decls, ir.dst)
           IN DeleteMap(x.s, DeclAt(decls, ir.dst).type, x.v, ir.i)

-----------------------------------------------------------------------------
(* The builder: Go statements as statements of the representation.           *)
MakeTmp(T, n, initialize) ==
    [op |-> "make", type |-> T, initialize |-> initialize,
     n |-> IF Types[T].kind = "map" THEN 0 ELSE n]
Assign(decls, dst, src) ==
    [op |-> "assign", dst |-> dst, src |-> src, copy |-> RequiresDeepCopy(DeclAt(decls, dst))]
AssignTmp(decls, dst) == <<Assign(decls, dst, <<Tmp>>)>>

Lowered(decls, s) ==
    LET T == decls[Tmp].type
    IN CASE s.op = "new" -> <<MakeTmp(T, Size(T), TRUE)>> \o AssignTmp(decls, s.dst)
         [] s.op = "make" -> <<MakeTmp(T, s.n, TRUE)>> \o AssignTmp(decls, s.dst)
         [] s.op = "literal" ->
              <<MakeTmp(T, Len(s.elems), FALSE)>>
                \o [i \in DOMAIN s.elems |-> IF s.elems[i] = <<>>
                                             THEN [Assign(decls, <<Tmp, i - 1>>, <<>>) EXCEPT !.copy = FALSE]
                                             ELSE Assign(decls, <<Tmp, i - 1>>, s.elems[i])]
                \o AssignTmp(decls, s.dst)
         [] s.op = "append" ->
              <<[op |-> "assign", dst |-> <<Tmp>>, src |-> s.src, copy |-> TRUE]>>
                \o [i \in DOMAIN s.elems |-> [op |-> "append", src |-> s.elems[i],
                                              copy |-> RequiresDeepCopy(SlotDecl(T, 0))]]
                \o AssignTmp(decls, s.dst)
         [] s.op = "assign" -> <<Assign(decls, s.dst, s.src)>>
         [] s.op = "range" -> <<[op |-> "range", dst |-> s.dst, src |-> s.src, copy |-> FALSE]>>
         [] OTHER -> <<s>>

RECURSIVE ExecutedAll(_, _, _)
ExecutedAll(u, decls, irs) ==
    IF irs = <<>> THEN u ELSE ExecutedAll(Executed(u, decls, Head(irs)), decls, Tail(irs))

-----------------------------------------------------------------------------
(* The call graph: how many instances of each type a statement creates.      *)
None == [T \in Names |-> 0]
One(T) == [None EXCEPT ![T] = 1]
Plus(a, b) == [T \in Names |-> a[T] + b[T]]
Times(n, a) == [T \in Names |-> n * a[T]]

RECURSIVE InitializedAllocations(_), FieldAllocations(_, _)
FieldAllocations(T, n) ==
    IF n = 0 THEN None
    ELSE Plus(FieldAllocations(T, n - 1),
              IF SlotDecl(T, n - 1).pointer THEN None ELSE InitializedAllocations(SlotDecl(T, n - 1).type))
InitializedAllocations(T) ==
    IF T = "chan" \/ (T \in Names /\ Types[T].kind \in {"slice", "map"}) THEN None
    ELSE IF Types[T].kind = "struct" THEN Plus(One(T), FieldAllocations(T, Size(T)))
    ELSE Plus(One(T), IF Types[T].elem.pointer THEN None
                      ELSE Times(Size(T), InitializedAllocations(Types[T].elem.type)))

(* Mutant of CopyAllocations: what the copied object holds is not counted.   *)
CopyAllocationsOfOneObject(T) == IF T = "chan" THEN None ELSE One(T)

RECURSIVE CopyAllocations(_), CopiedFieldAllocations(_, _)
CopiedFieldAllocations(T, n) ==
    IF n = 0 THEN None
    ELSE Plus(CopiedFieldAllocations(T, n - 1),
              IF RequiresDeepCopy(SlotDecl(T, n - 1)) THEN CopyAllocations(SlotDecl(T, n - 1).type) ELSE None)
CopyAllocations(T) ==
    IF T = "chan" THEN None
    ELSE IF Types[T].kind = "struct" THEN Plus(One(T), CopiedFieldAllocations(T, Size(T)))
    ELSE Plus(One(T), IF RequiresDeepCopy(Types[T].elem)
                      THEN Times(Size(T), CopyAllocations(Types[T].elem.type)) ELSE None)

IsMapRead(decls, path) ==
    Len(path) > 1 /\ Types[DeclAt(decls, Front(path)).type].kind = "map"

AssignAllocations(decls, ir, d) ==
    IF IsMapRead(decls, ir.src) THEN InitializedAllocations(d.type)
    ELSE Plus(IF ir.src = <<>> /\ RequiresDeepCopy(d) THEN InitializedAllocations(d.type) ELSE None,
              IF ir.copy THEN CopyAllocations(d.type) ELSE None)

Allocations(decls, ir) ==
    CASE ir.op = "make" ->
           IF ~ir.initialize THEN One(ir.type)
           ELSE Plus(IF Types[ir.type].kind \in {"slice", "map"} THEN One(ir.type) ELSE None,
                     InitializedAllocations(ir.type))
      [] ir.op = "assign" -> AssignAllocations(decls, ir, DeclAt(decls, ir.dst))
      [] ir.op = "append" -> AssignAllocations(decls, ir, SlotDecl(decls[Tmp].type, 0))
      [] ir.op = "copy" ->
           LET d == SlotDecl(DeclAt(decls, ir.dst).type, 0)
           IN IF RequiresDeepCopy(d) THEN Times(ContainerCapacity, CopyAllocations(d.type)) ELSE None
      [] ir.op \in {"delete", "range"} -> None

RECURSIVE AllocationsOfAll(_, _)
AllocationsOfAll(decls, irs) ==
    IF irs = <<>> THEN None ELSE Plus(Allocations(decls, Head(irs)), AllocationsOfAll(decls, Tail(irs)))

(* What the count leaves out: the elements make initializes, and the copies  *)
(* that reading a map makes.                                                 *)
ReadsMapOfObjects(decls, path) ==
    \E n \in 1 .. Len(path) - 1 :
        LET T == DeclAt(decls, SubSeq(path, 1, n)).type
        IN Types[T].kind = "map" /\ RequiresDeepCopy(Types[T].elem)
Uncounted(decls, ir) ==
    \/ /\ ir.op = "make" /\ ir.initialize /\ ir.n > 0
       /\ Types[ir.type].kind = "slice" /\ RequiresDeepCopy(Types[ir.type].elem)
    \/ ir.op \in {"assign", "append", "range"} /\ ReadsMapOfObjects(decls, ir.src)
=============================================================================
