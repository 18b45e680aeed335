---------------------------- MODULE GoContainers ----------------------------
(* A Go program about structures, arrays, slices and maps, and its Uppaal    *)
(* counterpart.  A behaviour executes Go statements in both: u holds handles *)
(* into the arrays of each type (Containers), go holds objects that keep     *)
(* their identity: a variable, field or element of a structure or array type *)
(* is an object of its own, assigned by copying into it, and a pointer, a    *)
(* slice or a map refers to an object.  A channel is the same number in both *)
(* worlds.  A map is the sequence of its entries, oldest first.              *)
EXTENDS Containers, FiniteSets

CONSTANTS Programs,  \* sequence of [decls : name -> declaration, stmts : set]
          LeftOut,   \* legal statements that are not executed: see Executable
          MaxSteps   \* statements executed in one behaviour

VARIABLES program,   \* the number of the program being executed
          u,         \* Uppaal: env, cell, len, made, outOfResources, bad
          go,        \* Go: env and the sequence of objects ever created
          counted,   \* instances of each type the call graph counts so far
          exact,     \* no statement so far creates instances it leaves out
          steps
vars == <<program, u, go, counted, exact, steps>>

-----------------------------------------------------------------------------
(* Go.                                                                       *)
Slots(g, id) == DOMAIN g.obj[id].slots
GoSet(g, id, i, v) ==
    [g EXCEPT !.obj[id].slots = [j \in DOMAIN @ \cup {i} |-> IF j = i THEN v ELSE @[j]]]

RECURSIVE GoMake(_, _, _), GoFill(_, _, _, _)
GoZero(g, d) == IF RequiresDeepCopy(d) THEN GoMake(g, d.type, Size(d.type)) ELSE Result(g, Nil)
GoFill(g, T, id, n) ==
    IF n = 0 THEN g
    ELSE LET z == GoZero(GoFill(g, T, id, n - 1), SlotDecl(T, n - 1)) IN GoSet(z.s, id, n - 1, z.v)
GoMake(g, T, n) ==
    LET id == Len(g.obj) + 1
    IN Result(GoFill([g EXCEPT !.obj = Append(@, [type |-> T, slots |-> <<>>])], T, id, n), id)

RECURSIVE GoValueAt(_, _, _)
GoValueAt(g, decls, path) ==
    IF Len(path) = 1 THEN Result(g, g.env[path[1]])
    ELSE LET of == GoValueAt(g, decls, Front(path))
         IN IF Last(path) = Nil THEN GoZero(of.s, DeclAt(decls, path))
            ELSE Result(of.s, of.s.obj[of.v].slots[Last(path)])

(* Store v in slot i of an object; the slot of a new map entry is created.   *)
RECURSIVE GoPut(_, _, _, _), GoCopyInto(_, _, _, _)
GoPut(g, id, i, v) ==
    LET d == SlotDecl(g.obj[id].type, i)
    IN IF ~RequiresDeepCopy(d) THEN GoSet(g, id, i, v)
       ELSE LET at == IF i \in Slots(g, id) THEN Result(g, g.obj[id].slots[i]) ELSE GoZero(g, d)
            IN GoSet(GoCopyInto(at.s, at.v, v, Size(d.type)), id, i, at.v)
GoCopyInto(g, to, from, n) ==
    IF n = 0 THEN g
    ELSE GoPut(GoCopyInto(g, to, from, n - 1), to, n - 1, g.obj[from].slots[n - 1])

GoStore(g, decls, path, v) ==
    IF Len(path) > 1
    THEN LET of == GoValueAt(g, decls, Front(path)) IN GoPut(of.s, of.v, Last(path), v)
    ELSE IF RequiresDeepCopy(decls[path[1]])
    THEN GoCopyInto(g, g.env[path[1]], v, Size(decls[path[1]].type))
    ELSE [g EXCEPT !.env[path[1]] = v]

GoAssign(g, decls, dst, src) ==
    LET x == IF src = <<>> THEN GoZero(g, DeclAt(decls, dst)) ELSE GoValueAt(g, decls, src)
    IN GoStore(x.s, decls, dst, x.v)


GoLength(g, id) == IF id = Nil THEN 0 ELSE Cardinality(Slots(g, id))

RECURSIVE GoElements(_, _, _, _, _)
GoElements(g, decls, at, elems, n) ==
    IF n = 0 THEN g
    ELSE GoAssign(GoElements(g, decls, at, elems, n - 1), decls, <<Tmp, at + n - 1>>, elems[n])

GoExecuted(g, decls, s) ==
    LET Fresh(n) == LET x == GoMake(g, s.type, n) IN [x.s EXCEPT !.env[Tmp] = x.v]
        At(path) == GoValueAt(g, decls, path).v
        Assigned(h) == GoStore(h, decls, s.dst, h.env[Tmp])
    IN CASE s.op = "new" -> Assigned(Fresh(Size(s.type)))
         [] s.op = "make" -> Assigned(Fresh(s.n))
         [] s.op = "literal" ->
              Assigned(GoElements(Fresh(IF Types[s.type].kind = "map" THEN 0 ELSE Len(s.elems)),
                                  decls, 0, s.elems, Len(s.elems)))
         [] s.op = "append" ->
              LET n == GoLength(g, At(s.src))
                  old == Fresh(n)
              IN Assigned(GoElements(GoCopyInto(old, old.env[Tmp], At(s.src), n),
                                     decls, n, s.elems, Len(s.elems)))
         [] s.op \in {"assign", "range"} -> GoAssign(g, decls, s.dst, s.src)
         [] s.op = "copy" ->
              LET n == GoLength(g, At(s.dst))  k == GoLength(g, At(s.src))
              IN GoCopyInto(g, At(s.dst), At(s.src), IF n < k THEN n ELSE k)
         [] s.op = "delete" ->
              IF s.i = Nil THEN g
              ELSE [g EXCEPT !.obj[At(s.dst)].slots =
                       [j \in 0 .. Cardinality(DOMAIN @) - 2 |-> IF j < s.i THEN @[j] ELSE @[j + 1]]]

-----------------------------------------------------------------------------
(* The Go statements executed: those that do not panic, on containers that   *)
(* are not nil, and not LeftOut.                                             *)
RECURSIVE Readable(_, _, _)
Readable(g, decls, path) ==
    \/ path = <<>> \/ Len(path) = 1
    \/ /\ Readable(g, decls, Front(path))
       /\ LET of == GoValueAt(g, decls, Front(path))
          IN /\ of.v # Nil
             /\ \/ Last(path) \in Slots(of.s, of.v)
                \/ Last(path) = Nil /\ Types[of.s.obj[of.v].type].kind = "map"

Writable(g, decls, path) ==
    \/ Len(path) = 1
    \/ Readable(g, decls, path) /\ Last(path) # Nil
    \/ /\ Len(path) > 1 /\ Readable(g, decls, Front(path))
       /\ LET of == GoValueAt(g, decls, Front(path))
          IN of.v # Nil /\ Types[g.obj[of.v].type].kind = "map" /\ Last(path) = GoLength(g, of.v)

(* An object and the objects that are part of it.                            *)
RECURSIVE Parts(_, _)
Parts(g, id) ==
    {id} \cup UNION {Parts(g, g.obj[id].slots[i]) :
                       i \in {j \in Slots(g, id) : RequiresDeepCopy(SlotDecl(g.obj[id].type, j))}}

IsReference(d) == d.type # "chan" /\ d.pointer
Referenced(g, decls) ==
    {g.env[v] : v \in {w \in DOMAIN decls : IsReference(decls[w])}}
      \cup UNION {{g.obj[o].slots[i] : i \in {j \in Slots(g, o) : IsReference(SlotDecl(g.obj[o].type, j))}} :
                  o \in DOMAIN g.obj}

(* Uppaal replaces the handle of a variable that is assigned a copy, so a    *)
(* pointer taken before keeps the old object: left out as "pointed at".      *)
NotPointedAt(g, decls, path) ==
    RequiresDeepCopy(DeclAt(decls, path)) =>
        \/ ~Readable(g, decls, path)
        \/ Parts(g, GoValueAt(g, decls, path).v) \cap Referenced(g, decls) = {}

(* copy_ of a slice loses its elements: left out as "append to elements".    *)
AppendsToEmpty(g, decls, s) == GoLength(g, GoValueAt(g, decls, s.src).v) = 0
(* The value variable of a range over a slice is given the handle of the     *)
(* element, not a copy: left out as "range over objects".                    *)
RangesOver(g, decls, path) ==
    /\ Last(path) \in Slots(g, GoValueAt(g, decls, Front(path)).v)
    /\ \/ "range over objects" \notin LeftOut
       \/ Types[DeclAt(decls, Front(path)).type].kind = "map"
       \/ ~RequiresDeepCopy(DeclAt(decls, path))

NotNil(g, decls, path) == GoValueAt(g, decls, path).v # Nil

Source(g, decls, d, path) ==
    \/ path = <<>>
    \/ Readable(g, decls, path) /\ (RequiresDeepCopy(d) => NotNil(g, decls, path))

Executable(g, decls, s) ==
    /\ Readable(g, decls, s.dst) \/ Writable(g, decls, s.dst)
    /\ s.op \in {"assign", "range"} =>
           /\ Writable(g, decls, s.dst)
           /\ Source(g, decls, DeclAt(decls, s.dst), s.src)
    /\ s.op = "range" => RangesOver(g, decls, s.src)
    /\ s.op \in {"literal", "append"} =>
           \A i \in DOMAIN s.elems : Source(g, decls, SlotDecl(s.type, i - 1), s.elems[i])
    /\ s.op \in {"literal", "assign", "range"} /\ "pointed at" \in LeftOut => NotPointedAt(g, decls, s.dst)
    /\ s.op = "append" => /\ Readable(g, decls, s.src)
                          /\ "append to elements" \in LeftOut => AppendsToEmpty(g, decls, s)
    /\ s.op = "copy" => /\ Readable(g, decls, s.src)
                        /\ NotNil(g, decls, s.dst) /\ NotNil(g, decls, s.src)
                        /\ "pointed at" \in LeftOut =>
                              \A i \in Slots(g, GoValueAt(g, decls, s.dst).v) :
                                  NotPointedAt(g, decls, s.dst \o <<i>>)
    /\ s.op = "delete" => /\ NotNil(g, decls, s.dst)
                          /\ s.i \in Slots(g, GoValueAt(g, decls, s.dst).v) \cup {Nil}

-----------------------------------------------------------------------------
WithTmp(decls, s) ==
    [v \in DOMAIN decls \cup {Tmp} |->
        IF v = Tmp THEN [type |-> IF s.op \in {"new", "make", "literal", "append"} THEN s.type ELSE "chan",
                         pointer |-> TRUE]
        ELSE decls[v]]

(* Declared variables hold their initialized value; a channel variable whose *)
(* declaration names a channel holds it.                                     *)
RECURSIVE Declared(_, _, _)
Declared(x, decls, names) ==
    IF names = <<>> THEN x
    ELSE LET v == Head(names)
             a == ZeroValue(x.u, decls[v], TRUE)
             b == GoZero(x.go, decls[v])
             chan == IF decls[v].type = "chan" THEN decls[v].chan ELSE Nil
         IN Declared([u |-> [a.s EXCEPT !.env[v] = IF chan = Nil THEN a.v ELSE chan],
                      go |-> [b.s EXCEPT !.env[v] = IF chan = Nil THEN b.v ELSE chan],
                      counted |-> Plus(x.counted, IF RequiresDeepCopy(decls[v])
                                                  THEN InitializedAllocations(decls[v].type) ELSE None)],
                     decls, Tail(names))

Undeclared(decls) ==
    LET env == [v \in DOMAIN decls \cup {Tmp} |-> Nil]
    IN [u |-> [env |-> env, made |-> None, outOfResources |-> FALSE, bad |-> FALSE,
               cell |-> [T \in Names |-> [h \in Handles(T) |-> [i \in 0 .. Size(T) - 1 |-> 0]]],
               len |-> [T \in Names |-> [h \in Handles(T) |-> 0]]],
        go |-> [env |-> env, obj |-> <<>>],
        counted |-> None]

Decls == Programs[program].decls

Init == /\ program \in DOMAIN Programs
        /\ LET x == Declared(Undeclared(Decls), Decls, SetToSeq(DOMAIN Decls))
           IN u = x.u /\ go = x.go /\ counted = x.counted
        /\ exact = TRUE
        /\ steps = 0

Execute(s) ==
    LET withTmp == WithTmp(Decls, s)
        irs == Lowered(withTmp, s)
    IN /\ steps < MaxSteps
       /\ u' = [ExecutedAll(u, withTmp, irs) EXCEPT !.env[Tmp] = Nil]
       /\ go' = [GoExecuted(go, withTmp, s) EXCEPT !.env[Tmp] = Nil]
       /\ counted' = Plus(counted, AllocationsOfAll(withTmp, irs))
       /\ exact' = (exact /\ \A i \in DOMAIN irs : ~Uncounted(withTmp, irs[i]))
       /\ steps' = steps + 1
       /\ UNCHANGED program

Next == \E s \in {x \in Programs[program].stmts : Executable(go, Decls, x)} : Execute(s)
Spec == Init /\ [][Next]_vars

-----------------------------------------------------------------------------
(* What a Go program can observe: which channels and lengths it reads, and   *)
(* which references lead to the same object.                                 *)
RECURSIVE Observed(_, _, _)
Observed(d, h, id) ==
    LET n == IF Types[d.type].kind \in {"slice", "map"} THEN u.len[d.type][h] ELSE Size(d.type)
        k == GoLength(go, id)
    IN {<<d.type, h, id>>} \cup
         IF d.type = "chan" \/ h = Nil \/ id = Nil THEN {}
         ELSE {<<"length", n, k>>} \cup
              IF n # k THEN {}
              ELSE UNION {Observed(SlotDecl(d.type, i), u.cell[d.type][h][i], go.obj[id].slots[i]) :
                           i \in 0 .. n - 1}

Observations == UNION {Observed(Decls[v], u.env[v], go.env[v]) : v \in DOMAIN Decls}

(* As long as Uppaal has enough instances, every variable reads the channels *)
(* and lengths it reads in Go, and two places share an object exactly when   *)
(* they do in Go: a copy is deep where the value is part of the object and   *)
(* shared where it is a pointer, a slice or a map.                           *)
FollowsGo ==
    ~u.outOfResources =>
        \A a \in Observations :
            /\ a[1] \in {"chan", "length"} => a[2] = a[3]
            /\ (a[2] = Nil) <=> (a[3] = Nil)
            /\ \A b \in Observations : a[1] = b[1] => ((a[2] = b[2]) <=> (a[3] = b[3]))

(* The arrays of a type are never indexed outside their bounds unless the    *)
(* model has reported that it ran out of instances.                          *)
InBounds == u.bad => u.outOfResources

(* The call graph counts every instance that is created, so that the arrays  *)
(* sized by its total hold all of them.                                      *)
AllocationsCounted == exact => \A T \in Names : u.made[T] <= counted[T]
=============================================================================
