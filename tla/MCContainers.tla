--------------------------- MODULE MCContainers ---------------------------
EXTENDS GoContainers

Struct(slots) == [kind |-> "struct", len |-> Len(slots), slots |-> slots]
Container(kind, len, elem) == [kind |-> kind, len |-> len, elem |-> elem]
Part(T) == [type |-> T, pointer |-> FALSE]
Pointer(T) == [type |-> T, pointer |-> TRUE]
Chan == [type |-> "chan", pointer |-> FALSE]
ChanVar(c) == [type |-> "chan", pointer |-> FALSE, chan |-> c]

\* type Job struct { done chan int }
\* type Pool struct { next Job; last *Job; jobs []Job }
MCTypes ==
    [Job |-> Struct(<<Chan>>),
     Pool |-> Struct(<<Part("Job"), Pointer("Job")>>),
     Pair |-> Container("array", 2, Part("Job")),
     Jobs |-> Container("slice", 0, Part("Job")),
     Refs |-> Container("slice", 0, Pointer("Job")),
     Table |-> Container("map", 0, Part("Job")),
     Index |-> Container("map", 0, Pointer("Job"))]
MCBound == [T \in DOMAIN MCTypes |-> IF T = "Job" THEN 6 ELSE IF T = "Pool" THEN 3 ELSE 2]

To(dst, src) == [op |-> "assign", dst |-> dst, src |-> src]
New(dst, T) == [op |-> "new", dst |-> dst, type |-> T]
MakeOf(dst, T, n) == [op |-> "make", dst |-> dst, type |-> T, n |-> n]
Literal(dst, T, elems) == [op |-> "literal", dst |-> dst, type |-> T, elems |-> elems]
AppendOf(dst, src, T, elems) == [op |-> "append", dst |-> dst, src |-> src, type |-> T, elems |-> elems]
RangeOf(dst, src) == [op |-> "range", dst |-> dst, src |-> src]
CopyTo(dst, src) == [op |-> "copy", dst |-> dst, src |-> src]
DeleteFrom(dst, i) == [op |-> "delete", dst |-> dst, i |-> i]

Chans == [c |-> ChanVar(1), d |-> ChanVar(2)]
With(decls) == [v \in DOMAIN Chans \cup DOMAIN decls |-> IF v \in DOMAIN Chans THEN Chans[v] ELSE decls[v]]

Structs ==
    [decls |-> With([x |-> Part("Pool"), y |-> Part("Pool"), p |-> Pointer("Job")]),
     stmts |-> {To(<<"x">>, <<"y">>), To(<<"y">>, <<"x">>),
                To(<<"p">>, <<"x", 0>>), To(<<"x", 1>>, <<"p">>), To(<<"y", 0>>, <<"p">>),
                To(<<"p", 0>>, <<"c">>), To(<<"x", 0, 0>>, <<"d">>), To(<<"y", 1, 0>>, <<"d">>),
                New(<<"p">>, "Job"), Literal(<<"y">>, "Pool", <<(<<"x", 0>>), (<<"p">>)>>),
                Literal(<<"x">>, "Pool", <<(<<>>), (<<"y", 1>>)>>)}]
Arrays ==
    [decls |-> With([a |-> Part("Pair"), b |-> Part("Pair"), q |-> Pointer("Pair"), p |-> Pointer("Job")]),
     stmts |-> {To(<<"a">>, <<"b">>), To(<<"b">>, <<"q">>), To(<<"q">>, <<"a">>),
                To(<<"p">>, <<"a", 1>>), To(<<"b", 0>>, <<"a", 1>>), To(<<"q", 1>>, <<"p">>),
                To(<<"a", 1, 0>>, <<"c">>), To(<<"b", 0, 0>>, <<"d">>), To(<<"p", 0>>, <<"d">>),
                Literal(<<"a">>, "Pair", <<(<<>>), (<<"b", 0>>)>>)}]
Slices ==
    [decls |-> With([s |-> Pointer("Jobs"), t |-> Pointer("Jobs"), j |-> Part("Job"), p |-> Pointer("Job")]),
     stmts |-> {MakeOf(<<"s">>, "Jobs", 0), MakeOf(<<"s">>, "Jobs", 2), To(<<"t">>, <<"s">>),
                Literal(<<"t">>, "Jobs", <<(<<"j">>), (<<>>)>>),
                AppendOf(<<"s">>, <<"s">>, "Jobs", <<(<<"j">>)>>),
                AppendOf(<<"t">>, <<"s">>, "Jobs", <<(<<"j">>), (<<"p">>)>>),
                CopyTo(<<"s">>, <<"t">>), To(<<"p">>, <<"s", 0>>), To(<<"s", 0>>, <<"t", 1>>),
                RangeOf(<<"j">>, <<"t", 0>>),
                To(<<"t", 0, 0>>, <<"d">>), To(<<"j", 0>>, <<"c">>), To(<<"p", 0>>, <<"d">>)}]
Maps ==
    [decls |-> With([t |-> Pointer("Table"), i |-> Pointer("Index"), j |-> Part("Job"), p |-> Pointer("Job")]),
     stmts |-> {MakeOf(<<"t">>, "Table", 0), MakeOf(<<"i">>, "Index", 0), New(<<"p">>, "Job"),
                Literal(<<"t">>, "Table", <<(<<"j">>), (<<>>)>>)}
               \cup {To(<<"t", k>>, <<"j">>) : k \in 0 .. 2} \cup {To(<<"j">>, <<"t", k>>) : k \in -1 .. 1}
               \cup {To(<<"i", k>>, <<"p">>) : k \in 0 .. 2} \cup {To(<<"p">>, <<"i", k>>) : k \in -1 .. 1}
               \cup {DeleteFrom(<<"t">>, k) : k \in -1 .. 1} \cup {DeleteFrom(<<"i">>, 0)}
               \cup {RangeOf(<<"j">>, <<"t", 0>>), RangeOf(<<"p">>, <<"i", 0>>), To(<<"j", 0>>, <<"c">>), To(<<"p", 0>>, <<"d">>)}]
References ==
    [decls |-> With([r |-> Pointer("Refs"), s |-> Pointer("Refs"), j |-> Part("Job"), p |-> Pointer("Job")]),
     stmts |-> {MakeOf(<<"r">>, "Refs", 2), AppendOf(<<"s">>, <<"s">>, "Refs", <<(<<"p">>), (<<"j">>)>>),
                Literal(<<"s">>, "Refs", <<(<<"p">>)>>), CopyTo(<<"r">>, <<"s">>), CopyTo(<<"s">>, <<"r">>),
                RangeOf(<<"p">>, <<"r", 1>>), To(<<"p">>, <<"r", 0>>), To(<<"p">>, <<"j">>), New(<<"p">>, "Job"), To(<<"r", 1>>, <<"s", 0>>),
                To(<<"r">>, <<"s">>), To(<<"p", 0>>, <<"c">>), To(<<"s", 0, 0>>, <<"d">>)}]
MCPrograms == <<Structs, Arrays, Slices, Maps, References>>
=============================================================================
