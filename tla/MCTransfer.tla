----------------------------- MODULE MCTransfer -----------------------------
(* Values beside each other and in an object; columns of rows; rows as a   *)
(* whole; an array as the result; a place in another; and schemas without  *)
(* a type or a source.  Each with and without defaults and requirements.   *)
EXTENDS Transfer

CONSTANTS a, b, o, l

Places == UNION {[1..n -> Names \cup 0..1] : n \in 1..2}

Src(path) == [root |-> "r", path |-> path]
Leaf(type, path, dflt) == [types |-> <<type>>, src |-> Src(path), dflt |-> dflt,
                           allowEmpty |-> FALSE, required |-> {}]
Inner(type, required)  == [types |-> <<type>>, src |-> NoSrc, dflt |-> Nil,
                           allowEmpty |-> FALSE, required |-> required]

Values(d, e, req) ==
    <<>> :> Inner("object", req)
    @@ <<a>> :> Leaf("string", <<a>>, d)
    @@ <<o>> :> [Inner("object", req) EXCEPT !.allowEmpty = d # Nil]
    @@ <<o, b>> :> Leaf("integer", <<b>>, e)

Columns(d, req) ==
    <<>> :> Inner("object", req)
    @@ <<l>> :> Inner("array", {"items"})
    @@ <<l, Each>> :> Inner("object", req)
    @@ <<l, Each, a>> :> Leaf("string", <<l, Each, a>>, d)
    @@ <<l, Each, b>> :> Leaf("integer", <<l, Each, b>>, Nil)

RootColumns == <<>> :> Inner("array", {"items"})
               @@ <<Each>> :> Inner("object", {a})
               @@ <<Each, a>> :> Leaf("string", <<l, Each, a>>, Nil)

WholeRows == <<>> :> Inner("object", {})
             @@ <<l>> :> [Inner("array", {}) EXCEPT !.types = <<"array", "null">>]
             @@ <<l, Each>> :> Leaf("object", <<l>>, Nil)

Tags == [WholeRows EXCEPT ![<<l, Each>>].types = <<"string">>]

Nested == [Values(Nil, Nil, {}) EXCEPT ![<<o>>].src = Src(<<o>>)]

Wrong == {[Values(Nil, Nil, {}) EXCEPT ![<<a>>].types = <<>>],
          [Values(Nil, Nil, {}) EXCEPT ![<<a>>].src = NoSrc]}

TheSchemas ==
    {Values(d, e, req) : d \in {Nil, Text("d"), Text(NilMark)}, e \in {Nil, Num(7)},
                         req \in {{}, {a, o, b}}}
    \cup {Columns(d, req) : d \in {Nil, Text("d"), Arr(<<Text("d")>>)}, req \in {{}, {l, a, b}}}
    \cup {RootColumns, WholeRows, Tags, Nested} \cup Wrong

(* An object with the names whose value is not Missing.                    *)
Some(f) == LET names == {s \in DOMAIN f : f[s] # Missing} IN Obj([s \in names |-> f[s]])
RowOf(x, y) == Some(a :> x @@ b :> y)

Lists == {Missing, Num(1), Arr(<<>>), Arr(<<RowOf(Text("x"), Num(1)), RowOf(Text("y"), Num(2))>>),
          Arr(<<RowOf(Missing, Num(1)), RowOf(Text("y"), Num(2))>>),
          Arr(<<RowOf(Nil, Nil), RowOf(Text("y"), Missing)>>), Arr(<<Nil, Text("y")>>),
          Json(Arr(<<RowOf(Text("x"), Num(1)), RowOf(Nil, Num(2))>>))}

TheVolumes ==
    {"r" :> Missing, "r" :> Text("x")}
    \cup {"r" :> Json(Some(a :> x @@ b :> y @@ l :> z)) :
             x \in {Missing, Nil, Text("x")}, y \in {Missing, Num(1)}, z \in Lists}
    \cup {"r" :> Json(Obj(o :> Obj(a :> Num(1)) @@ b :> Num(2)))}

TheDocuments ==
    {NoText, Obj(<<>>), Arr(<<>>), Obj(a :> Text("x")), Obj(o :> Num(1)),
     Obj(o :> Obj(a :> Num(1))), Obj(a :> Nil @@ o :> Arr(<<>>)),
     Obj(l :> Arr(<<RowOf(Missing, Num(1)), RowOf(Text("y"), Num(2))>>) @@ o :> Obj(b :> Num(3)))}
=============================================================================
