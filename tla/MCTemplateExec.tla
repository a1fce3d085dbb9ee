--------------------------- MODULE MCTemplateExec ---------------------------
(* Four sets of templates that nest calls, statements and requests.        *)
EXTENDS TemplateExec, TLC

CONSTANTS alpha, beta, price, now, Main, Sub, Q1, Q2, Web, Gone

TheTemplates == {Main, Sub, Q1, Q2, Web, Gone}

set(n, v)  == [op |-> "set", name |-> n, val |-> v]
copy(n, m) == [op |-> "copy", name |-> n, from |-> m]
time(n)    == [op |-> "time", name |-> n]
ref(n)     == [op |-> "ref", name |-> n]
in(vs)     == [op |-> "in", vals |-> vs]
run(t)     == [op |-> "run", tpl |-> t]
sql(t)     == [op |-> "sql", tpl |-> t]
ext(t)     == [op |-> "ext", tpl |-> t]
word       == [op |-> "word"]
panic      == [op |-> "panic"]

(* Q2 runs Q1 while its own text is being rendered, and numbers values     *)
(* before and after.                                                       *)
Nested == Main :> <<run(Sub), sql(Q2), sql(Q1)>>
          @@ Sub :> <<set(price, alpha), in(<<beta>>)>>
          @@ Q1 :> <<word, ref(price), in(<<alpha>>)>>
          @@ Q2 :> <<in(<<alpha, beta>>), run(Sub), sql(Q1), in(<<>>), in(<<beta>>)>>

(* A request whose text holds the output of a statement.                   *)
Mixed == Main :> <<copy(price, now), ext(Web), run(Q1), time(now), sql(Q2)>>
         @@ Q1 :> <<sql(Sub)>>
         @@ Sub :> <<in(<<beta>>), ref(price)>>
         @@ Q2 :> <<ext(Web), in(<<alpha>>), time(now)>>
         @@ Web :> <<word, sql(Sub)>>

(* An unset name, an undefined template, a panic and an empty statement.   *)
Broken == Main :> <<sql(Q1), run(Sub), sql(Q2)>>
          @@ Sub :> <<run(Gone)>>
          @@ Q1 :> <<ref(price)>>
          @@ Q2 :> <<>>
          @@ Web :> <<sql(Q2), panic>>

Panicking == Main :> <<set(price, beta), sql(Q1), run(Sub), sql(Q1)>>
             @@ Sub :> <<run(Web)>>
             @@ Q1 :> <<ref(price), in(<<alpha>>)>>
             @@ Web :> <<sql(Q1), panic>>

ThePrograms == {Nested, Mixed, Broken, Panicking}

AllRegistered == [t \in TheTemplates |-> "provider"]

TheMetas == {AllRegistered, [AllRegistered EXCEPT ![Q2] = "noMeta"],
             [AllRegistered EXCEPT ![Web] = "noProvider"]}
=============================================================================
