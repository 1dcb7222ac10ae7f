--------------------------- MODULE MCDataAnalysis ---------------------------
(***************************************************************************)
(* A small instance of DataAnalysis: the orders, the goods and a table the *)
(* glossary does not know.                                                 *)
(***************************************************************************)
EXTENDS DataAnalysis, TLC

CONSTANTS a1

Facts == {"order", "goods"}
Select(tables, columns) ==
  [kind |-> "select", parses |-> TRUE, cheap |-> TRUE, tables |-> tables, columns |-> columns,
   ctes |-> {}, names |-> {}, aliases |-> {}, whole |-> {}]
Nothing == [Select({}, {}) EXCEPT !.kind = "none"]

\* One of each kind the validator tells apart.
Trend == [Select({"order"}, {}) EXCEPT !.names = {"total"}]
Join == Select(Facts, {<<"order", "total">>, <<"goods", "sku">>})
\* A CTE named like the table it reads, and an alias named like a column.
Shadow == [Select({"order", "audit"}, {}) EXCEPT
             !.ctes = {"audit"}, !.names = {"total", "sku"}, !.aliases = {"sku"}]
Wanted == {Trend, Join, Shadow, [Trend EXCEPT !.whole = {"order"}],
           Select({"goods"}, {<<"goods", "total">>}),
           [Trend EXCEPT !.kind = "update"], [Trend EXCEPT !.parses = FALSE],
           [Join EXCEPT !.cheap = FALSE]}

Fast == [k \in {"plain", "diagnostic", "trend", "category", "sku", "tool"} |->
           CASE k \in {"trend", "tool"} -> Trend [] k = "category" -> Join [] OTHER -> Nothing]

Static ==
  [source |-> "static", relations |-> {Facts},
   tables |-> [t \in {"order", "goods", "audit"} |->
                 CASE t = "order" -> {"total", "sku"} [] t = "goods" -> {"sku", "total"}
                   [] OTHER -> {}]]

ForeignKeys == {Facts}
Joined == [k \in ForeignKeys |-> Facts \X {"sku"}]
Veiled == {<<"order", "sku">>}
Secret == {<<"goods", "total">>}

User(tables, admin) ==
  [authenticated |-> TRUE, tenant |-> TRUE, admin |-> admin, tables |-> tables]
Req(kind, user, sql) == [kind |-> kind, user |-> user, sql |-> sql]

All(rs) == {[a \in Jobs |-> r] : r \in rs}
Asked == All({Req("diagnostic", User(Facts, FALSE), Nothing),
              Req("plain", User({"order"}, FALSE), Nothing),
              Req("plain", User(Facts, TRUE), Nothing),
              Req("plain", User({}, FALSE), Nothing),
              Req("plain", [User(Facts, FALSE) EXCEPT !.tenant = FALSE], Nothing),
              Req("plain", [User(Facts, FALSE) EXCEPT !.authenticated = FALSE], Nothing),
              Req("plain", User(Facts, FALSE), Join),
              Req("tool", User({}, FALSE), Trend), Req("tool", User({}, FALSE), Nothing),
              Req("tool", User({}, FALSE), [Trend EXCEPT !.kind = "update"])})
=============================================================================
