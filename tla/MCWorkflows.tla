---------------------------- MODULE MCWorkflows -----------------------------
(***************************************************************************)
(* A small instance of Workflows: three jobs that may write the same       *)
(* things, or a generation and a job of any type.                          *)
(***************************************************************************)
EXTENDS Workflows, TLC

CONSTANTS j1, j2, j3, c1, c2, o1

Req(type, target, flags) == [type |-> type, target |-> target, named |-> None, flags |-> flags]

\* The second campaign has the lower return.
Returns == (c1 :> 2) @@ (c2 :> 1)

Worst == Req("ad_optimize", None, {"pause"})
Named == [Worst EXCEPT !.named = c1]
Mark == Req("risk_control", o1, {"mark"})
Record == Req("risk_control", o1, {"amounts", "risky"})
Look == Req("customer_service", o1, {"taobao", "rag"})
Promote == Req("social_marketing", Product, {})

All(s) == {[j \in Jobs |-> CASE j = j1 -> t[1] [] j = j2 -> t[2] [] OTHER -> t[3]] : t \in s}

\* The same write, or another on the same object or by the same operation, with
\* the approval of the first.
Writing == {<<Worst, Named, Worst>>, <<Mark, Record, Mark>>,
            <<Look, Look, NoRequest>>}

AnyType == {Req("ad_optimize", c1, {"sku", "profit"}),
        Req("ad_optimize", None, {"metrics", "pause"}), Req("ad_optimize", None, {"unsupported"}),
        Req("risk_control", Ghost, {"risky", "amounts", "mark"}), Req("risk_control", None, {}),
        Promote, Req("social_marketing", None, {}), Req("social_marketing", Product, {"unsupported"}),
        Req("customer_service", None, {"rag", "upstream"}), Req("customer_service", None, {"invalid"}),
        Req("ops_report", None, {"daily_ops"}),
        Req("ops_report", None, {"unsupported"}),
        Req("goods_search", None, {}), Req("goods_search", None, {"unnamed"}),
        Req("goods_search", None, {"list_all"}), Req("goods_catalog", None, {}),
        Req("stock_analysis", None, {}), Req("stock_analysis", None, {"overview"}),
        Req("stock_analysis", None, {"list_all"}),
        Req("competitor_watch", None, {}), Req("competitor_watch", Product, {"one"}),
        Req("competitor_watch", Product, {"one", "price"}),
        Req("data_check", None, {"goods_rows", "order_rows", "sql"}),
        Req("order_query", o1, {}), Req("order_query", None, {}), Req("ad_query", None, {})}

Wanted == All(Writing \cup {<<Promote, r, NoRequest>> : r \in AnyType})
=============================================================================
