----------------------------- MODULE MCUsageRows -----------------------------
(* Every width from none to a wide terminal; shares and times on both sides of  *)
(* every threshold; narrow and wide texts, short and longer than their column.  *)
EXTENDS UsageRows

Text(narrow, wide) == [narrow |-> narrow, wide |-> wide]

Short == Text(6, 0)
Long == Text(50, 0)
WideShort == Text(0, 3)
WideLong == Text(1, 20)
MCTexts == {Short, Long, WideShort, WideLong}

Limit(kind, group, model) == [kind |-> kind, group |-> group, model |-> model]

MCLimits == {Limit("session", "session", Short), Limit("weekly_all", None, Short),
             Limit("weekly_scoped", "weekly", WideShort), Limit("weekly_opus", None, WideLong),
             Limit("nimbus", None, Long)}
MCWindows == {[length |-> n] : n \in {0, 50, 300, 10080}}

\* Around the end, the hour, the day, and one percent into each window.
MCWaits == {-1, 0, 1, 5, 25, 48, 49, 50, 59, 60, 150, 270, 296, 297, 298, 300, 599, 600, 1439, 1440,
            5040, 9072, 9978, 9979, 9980, 10080, 13000}

=============================================================================
