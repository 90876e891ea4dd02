----------------------------- MODULE MCTerminal -----------------------------
(* The instance of Desk, and so of Terminal, Offers and Editors, for TLC. *)
EXTENDS Desk, TLC

CONSTANTS a, b           \* work items

Once(kinds) == [k \in Kinds |-> IF k \in kinds THEN 1 ELSE 0]

\* Calls beside each other; a person at a list that is refreshed, or that
\* another process changes; settings changed, and the app left, over calls
\* and failures.
Budget == {Once({}), [Once({}) EXCEPT !["call"] = 3],
           [Once({"failure"}) EXCEPT !["click"] = 2],
           Once({"call", "dialog", "other"}),
           Once({"save", "quit", "failure"}),
           Once({"call", "save", "quit"})}

\* A defect may be closed, or another person's before it.
Lists == {<<a, b>>, <<b>>}

Few(doings) == [d \in Doings |-> IF d \in doings THEN 1 ELSE 0]

\* Presses while a list is queried again, or left; a board that two pumps
\* refresh; wizards of the dashboard that outlive their offers or session;
\* a workspace that is deleted under its wizard.
Spare == {Few({}),
          [Few({"change", "leave", "error"}) EXCEPT !["requirements"] = 2, !["press"] = 2],
          [Few({"change", "age", "error"}) EXCEPT !["defects"] = 2, !["press"] = 2],
          Few({"tab", "refresh", "edit", "press", "change", "leave"}),
          [Few({"tab", "defects", "error"}) EXCEPT !["press"] = 2],
          [Few({"leave", "shut", "age"}) EXCEPT !["wizard"] = 2],
          Few({"tab", "delete", "press", "error"}),
          Few({"requirements", "press", "shut"})}

\* Rows one at a time; sections of the configuration together.
Edited == {[edited |-> {}, mishaps |-> {}],
           [edited |-> {"task"}, mishaps |-> {"failed"}],
           [edited |-> {"plan"}, mishaps |-> {"options"}],
           [edited |-> {"nodes", "names"}, mishaps |-> {"failed"}],
           [edited |-> {"nodes", "names"}, mishaps |-> {"halfway"}],
           [edited |-> {"groups"}, mishaps |-> {"options"}]}
=============================================================================
