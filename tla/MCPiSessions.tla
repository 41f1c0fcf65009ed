----------------------------- MODULE MCPiSessions -----------------------------
(* Four small worlds, one of which a behaviour is in: one chat with every  *)
(* kind of event, API clients that race, the panel, and the composer.      *)
EXTENDS PiConsole

CONSTANTS s1, s2, c1

Chat == [calls |-> {c1}, named |-> {}, kinds |-> {"delta", "hidden", "notice", "empty"},
         events |-> 4, prompts |-> 2, followed |-> {s1}]
Api == [calls |-> Call, named |-> {s1}, kinds |-> {"delta"}, events |-> 2, prompts |-> 2,
        followed |-> {s1}]
Panel == [calls |-> Call, named |-> {}, kinds |-> {"delta"}, events |-> 1, prompts |-> 1,
          followed |-> {s1}]
Composer == [calls |-> Call, named |-> {}, kinds |-> {"delta"}, events |-> 3, prompts |-> 2,
             followed |-> {s1}]

LimitOf == {Chat, Api, Panel, Composer}
Views == [l \in LimitOf |-> IF l \in {Chat, Api} THEN "none"
                            ELSE IF l = Panel THEN "panel" ELSE "composer"]
=============================================================================
