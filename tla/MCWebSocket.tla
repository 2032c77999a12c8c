----------------------------- MODULE MCWebSocket -----------------------------
(* TLC instances of WebSocket: the example with a server that sends control *)
(* frames between messages, inside messages, and slowly; and a free sketch. *)
EXTENDS WebSocket

Example(server, delivery) ==
    [sketch |-> "example", server |-> server, delivery |-> delivery]
Plain == Example("plain", "whole")

AllConducts == {Plain, Example("inside", "whole"), Example("plain", "split"),
                [Plain EXCEPT !.sketch = "free"]}
SizesOfFrames == [text |-> {1, 2}, cont |-> {0, 1}, ping |-> {0, 2}, pong |-> {1}, close |-> {0}]
FramesOf == [c \in AllConducts |-> IF c.sketch = "example" /\ c.delivery = "whole" THEN 3 ELSE 2]
LateFramesOf == [c \in AllConducts |-> IF c = Plain THEN 1 ELSE 0]

\* The example alone, with a slow server.
SlowConduct == {Example("plain", "split")}
SlowFrames == [c \in SlowConduct |-> 1]
=============================================================================
