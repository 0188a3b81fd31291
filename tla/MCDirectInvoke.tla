--------------------------- MODULE MCDirectInvoke ---------------------------
(* A module with one method, its handlers and its callers, for TLC.            *)
EXTENDS DirectInvoke

Fb == [any |-> FALSE, id |-> "F", wire |-> "fb", alignment |-> 0, length |-> 0]
Al == [any |-> FALSE, id |-> "A", wire |-> "al", alignment |-> 2, length |-> 2]

mcMethods ==
  [run |-> [inputs |-> [i |-> [types |-> {Fb}, required |-> TRUE], j |-> [types |-> {}, required |-> FALSE]],
            outputs |-> [o |-> {Fb, Al}, p |-> {}]]]

Push(port, type, from, size, off) == [port |-> port, type |-> type, from |-> from, size |-> size, off |-> off]
mcPushes ==
  {Push("o", Fb, "stack", 1, 0), Push("o", Al, "sdk", 2, 0), Push("p", Fb, "sdk", 1, 1),
   Push("o", Fb, "input", 1, 0), Push("o", Al, "stack", 1, 0)}

Input(port, size) == [port |-> port, type |-> Fb, size |-> size, align |-> 2,
                      ownership |-> "HOST_OWNED", mutability |-> "IMMUTABLE"]
Request(from, external, inputs) ==
  [valid |-> TRUE, method |-> "run", external |-> external, from |-> from, inputs |-> inputs]
mcRequests ==
  {Request("bytes", FALSE, <<Input("i", 1), Input("j", 2)>>), Request("bytes", FALSE, <<Input("j", 1)>>),
   [Request("bytes", FALSE, <<>>) EXCEPT !.method = "no"], [Request("bytes", FALSE, <<>>) EXCEPT !.valid = FALSE],
   Request("own", TRUE, <<Input("i", 1)>>), Request("elsewhere", TRUE, <<Input("i", 1)>>),
   Request("forwarded", FALSE, <<Input("i", 1)>>), Request("forwarded", TRUE, <<Input("i", 1)>>)}
=============================================================================
