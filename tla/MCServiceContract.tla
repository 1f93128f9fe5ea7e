------------------------- MODULE MCServiceContract -------------------------
(* Services "Calc", whose name is a prefix of the second's, "Calculator"   *)
(* and "Echo"; what may be bound has a name in two services, a method with *)
(* two bindings, inbound, outbound and one-way methods and one without a   *)
(* callback.  The program binds any part of it in any order.               *)
EXTENDS ServiceContract

CONSTANTS calc, calculator, echo, add, ping, c1, c2

MCService == {calc, calculator, echo}
MCMethod == {add, ping}
MCClass == {c1, c2}
MCPrefixOf == {<<calc, calculator>>}

Inbound(req, resp) == SoapNativeInbound(req, resp)
OneWay(f) == [f EXCEPT !.isOneWay = TRUE]
Binding(s, m, f) == [service |-> s, method |-> m, function |-> f]

MCProgram ==
    {Binding(calc, ping, [Inbound(c1, c1) EXCEPT !.callback = FALSE]),
     Binding(calculator, add, BindProtobuf(c1, c2, TRUE)),
     Binding(calculator, ping, OneWay(Inbound(c1, c2))),
     Binding(echo, add, Inbound(c2, c1)), Binding(echo, add, Inbound(c1, c2)),
     Binding(echo, ping, SoapNativeOutbound(c1, c2)),
     Binding(echo, ping, [OneWay(BindProtobuf(c2, c1, FALSE)) EXCEPT !.callback = TRUE])}
=============================================================================
