-------------------------- MODULE MCConstructorInit --------------------------
(* Constructor bodies of eight instructions, chosen position by position so  *)
(* that branches, switches and loops meet initialising calls on "this", on a *)
(* fresh instance and on a value that differs between the paths.             *)
EXTENDS ConstructorInit

I(op, a, b) == [op |-> op, a |-> a, b |-> b, flow |-> "next", targets |-> <<>>]
Jump(flow, popped, targets) ==
    [op |-> "effect", a |-> popped, b |-> 0, flow |-> flow, targets |-> targets]

This == I("aload", 0, 1)
Push == I("effect", 0, 1)
Return == [op |-> "none", a |-> 0, b |-> 0, flow |-> "end", targets |-> <<>>]
Throw == [op |-> "effect", a |-> 1, b |-> 0, flow |-> "end", targets |-> <<>>]

Forms == <<
    {Push, I("dup", 1, 0), I("astore", 1, 1)},
    {Jump("branch", 1, <<7>>), Jump("switch", 1, <<7, 5, 6>>), I("keep", 0, 0), This},
    {I("init", 0, 0), I("init", 1, 0), I("swap", 0, 0), I("store", 0, 1)},
    {Return, Jump("goto", 0, <<7>>), I("aload", 1, 1)},
    {I("init", 0, 0), I("init", 1, 0), Throw},
    {Return, Jump("goto", 0, <<4>>), Jump("branch", 1, <<3>>)}
  >>

Codes == {<<This, Push, a, b, c, d, e, f>> :
              a \in Forms[1], b \in Forms[2], c \in Forms[3],
              d \in Forms[4], e \in Forms[5], f \in Forms[6]}

Body(code, locals, handlers) ==
    [code |-> code, max_locals |-> locals, max_stack |-> 4, handlers |-> handlers]

\* No code, no local variables, a target inside an instruction, a subroutine, a
\* call that names its class by a second constant.
OddBodies ==
    {Body(<<>>, 1, {}), Body(<<This, Return>>, 0, {}),
     Body(<<This, Push, Jump("switch", 1, <<0, 4>>), I("init", 0, 0), Return>>, 1, {}),
     Body(<<Push, Jump("branch", 1, <<4>>), I("unknown", 0, 0), This, I("init", 0, 0)>>, 1, {}),
     Body(<<This, I("init", 0, 1), Return>>, 1, {})}

MCBodies == {Body(c, 2, {}) : c \in Codes} \union OddBodies

\* super(f()) whose argument is computed under a handler that calls super(0).
HandlerBodies ==
    {Body(<<This, I("effect", 0, 1), I("init", 1, 0), Return,
            I("effect", 1, 0), This, Push, I("init", 1, 0), Return>>,
          2, {[from |-> 2, to |-> 3, pc |-> 5]})}
=============================================================================
