---------------------------- MODULE MCCodeEditor ----------------------------
(* Bodies of three instructions, one of which jumps.                         *)
EXTENDS CodeEditor

Node(k, kind, len, refs) == [id |-> k, hook |-> 0, kind |-> kind, len |-> len, refs |-> refs]

\* The jump goes to index t, the entry of a switch to index 2 - t.
Jumps(k, t) ==
    {Node(k, "branch", 3, <<t>>), Node(k, "branch_w", 5, <<t>>),
     Node(k, "tableswitch", 0, <<t, 2 - t>>), Node(k, "lookupswitch", 0, <<t, 2 - t>>)}

Shapes(t) ==
    {[k \in 1..3 |-> IF k = at THEN Node(k, jump.kind, jump.len, jump.refs)
                               ELSE Node(k, "plain", IF k = 2 THEN 3 ELSE 1, <<>>)]
        : at \in 1..3, jump \in Jumps(0, t)}

\* Ranges and scopes reach from index p to q, the handler is where the jump goes.
Body(shape, t, p, q) ==
    LET at == Layout(shape)
        Off(i) == at[i + 1]
        Frame(d) == [at |-> d, uninit |-> <<Off(p)>>]
    IN  [code |-> [i \in 1..3 |-> [shape[i] EXCEPT !.refs = [k \in DOMAIN @ |-> Off(@[k]) - at[i]]]],
         exceptions |-> <<[start |-> Off(p), end |-> Off(q), handler |-> Off(t)]>>,
         lines |-> <<Off(p), Off(t)>>,
         locals |-> <<[start |-> Off(p), length |-> Off(q) - Off(p)]>>,
         frames |-> IF q < 3 /\ t < q THEN <<Frame(Off(t)), Frame(Off(q) - Off(t) - 1)>>
                                      ELSE <<Frame(Off(t))>>,
         marks |-> <<Off(p)>>,
         spans |-> <<[start |-> Off(p), length |-> Off(q) - Off(p)]>>]

Shaped == UNION {{<<t, shape>> : shape \in Shapes(t)} : t \in 0..2}

\* A constructor initialises this in its second instruction, which no jump
\* skips or repeats; or it has no such instruction, or two of them.
Constructed ==
    {s \in Shaped : /\ s[2][2].kind = "plain"
                    /\ s[2][1].kind # "plain" => s[1] = 1
                    /\ s[2][3].kind # "plain" => s[1] = 2 /\ Len(s[2][3].refs) = 1}

Methods ==
    {<<[static |-> TRUE, init |-> 0, max_stack |-> MaxU2 - 1], s>> : s \in Shaped}
    \union {<<[static |-> FALSE, init |-> 0, max_stack |-> 1], s>> : s \in Shaped}
    \union {<<[static |-> FALSE, init |-> i, max_stack |-> 1], s>> : i \in {-1, 2}, s \in Constructed}

MCBodies ==
    {m[1] @@ Body(m[2][2], m[2][1], range[1], range[2]) :
        m \in Methods, range \in {<<0, 1>>, <<0, 3>>, <<1, 2>>, <<1, 3>>, <<2, 3>>}}

MCHookLists ==
    {<<0>>, <<1>>, <<4>>, <<0, 0>>, <<0, 1>>, <<3, 0>>, <<5>>, <<2>>,
     <<1, 4, 1>>, <<3, 3, 3>>, <<4, 4, 0>>}

=============================================================================
