------------------------------ MODULE MCRelay ------------------------------
(***************************************************************************)
(* Every client with the servers it suits, on short inputs.                *)
(***************************************************************************)
EXTENDS Relay

MCPairs ==
    {<<client, server>>, <<client, serverp>>, <<client2, server>>, <<client2, serverp2>>,
     <<client2, server2>>, <<client2, reflectserver>>, <<reflectclient, reflectserver>>}

typed(n, ends) == [bytes |-> [i \in 1 .. n |-> i], ends |-> ends]

MCStdins ==
    {<<typed(n, a), typed(m, b)>> : n \in {0, 3}, m \in {0, 3}, a, b \in BOOLEAN}
      \cup {<<typed(5, FALSE), typed(5, FALSE)>>, <<typed(5, TRUE), typed(0, FALSE)>>}
=============================================================================
