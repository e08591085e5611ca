------------------------------- MODULE MCConsole -------------------------------
(* Console with one or two of everything. *)
EXTENDS Console, TLC

MCApiOf == [e \in Endpoints |-> "a1"]
MCCollections == <<"a1", "a2">>
MCEndpointsOf == ("b1" :> 2) @@ ("b2" :> 0)

MCQuiet == [requests |-> 0, errors |-> 0, latency |-> 0]
MCSummaries == {MCQuiet, [requests |-> 1, errors |-> 3, latency |-> 0],
                [requests |-> 2, errors |-> 0, latency |-> 10]}

(* All items are there at first. *)
MCInit ==
    /\ ConsoleInit
    /\ part \in {"domains", "domain"} => server = [i \in Apis \union Endpoints |-> 1]

MCSpec == MCInit /\ [][ConsoleNext]_consoleVars

================================================================================
