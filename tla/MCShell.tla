-------------------------------- MODULE MCShell --------------------------------
(* Shell with one or two of everything. *)
EXTENDS Shell

MCRecords == <<[group |-> "g1", score |-> 4], [group |-> "g2", score |-> 5],
               [group |-> "g1", score |-> 8]>>

MCBatches == {<<"ok">>, <<"fail">>, <<"ok", "fail">>}

(* The notifications there are at first tell the behaviours of the top bar apart, *)
(* and no others.                                                                  *)
MCInit ==
    /\ ShellInit
    /\ part # "topbar" => rows = 0

MCSpec == MCInit /\ [][ShellNext]_shellVars /\ ShellFairness

================================================================================
