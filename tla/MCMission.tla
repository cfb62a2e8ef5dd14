----------------------------- MODULE MCMission -----------------------------
(***************************************************************************)
(* Plans for model checking Mission:                                       *)
(*   "search"  sequence( run_until( retry 2 (sequence(goto, spin))), land )*)
(*   "insist"  retry 2 (retry 2 (hop))                                     *)
(*   "broken"  a retry with no attempts                                    *)
(***************************************************************************)
EXTENDS Mission

MCRoot ==
    [p \in Plans |-> CASE p = "search" -> "all" [] p = "insist" -> "outer"
                       [] p = "broken" -> "never"]
MCKind == [n \in Nodes |->
    IF n \in {"all", "leg"} THEN "sequence"
    ELSE IF n \in {"again", "outer", "inner", "never"} THEN "retry"
    ELSE IF n = "until" THEN "run_until" ELSE "task"]
MCKids == [n \in Nodes |->
    CASE n = "all" -> <<"until", "land">>
      [] n = "until" -> <<"again">>
      [] n = "again" -> <<"leg">>
      [] n = "leg" -> <<"goto", "spin">>
      [] n = "outer" -> <<"inner">>
      [] n = "inner" -> <<"hop">>
      [] n = "never" -> <<"nothing">>
      [] OTHER -> <<>>]
MCLimit == [n \in Nodes |-> IF n = "never" THEN 0 ELSE 2]
=============================================================================
