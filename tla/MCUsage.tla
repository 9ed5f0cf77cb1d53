------------------------------ MODULE MCUsage ------------------------------
(* Small limits for TLC in the proportions of plan_limit_service.py: "pro" *)
(* above "starter", "agency" without any; an organisation can also hold a  *)
(* code that no plan has.                                                  *)
EXTENDS Usage, TLC

ProjectsAlike == Permutations(Projects)

MCCodes == {"starter", "pro", "agency", "unknown"}
MCLimit == [code \in {"starter", "pro", "agency"} |->
              CASE code = "starter" -> 1 [] code = "pro" -> 2 [] OTHER -> NoLimit]
=============================================================================
