------------------------------- MODULE MCCatalog -------------------------------
(* Two tenants with two channels and an idea, for model checking. *)
EXTENDS Catalog, TLC

CONSTANTS t1, t2, c1, c2, i1

TwoTenants == {t1, t2}
TwoChannels == {c1, c2}
OneIdea == {i1}
TwoStatuses == {"idea", "archived"}
Symmetric == Permutations({t1, t2}) \cup Permutations({c1, c2})
AllOps == ChannelOps \cup IdeaOps \cup {"createChannel", "listChannels"}
=============================================================================
