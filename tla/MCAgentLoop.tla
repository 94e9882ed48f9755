---- MODULE MCAgentLoop ----
(* Calls for TLC: a web search, a listing, an automatic write and a gated one. *)
EXTENDS AgentLoop
CONSTANTS search, list, write, gated
MCReads == {search, list}
MCWrites == {write}
MCAsking == {gated}
MCSearches == {search}
MCListings == {list}
MCNone == {}
\* Drafts that match at most two patterns, or one when a reason not to answer
\* is given: the rails look at one pattern each.
MCDrafts == {d \in [reason : Reasons \cup {"answers"}, marks : SUBSET Marks] :
               Cardinality(d.marks) <= IF d.reason = "answers" THEN 2 ELSE 1}
====
