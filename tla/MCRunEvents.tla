---------------------------- MODULE MCRunEvents -----------------------------
(***************************************************************************)
(* RunEvents for TLC: a run with one post, one cancel and one client.      *)
(***************************************************************************)
EXTENDS RunRetention, TLC

CONSTANTS p1, c1, s1

MCPosts == {p1}
MCCancels == {c1}
MCStreams == {s1}
\* Output and requests differ in that only a request may follow an abort.
MCAgentKinds == {"approval.request"}
\* A post may name any kind, one that ends a run included.
MCClientKinds == {"client.event", "run.completed"}
MCNobody == {}
=============================================================================
