---------------------- MODULE MCLaunchAuthorization -----------------------
(* Small instances of LaunchAuthorization. *)
EXTENDS LaunchAuthorization

CONSTANTS t1, t2, p1, p2, c1, c2

MCTokens  == {t1, t2}
MCPosts   == {p1, p2}
MCCommits == {c1, c2}
=============================================================================
