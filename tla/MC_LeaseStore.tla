---------------------------- MODULE MC_LeaseStore ----------------------------
(* Three jobs: two writers of overlapping paths, one of which also needs the *)
(* git refs, and a reader of the whole repository content.                   *)
EXTENDS LeaseProperties

CONSTANTS writer, integrator, reader, o1

MCJobs == {writer, integrator, reader}
MCPair == {writer, integrator}

Src == Key("path", <<"src">>)
SrcA == Key("path", <<"src", "a">>)
Refs == Key("git-refs", <<"r">>)
Everything == Key("repo-content", <<>>)

MCClaims ==
    [j \in MCJobs |-> CASE j = writer -> {Claim(Src, "write")}
                        [] j = integrator -> {Claim(SrcA, "write"), Claim(Refs, "exclusive")}
                        [] j = reader -> {Claim(Everything, "read"), Claim(Src, "read")}]
MCKeys == {Src, SrcA, Refs, Everything}
=============================================================================
