---------------------------- MODULE MCPbrRelease ----------------------------
(* A history of three commits with a release candidate, a release, an alpha *)
(* and an announced version or its prerelease.                             *)
EXTENDS PbrRelease

MCCommit == [symbols : {{}, {"bugfix", "feature"}, {"api-break"}}, by : {Committer, Bot},
             version : {NoVersion, Final(2, 0, 0),
                         [Final(2, 0, 0) EXCEPT !.pretype = "rc", !.pre = 1]}]
MCTagVersions == {[Final(1, 0, 0) EXCEPT !.pretype = "rc", !.pre = 1],
                  Final(1, 0, 1), [Final(2, 0, 0) EXCEPT !.pretype = "a", !.pre = 1]}
=============================================================================
