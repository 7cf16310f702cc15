----------------------------- MODULE MCPbrSetup -----------------------------
(* Three projects: Full uses everything pbr offers, Odd has an egg install, *)
(* skips what can be skipped and has a script that cannot be generated,    *)
(* Broken has markers that do not parse and an extra file that is missing. *)
EXTENDS PbrSetup

Req(p, m) == [pkg |-> p, marker |-> m]
Page(n, s) == [page |-> n, section |-> s]

Full == [packages_root |-> TRUE, hooks |-> 2, requires_dist |-> <<Req("own", "")>>,
         commands |-> <<Class("OwnSDist", "sdist"), Class("OwnLint", "lint")>>,
         tests |-> "TestrTest", use_egg |-> FALSE, skip |-> {},
         manpages |-> <<Page("tool", "1"), Page("conf", "5"), Page("tool2", "1")>>,
         data_files |-> <<Line(<<"etc">>, <<"a">>), Line(<<>>, <<"b">>),
                          [target |-> <<"share">>, files |-> <<>>, glob |-> "doc"],
                          Line(<<"etc">>, <<"c">>)>>,
         dirs |-> [doc |-> <<[sub |-> <<>>, files |-> <<"top">>],
                             [sub |-> <<"sub">>, files |-> <<"deep", "deeper">>]>>],
         extras |-> [plot |-> <<Req("mpl", "py2"), Req("tk", "py3")>>],
         extensions |-> <<[label |-> "fast", fields |-> {"sources"}],
                          [label |-> "empty", fields |-> {}]>>,
         description |-> TRUE, compilers |-> <<"cc">>, extra_files |-> {"extra"},
         reno |-> TRUE, scripts |-> <<1, 2>>]

Odd == [Full EXCEPT !.packages_root = FALSE, !.hooks = 0, !.commands = <<>>,
                    !.tests = "none", !.use_egg = TRUE, !.manpages = <<>>,
                    !.skip = {"changelog", "authors", "git_sdist"},
                    !.extras = <<>>, !.extra_files = {}, !.scripts = <<1, 3>>]

Broken == [Full EXCEPT !.hooks = 0, !.requires_dist = <<Req("own", "py4k")>>,
                       !.compilers = <<"cc", "missing">>, !.extra_files = {"gone"}]

MCProject == [full |-> Full, odd |-> Odd, broken |-> Broken]
MCReqFile ==
    [requirements |-> <<[kind |-> "comment"],
                        [kind |-> "plain", pkg |-> "six", marker |-> ""],
                        [kind |-> "nested", file |-> "base"],
                        [kind |-> "nested", file |-> "gone"],
                        [kind |-> "url", pkg |-> "fork", marker |-> ""]>>,
     base |-> <<[kind |-> "plain", pkg |-> "enum", marker |-> "py2"],
                [kind |-> "nested", file |-> "old"],
                [kind |-> "nested", file |-> "more"],
                [kind |-> "egg", pkg |-> "dev", marker |-> ""]>>,
     more |-> <<[kind |-> "index"], [kind |-> "plain", pkg |-> "wheel", marker |-> "py3"]>>,
     old |-> <<[kind |-> "plain", pkg |-> "ordereddict", marker |-> ""]>>,
     tests |-> <<[kind |-> "plain", pkg |-> "mock", marker |-> "py2"],
                 [kind |-> "find"]>>]
MCRequirements == <<"old", "requirements">>
MCTestRequirements == <<"tests">>
MCCommit == {[symbols |-> {}, by |-> Committer, version |-> NoVersion],
             [symbols |-> {}, by |-> Bot, version |-> Final(1, 0, 0)]}
MCTagVersions == {Final(1, 0, 0)}
MCEnvVersions == {NoVersion, [Final(7, 0, 0) EXCEPT !.pretype = "b", !.pre = 2]}
=============================================================================
