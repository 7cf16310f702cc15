------------------------------ MODULE PbrSetup ------------------------------
(***************************************************************************)
(* One "setup.py command" after another in a project that uses pbr         *)
(* (pbr/core.py, pbr/util.py, pbr/hooks), while the project's history goes *)
(* on between them as PbrRelease has it.                                   *)
(*                                                                         *)
(* setup.py reads setup.cfg, lets the hooks of the project and those of    *)
(* pbr change what it read, turns the outcome into the arguments of        *)
(* setuptools and applies them; then the command runs.  Lines of text are  *)
(* records of what pbr tells apart in them.                                *)
(***************************************************************************)
EXTENDS PbrRelease, SequencesExt

CONSTANTS
    Project,        \* bound: the projects: name -> setup.cfg
    ReqFile,        \* the requirement files there are: name -> lines
    Requirements, TestRequirements,
                    \* the names tried for them, in this order
    PY_REQUIREMENTS_FILES,
                    \* names of files that are ignored since pbr 5.0
    MaxNesting,     \* the recursion limit of the interpreter
    TrueMarkers, BadMarkers,
                    \* environment markers that hold here; that do not parse
    EnvVersions     \* bound: what PBR_VERSION may be, with NoVersion

(* commands of setup.cfg: a list of classes, each with the command it is;  *)
(* hooks: how many of its own; compilers: their names.                     *)
ASSUME ProjectAssumption ==
    \A p \in DOMAIN Project :
      /\ Project[p].commands \in Seq([class : STRING, command : STRING])
      /\ Project[p].hooks \in Nat
      /\ Project[p].compilers \in Seq(STRING)

(* PBR_VERSION is a version as pbr writes it.                              *)
ASSUME EnvAssumption == EnvVersions \subseteq Canonical \cup {NoVersion}

(* A requirement, and a line of a requirement file.                        *)
Requirement == [pkg : STRING, marker : STRING]
ReqLine == [kind : {"comment", "index", "find"}]
             \cup [kind : {"plain", "egg", "url"}, pkg : STRING, marker : STRING]
             \cup [kind : {"nested"}, file : STRING]

ASSUME RequirementAssumption ==
    /\ MaxNesting \in Nat
    /\ \A f \in DOMAIN ReqFile : ReqFile[f] \in Seq(ReqLine)
    /\ Requirements \in Seq(STRING) /\ TestRequirements \in Seq(STRING)
    /\ \A p \in DOMAIN Project :
         /\ Project[p].requires_dist \in Seq(Requirement)
         /\ \A g \in DOMAIN Project[p].extras : Project[p].extras[g] \in Seq(Requirement)

(* dirs: the directories below a directory that data_files may name with   *)
(* "*", itself among them, and the files of each.                          *)
ASSUME FileAssumption ==
    \A p \in DOMAIN Project :
      /\ Project[p].data_files \in
           Seq([target : Seq(STRING), files : Seq(STRING), glob : STRING])
      /\ \A i \in 1..Len(Project[p].data_files) :
           LET l == Project[p].data_files[i]
           IN  l.glob # "" => l.glob \in DOMAIN Project[p].dirs /\ l.files = <<>>
      /\ \A g \in DOMAIN Project[p].dirs :
           Project[p].dirs[g] \in Seq([sub : Seq(STRING), files : Seq(STRING)])
      /\ Project[p].manpages \in Seq([page : STRING, section : STRING])

VARIABLES
    tarball,    \* the last source distribution, or None
    installed,  \* the version string of the installed package, or None
    stage,      \* how far setup.py has come
    run,        \* project, command, tree and PBR_VERSION of this run
    hook,       \* which of the project's hooks is next
    path,       \* sys.path of the process
    compilers,  \* the compilers added to distutils.ccompiler.compiler_class
    config,     \* what the hooks have made of setup.cfg
    kwargs,     \* the arguments for setuptools
    result,     \* what an install or a wheel consists of
    printed     \* what rpm_version or deb_version has printed

setupVars == <<stage, run, hook, path, compilers, config, kwargs, result, printed>>
worldVars == <<historyVars, tarball, installed>>
vars == <<worldVars, setupVars>>

Command == {"sdist", "install", "bdist_wheel", "rpm_version", "deb_version"}

(***************************************************************************)
(* The tree setup.py runs in (packaging.py, git.py): a fresh clone of the  *)
(* project, or its unpacked source distribution, which may lie inside      *)
(* somebody else's repository.                                             *)
(***************************************************************************)
Tree == {"git", "sdist", "nested"}
File == {"module", "data", "AUTHORS", "ChangeLog", "extra", "notes"}

VersionString(v) == IF v = Error THEN <<>> ELSE release_string(v)

(* The environment's version goes first, then that of PKG-INFO, then that  *)
(* of git, the empty string if there is none.                              *)
get_version(tree, env, pre) ==
    IF env # NoVersion THEN VersionString(env)
    ELSE IF tree = "git" THEN VersionString(get_version_from_git(HEAD, pre))
    ELSE tarball.version

(* VersionInfo: the version of the distribution found first on sys.path,   *)
(* which in a source distribution is itself; without one that of the tree, *)
(* but not the version announced in setup.cfg.                             *)
semantic_version(tree, env) ==
    from_pip_string(IF tree # "git" THEN tarball.version
                    ELSE IF installed # None THEN installed
                    ELSE get_version(tree, env, NoVersion))

VersionMissingNever(v) == FALSE

VersionMissing(v) == v = <<>>

(* _from_git: what ChangeLog and AUTHORS say after sdist or install.  In   *)
(* somebody else's repository that is written down.                        *)
OuterLog == <<[commit |-> 0, heading |-> NoVersion]>>

from_git(tree, p) ==
    [changelog |-> CASE tree = "sdist" \/ "changelog" \in p.skip ->
                          IF tree = "git" THEN <<>> ELSE tarball.notes.changelog
                     [] tree = "git" -> iter_changelog(HEAD)
                     [] OTHER -> OuterLog,
     authors |-> CASE tree = "sdist" \/ "authors" \in p.skip ->
                        IF tree = "git" THEN {} ELSE tarball.notes.authors
                   [] tree = "git" -> generate_authors(HEAD)
                   [] OTHER -> {Bot}]

Present(tree, p) ==
    IF tree # "git" THEN tarball.files
    ELSE {"module", "data", "extra"}
           \cup (IF "changelog" \in p.skip THEN {} ELSE {"ChangeLog"})
           \cup (IF "authors" \in p.skip THEN {} ELSE {"AUTHORS"})

(* LocalManifestMaker, which writes SOURCES.txt: the modules, the files    *)
(* pbr makes, the extra files, and whatever git tracks, or instead what    *)
(* SOURCES.txt had before.                                                 *)
add_defaults(tree, p) ==
    Present(tree, p) \cap
      ({"module", "AUTHORS", "ChangeLog"} \cup p.extra_files
         \cup (IF "git_sdist" \notin p.skip
               THEN IF tree = "git" THEN {"module", "data"} ELSE {}
               ELSE IF tree = "git" THEN {} ELSE tarball.sources))

(* The SOURCES.txt that came with a source distribution is used again,     *)
(* except to make another one.  Mutant: it is never used again.            *)
find_sourcesAnew(tree, cmd, p) == add_defaults(tree, p)

find_sources(tree, cmd, p) ==
    IF tree = "git" \/ cmd = "sdist" THEN add_defaults(tree, p)
    ELSE tarball.sources

(* Release notes are made if the project has any and nobody skips them.    *)
checking_reno(tree, p) ==
    IF p.reno /\ "data" \in Present(tree, p) THEN {"notes"} ELSE {}

(***************************************************************************)
(* Requirement files (packaging.py)                                        *)
(***************************************************************************)
Overflow == [pkg |-> "RecursionError", marker |-> ""]

(* get_reqs_from_files: of the files that exist, without those that are    *)
(* ignored, the first one is read.                                         *)
Readable == DOMAIN ReqFile \ PY_REQUIREMENTS_FILES

Existing(names) == Keep(names, Readable)

FirstFile(names) == Head(Existing(names))

(* parse_requirements of one file, nested d deep: comments and index lines *)
(* say nothing, "-r" stands for the requirements of another file if that   *)
(* can be read, and of a URL the part after "egg=" is left.  Mutant: what  *)
(* "-r" brings is lost.                                                    *)
LineReqsFlat(l, inner) ==
    IF l.kind \in {"plain", "egg", "url"}
    THEN <<[pkg |-> l.pkg, marker |-> l.marker]>> ELSE <<>>

LineReqs(l, inner) ==
    CASE l.kind \in {"comment", "index", "find"} -> <<>>
      [] l.kind = "nested" -> IF l.file \in Readable THEN inner[l.file] ELSE <<>>
      [] OTHER -> <<[pkg |-> l.pkg, marker |-> l.marker]>>

FileReqs[d \in 0..MaxNesting] ==
    [f \in DOMAIN ReqFile |->
       IF d = 0 THEN <<Overflow>>
       ELSE FlattenSeq([i \in 1..Len(ReqFile[f]) |->
                          LineReqs(ReqFile[f][i], FileReqs[d - 1])])]

parse_requirements(names) ==
    IF Existing(names) = <<>> THEN <<>> ELSE FileReqs[MaxNesting][FirstFile(names)]

strip_markers(reqs) == [i \in 1..Len(reqs) |-> [reqs[i] EXCEPT !.marker = ""]]

(* parse_dependency_links: what has a URL, in the first file only.         *)
parse_dependency_links(names) ==
    IF Existing(names) = <<>> THEN <<>>
    ELSE SelectSeq(ReqFile[FirstFile(names)],
                   LAMBDA l : l.kind \in {"egg", "url", "find"})

(***************************************************************************)
(* The hooks of pbr (hooks/)                                               *)
(***************************************************************************)
Class(c, name) == [class |-> c, command |-> name]

(* CommandsConfig: what pbr adds.                                          *)
PbrCommands(p) ==
    <<Class("LocalEggInfo", "egg_info"), Class("LocalSDist", "sdist"),
      Class("LocalInstallScripts", "install_scripts"),
      Class("LocalDevelop", "develop"), Class("LocalRPMVersion", "rpm_version"),
      Class("LocalDebVersion", "deb_version")>>
      \o (IF p.tests = "none" THEN <<>> ELSE <<Class(p.tests, "test")>>)
      \o <<IF p.manpages # <<>> \/ ~p.use_egg THEN Class("LocalInstall", "install")
           ELSE Class("InstallWithGit", "install")>>

add_commands(own, p) == own \o PbrCommands(p)

(* A line of data_files: a target directory, or <<>>, then files or a      *)
(* directory below which all files are meant.                              *)
Line(t, fs) == [target |-> t, files |-> fs, glob |-> ""]

(* FilesConfig.expand_globs: a line that ends in "*" becomes a line per    *)
(* directory below and the files of each.                                  *)
Expanded(p, l) ==
    IF l.glob # "" /\ l.target # <<>>
    THEN [j \in 1..Len(p.dirs[l.glob]) |->
            Line(l.target \o p.dirs[l.glob][j].sub, p.dirs[l.glob][j].files)]
    ELSE <<l>>

expand_globs(p) ==
    FlattenSeq([i \in 1..Len(p.data_files) |-> Expanded(p, p.data_files[i])])

(* The man pages of each section go into its directory.                    *)
Sections(p) == SetToSeq({p.manpages[i].section : i \in 1..Len(p.manpages)})

PagesOf(p, section) ==
    LET here == Keep(p.manpages, {m \in Range(p.manpages) : m.section = section})
    IN  [j \in 1..Len(here) |-> here[j].page]

ManLines(p) ==
    [i \in 1..Len(Sections(p)) |->
       Line(<<"man", Sections(p)[i]>>, PagesOf(p, Sections(p)[i]))]

(***************************************************************************)
(* From setup.cfg to arguments (setup_cfg_to_setup_kwargs)                 *)
(***************************************************************************)
(* data_files: a line without "=" goes on with the target before it, and a *)
(* target named again is continued.                                        *)
Target(lines, i) ==
    lines[CHOOSE j \in 1..i : /\ lines[j].target # <<>>
                              /\ \A k \in j + 1..i : lines[k].target = <<>>].target

data_files_of(lines) ==
    [t \in {lines[i].target : i \in 1..Len(lines)} \ {<<>>} |->
       FlattenSeq([i \in 1..Len(lines) |->
                     IF Target(lines, i) = t THEN lines[i].files ELSE <<>>])]

(* cmdclass: of several classes for a command the last one stays.          *)
cmdclass_of(classes) ==
    [c \in {classes[i].command : i \in 1..Len(classes)} |->
       LET Is == {i \in 1..Len(classes) : classes[i].command = c}
       IN  classes[Newest(Is)].class]

(* The requirements of all groups, "" being those of the package itself;   *)
(* a project with extras gets one named test.                              *)
all_requirements(p, c) ==
    LET tests == parse_requirements(TestRequirements)
        named == DOMAIN p.extras
        groups == IF named = {} THEN {} ELSE named \cup {"test"}
    IN  [g \in groups \cup {""} |->
           IF g = "" THEN c.requires_dist
           ELSE IF g \in named THEN p.extras[g] ELSE tests]

(* A marker that holds here is as good as none, but a wheel may be         *)
(* installed elsewhere.                                                    *)
Key(cmd, g, m) ==
    IF m # "" /\ cmd # "bdist_wheel" /\ m \in TrueMarkers THEN <<g, "">>
    ELSE <<g, m>>

KeysOf(cmd, g, reqs) == {Key(cmd, g, reqs[i].marker) : i \in 1..Len(reqs)}

ReqKeys(cmd, all) == {<<"", "">>} \cup (UNION {KeysOf(cmd, g, all[g]) : g \in DOMAIN all})

Under(cmd, all, k) ==
    Keep(all[k[1]], {r \in Range(all[k[1]]) : Key(cmd, k[1], r.marker) = k})

extras_require(cmd, all) ==
    [k \in ReqKeys(cmd, all) |->
       [i \in 1..Len(Under(cmd, all, k)) |-> Under(cmd, all, k)[i].pkg]]

Markers(all) == UNION {{all[g][i].marker : i \in 1..Len(all[g])} : g \in DOMAIN all}

(* What makes the conversion fail: a description file or a command class   *)
(* that is not there, data files without a target, markers that do not     *)
(* parse.                                                                  *)
Malformed(p, cmd, c) ==
    \/ ~p.description
    \/ \E i \in 1..Len(c.commands) : c.commands[i].class = "missing"
    \/ c.data_files # <<>> /\ c.data_files[1].target = <<>>
    \/ cmd # "bdist_wheel" /\ Markers(all_requirements(p, c)) \cap BadMarkers # {}

(***************************************************************************)
(* A run of setup.py                                                       *)
(***************************************************************************)
Base == "site-packages"     \* sys.path when setup.py starts
NoConfig == [version |-> <<>>, requires_dist |-> <<>>, tests_require |-> <<>>,
             dependency_links |-> <<>>, commands |-> <<>>, data_files |-> <<>>]
NoRun == [project |-> None, command |-> "sdist", tree |-> "git", env |-> NoVersion]

SetupInit ==
    /\ Init /\ tarball = None /\ installed = None /\ printed = None
    /\ stage = "idle" /\ run = NoRun /\ hook = 1 /\ path = <<Base>>
    /\ compilers = {} /\ config = NoConfig /\ kwargs = None /\ result = None

(* The setup.cfg of this run.                                             *)
Cfg == Project[run.project]

(* A source distribution belongs to its project.                           *)
Start(p, cmd, tree, env) ==
    /\ stage = "idle"
    /\ tree # "git" => tarball # None /\ tarball.project = p
    /\ stage' = "config"
    /\ run' = [project |-> p, command |-> cmd, tree |-> tree, env |-> env]
    /\ hook' = 1 /\ path' = <<Base>> /\ compilers' = {}
    /\ UNCHANGED <<worldVars, printed, config, kwargs, result>>

(* cfg_to_args up to the try: the project's packages may bring hooks.      *)
ReadConfig ==
    /\ stage = "config" /\ stage' = "hooks"
    /\ path' = IF Cfg.packages_root THEN <<"packages_root">> \o path ELSE path
    /\ config' = [NoConfig EXCEPT !.requires_dist = Cfg.requires_dist,
                                  !.commands = Cfg.commands]
    /\ UNCHANGED <<worldVars, printed, run, hook, compilers, kwargs, result>>

NoConfigFile ==
    /\ stage = "config" /\ stage' = "failed"
    /\ UNCHANGED <<worldVars, printed, run, hook, path, compilers, config, kwargs, result>>

LeaveDirty(s) == stage' = s /\ path' = IF s = "failed" THEN path
                                      ELSE IF Cfg.packages_root THEN Tail(path) ELSE path

(* The finally of cfg_to_args.                                             *)
Leave(s) ==
    /\ stage' = s
    /\ path' = IF Cfg.packages_root THEN Tail(path) ELSE path

Hooking ==
    /\ stage = "hooks" /\ hook <= Cfg.hooks
    /\ UNCHANGED <<worldVars, printed, run, compilers, config, kwargs, result>>

(* A hook of the project returns, or raises SystemExit, which is logged.   *)
HookReturns == Hooking /\ hook' = hook + 1 /\ UNCHANGED <<stage, path>>

(* resolve_name does not find the hook: an error while parsing setup.cfg.  *)
HookMissing == Hooking /\ Leave("failed") /\ UNCHANGED hook

(* The hook raises an exception: the process exits.                        *)
HookRaises == Hooking /\ Leave("exited") /\ UNCHANGED hook

(* setup_hook: metadata, backwards compatibility, commands, files.         *)
PbrHooks ==
    /\ stage = "hooks" /\ hook > Cfg.hooks
    /\ LET p == Cfg
           version == get_version(run.tree, run.env, PreVersion(HEAD))
           requires == parse_requirements(Requirements)
           tests == strip_markers(parse_requirements(TestRequirements))
           failed == VersionMissing(version) \/ Overflow \in Range(requires \o tests)
       IN  /\ IF failed THEN Leave("failed") ELSE stage' = "kwargs" /\ UNCHANGED path
           /\ config' = IF failed THEN config ELSE
                [version |-> version,
                 requires_dist |-> config.requires_dist \o requires,
                 tests_require |-> tests,
                 dependency_links |-> parse_dependency_links(Requirements),
                 commands |-> add_commands(config.commands, p),
                 data_files |-> expand_globs(p) \o ManLines(p)]
    /\ UNCHANGED <<worldVars, printed, run, hook, compilers, kwargs, result>>

(* setup_cfg_to_setup_kwargs.                                              *)
Convert ==
    /\ stage = "kwargs"
    /\ LET p == Cfg
       IN  IF Malformed(p, run.command, config)
           THEN Leave("failed") /\ UNCHANGED kwargs
           ELSE /\ stage' = "extras" /\ UNCHANGED path
                /\ kwargs' = [version |-> config.version,
                              requires |-> extras_require(run.command, all_requirements(p, config)),
                              cmdclass |-> cmdclass_of(config.commands),
                              data_files |-> data_files_of(config.data_files),
                              ext_modules |-> <<>>]
    /\ UNCHANGED <<worldVars, printed, run, hook, compilers, config, result>>

(* Sections that say something about an extension module make one.         *)
get_extension_modules(p) ==
    SelectSeq(p.extensions, LAMBDA e : e.fields # {})

(* The rest of cfg_to_args: compilers are added one by one, and stay when  *)
(* one of them or an extra file is not there; core.pbr then applies the    *)
(* arguments.                                                              *)
Extras ==
    /\ stage = "extras"
    /\ LET p == Cfg
           here == {i \in 1..Len(p.compilers) : \A j \in 1..i : p.compilers[j] # "missing"}
           fails == \/ Cardinality(here) < Len(p.compilers)
                    \/ ~(p.extra_files \subseteq Present(run.tree, p))
       IN  /\ compilers' = {p.compilers[i] : i \in here}
           /\ IF fails THEN Leave("failed") /\ UNCHANGED kwargs
              ELSE /\ Leave("command")
                   /\ kwargs' = [kwargs EXCEPT !.ext_modules = get_extension_modules(p)]
    /\ UNCHANGED <<worldVars, printed, run, hook, config, result>>

(* sdist: SOURCES.txt is written by egg_info, the release notes are packed *)
(* besides what it lists.  built, commit and clone are history: the        *)
(* version that was meant, the commit that was packed and whether it was   *)
(* packed in a clone.                                                      *)
Sdist ==
    /\ stage = "command" /\ run.command = "sdist"
    /\ LET tree == run.tree  p == Cfg
           sources == find_sources(tree, "sdist", p)
       IN  tarball' =
             [version |-> kwargs.version,
              sources |-> sources,
              files |-> sources \cup checking_reno(tree, p),
              notes |-> from_git(tree, p),
              project |-> run.project,
              built |-> IF run.env # NoVersion THEN run.env
                        ELSE IF tree = "git" THEN VersionAt(HEAD) ELSE tarball.built,
              commit |-> IF tree = "git" THEN HEAD ELSE tarball.commit,
              clone |-> tree = "git"]
    /\ stage' = "done"
    /\ UNCHANGED <<historyVars, installed, printed, run, hook, path, compilers, config, kwargs, result>>

(* generate_script: an entry point is a function or a method of a class.   *)
ScriptFails(p) == \E i \in 1..Len(p.scripts) : p.scripts[i] \notin 1..2

(* install and bdist_wheel: the package's files, and for an install the    *)
(* scripts, written after the files and one by one.                        *)
Install ==
    /\ stage = "command" /\ run.command \in {"install", "bdist_wheel"}
    /\ result' = [version |-> kwargs.version, requires |-> kwargs.requires,
                  files |-> find_sources(run.tree, run.command, Cfg),
                  notes |-> IF run.command = "install" THEN from_git(run.tree, Cfg)
                            ELSE None]
    /\ stage' = IF run.command = "install" /\ ScriptFails(Cfg)
                THEN "failed" ELSE "done"
    /\ installed' = IF run.command = "install" THEN kwargs.version ELSE installed
    /\ UNCHANGED <<historyVars, tarball, printed, run, hook, path, compilers, config, kwargs>>

(* LocalRPMVersion, LocalDebVersion.                                       *)
PrintVersion ==
    /\ stage = "command" /\ run.command \in {"rpm_version", "deb_version"}
    /\ LET v == semantic_version(run.tree, run.env)
       IN  IF v = Invalid THEN stage' = "failed" /\ UNCHANGED printed
           ELSE /\ stage' = "done"
                /\ printed' = IF run.command = "rpm_version" THEN rpm_string(v)
                              ELSE debian_string(v)
    /\ UNCHANGED <<worldVars, run, hook, path, compilers, config,
                   kwargs, result>>

End ==
    /\ stage \in {"done", "failed", "exited"} /\ stage' = "idle"
    /\ run' = NoRun /\ hook' = 1 /\ path' = <<Base>> /\ compilers' = {}
    /\ config' = NoConfig /\ kwargs' = None /\ result' = None /\ printed' = None
    /\ UNCHANGED worldVars

Setup == \/ ReadConfig \/ NoConfigFile \/ HookReturns \/ HookMissing \/ HookRaises
         \/ PbrHooks \/ Convert \/ Extras \/ Sdist \/ Install \/ PrintVersion \/ End

Next ==
    \/ stage = "idle" /\ Maintain /\ UNCHANGED <<tarball, installed, setupVars>>
    \/ \E p \in DOMAIN Project, c \in Command, t \in Tree, e \in EnvVersions : Start(p, c, t, e)
    \/ Setup

Spec == SetupInit /\ [][Next]_vars

(***************************************************************************)
(* Properties                                                              *)
(***************************************************************************)
(* Every distribution has a version that can be read, and no hook is run   *)
(* twice.                                                                  *)
SetupTypeOK ==
    /\ TypeOK
    /\ stage \in {"idle", "config", "hooks", "kwargs", "extras", "command",
                  "done", "failed", "exited"}
    /\ stage # "idle" => hook \in 1..Cfg.hooks + 1
    /\ compilers \subseteq STRING /\ path \in Seq({"packages_root", Base})
    /\ tarball # None => /\ from_pip_string(tarball.version) \in Canonical
                         /\ tarball.sources \subseteq tarball.files
                         /\ tarball.files \subseteq File
    /\ result # None => result.files \subseteq File

(* A source distribution carries its version with it: however often it is  *)
(* packed again, wherever it is unpacked and whatever has been committed   *)
(* and tagged since, it is installed, and named for the package formats,   *)
(* as what was built at its commit (get_version with PKG-INFO before git,  *)
(* VersionInfo with the tree before what is installed).                    *)
VersionSurvives ==
    /\ printed # None /\ run.tree # "git" =>
         printed = IF run.command = "rpm_version" THEN rpm_string(tarball.built)
                   ELSE debian_string(tarball.built)
    /\ result # None /\ run.tree # "git" /\ run.env = NoVersion =>
      /\ from_pip_string(result.version) = tarball.built
      /\ tarball.clone /\ tarball.built \notin EnvVersions =>
           tarball.built = VersionAt(tarball.commit) \/ TagsOf(tarball.commit) # {}

(* What is installed from a source distribution that was packed in a clone *)
(* is what would have been installed in the clone: the files only git      *)
(* knows of are in, the release notes, which the clone does not install,   *)
(* are not.  If it was packed again out of a source distribution, nothing  *)
(* is lost but files only git knows of ("actually destructive",            *)
(* find_sources).                                                          *)
InstallComplete ==
    result # None /\ run.tree # "git" =>
      LET cloned == add_defaults("git", Cfg)
          lost == IF tarball.clone THEN {} ELSE {"data"}
      IN  cloned \ lost \subseteq result.files /\ result.files \subseteq cloned

(* A source distribution keeps its version, and its files up to those that *)
(* only git knows of and that are lost when it is packed again.            *)
DistributionFaithful == VersionSurvives /\ InstallComplete

(* When a command runs, or setup.py has failed, sys.path is what it was    *)
(* before the project's packages were put on it, whichever step failed     *)
(* (the finally of cfg_to_args).                                           *)
PathRestored ==
    stage \in {"command", "done", "failed", "exited"} => path = <<Base>>

(* What a list of names asks for: the requirements on the lines of the     *)
(* first file that is read, and of all the files "-r" leads to from there, *)
(* through whatever nesting.                                               *)
Closed(S) ==
    \A f \in S : \A l \in Range(ReqFile[f]) :
        l.kind = "nested" /\ l.file \in Readable => l.file \in S

Reached == [f \in Readable |->
    {g \in Readable : \A S \in SUBSET Readable : f \in S /\ Closed(S) => g \in S}]

OnLines(f) ==
    {[pkg |-> l.pkg, marker |-> l.marker] :
       l \in {l \in Range(ReqFile[f]) : l.kind \in {"plain", "egg", "url"}}}

AskedByFiles(names) ==
    UNION {UNION {OnLines(g) : g \in Reached[names[i]]} :
             i \in {i \in 1..Len(names) : /\ names[i] \in Readable
                                         /\ \A j \in 1..i - 1 : names[j] \notin Readable}}

(* What a project asks for, in a group or, "", always; a project with      *)
(* extras has a group for its tests.                                       *)
ReqGroups(p) ==
    {""} \cup (IF DOMAIN p.extras = {} THEN {} ELSE DOMAIN p.extras \cup {"test"})

AskedFor(p, g) ==
    IF g = "" THEN Range(p.requires_dist) \cup AskedByFiles(Requirements)
    ELSE IF g \in DOMAIN p.extras THEN Range(p.extras[g])
    ELSE AskedByFiles(TestRequirements)

(* Where a wheel is installed it requires what setup.cfg and the           *)
(* requirement files say for that place, and anything else what they say   *)
(* for the place setup.py ran in (parse_requirements,                      *)
(* setup_cfg_to_setup_kwargs).                                             *)
RequiredWhere(true, g) ==
    UNION {Range(kwargs.requires[k]) :
             k \in {k \in DOMAIN kwargs.requires : k[1] = g /\ k[2] \in true \cup {""}}}

RequirementsKept ==
    stage \in {"extras", "command"} =>
      \A g \in ReqGroups(Cfg) :
        LET asked == AskedFor(Cfg, g)
        IN  \A true \in IF run.command = "bdist_wheel"
                        THEN SUBSET {r.marker : r \in asked} ELSE {TrueMarkers} :
              RequiredWhere(true, g) =
                {r.pkg : r \in {r \in asked : r.marker \in true \cup {""}}}

(* A project that has commands of its own gets them, but cannot do without *)
(* pbr's sdist and egg_info (CommandsConfig, cmdclass).                    *)
PbrCommandsWin ==
    kwargs # None =>
      /\ kwargs.cmdclass["sdist"] = "LocalSDist"
      /\ kwargs.cmdclass["egg_info"] = "LocalEggInfo"
      /\ \A i \in 1..Len(Cfg.commands) :
           Cfg.commands[i].command \in DOMAIN kwargs.cmdclass

(* Every data file and man page goes to exactly one directory, and the     *)
(* files found below a directory keep their place in it (expand_globs, the *)
(* man pages, the continuation lines), if none is named twice.             *)
Below(p, l) == {<<l.target \o d.sub, d.files>> : d \in Range(p.dirs[l.glob])}

FilesBelow(p) ==
    UNION {Below(p, p.data_files[i]) :
             i \in {i \in 1..Len(p.data_files) : p.data_files[i].glob # ""}}

LineFiles(p, i) ==
    LET l == p.data_files[i]
    IN  IF l.glob = "" THEN Range(l.files)
        ELSE UNION {Range(d.files) : d \in Range(p.dirs[l.glob])}

NamedOnce(p) ==
    LET lines == p.data_files
    IN  /\ \A i, k \in 1..Len(lines) : i # k => LineFiles(p, i) \cap LineFiles(p, k) = {}
        /\ \A i \in 1..Len(lines) : \A m \in Range(p.manpages) : m.page \notin LineFiles(p, i)
        /\ \A m, n \in Range(p.manpages) : m.page = n.page => m.section = n.section
        /\ \A i \in 1..Len(lines) : lines[i].glob # "" =>
             /\ lines[i].target # <<>>
             /\ \A j, k \in 1..Len(p.dirs[lines[i].glob]) : j # k =>
                  Range(p.dirs[lines[i].glob][j].files)
                    \cap Range(p.dirs[lines[i].glob][k].files) = {}

DataFilesKept ==
    kwargs # None /\ NamedOnce(Cfg) =>
      LET p == Cfg
          named == (UNION {Range(p.data_files[i].files) : i \in 1..Len(p.data_files)})
                     \cup (UNION {Range(d[2]) : d \in FilesBelow(p)})
                     \cup {m.page : m \in Range(p.manpages)}
          At(f) == {t \in DOMAIN kwargs.data_files : f \in Range(kwargs.data_files[t])}
      IN  /\ \A f \in named : Cardinality(At(f)) = 1
          /\ \A d \in FilesBelow(p) : \A f \in Range(d[2]) : At(f) = {d[1]}

(* What setuptools is told is what the project and pbr both asked for.     *)
ArgumentsKept == RequirementsKept /\ PbrCommandsWin /\ DataFilesKept
=============================================================================
