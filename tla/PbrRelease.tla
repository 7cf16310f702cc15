----------------------------- MODULE PbrRelease -----------------------------
(***************************************************************************)
(* A project that takes its version from git, as pbr does for it           *)
(* (pbr/packaging.py, pbr/git.py): its history of commits and tags, and    *)
(* what version, change log and list of authors pbr makes of them.         *)
(*                                                                         *)
(* The history is what "git log" shows, oldest commit first.  A commit     *)
(* carries the Sem-Ver symbols of its message and the version named in its *)
(* setup.cfg, if any.  What setup.py makes of it is in PbrSetup.           *)
(***************************************************************************)
EXTENDS SemVer, FiniteSets

CONSTANTS
    Commit,         \* bound: the commits there may be
    TagVersions,    \* bound: what maintainers may tag
    NoVersion,
    Committer, Bot, \* who commits; Bot is the gate, which merges
    MaxCommits

Release == {v \in Canonical : v.dev = 0}

ASSUME ReleaseAssumption ==
    /\ TagVersions \subseteq Release
    /\ Commit \subseteq [symbols : SUBSET STRING, by : {Committer, Bot},
                        version : Release \cup {NoVersion}]
    /\ NoVersion \notin Version /\ Bot # Committer
    /\ MaxCommits \in 0..maxsize - 1

VARIABLES
    commits,    \* the history
    tags        \* the tags in the order they were made

historyVars == <<commits, tags>>

None == NoVersion
Error == [Final(0, 0, 0) EXCEPT !.pretype = "ValueError"]

Tag == [at : 1..MaxCommits, version : TagVersions, annotated : BOOLEAN]

(***************************************************************************)
(* git.py                                                                  *)
(***************************************************************************)
(* iter_log_inner: the version tags of commit i.                           *)
TagsOf(i) == {k \in 1..Len(tags) : tags[k].at = i}
TagsAt(i) == {tags[k].version : k \in TagsOf(i)}

Newest(I) == CHOOSE i \in I : \A j \in I : j <= i
Tagged(n) == {i \in 1..n : TagsOf(i) # {}}

(* git describe knows annotated tags only, and of several on one commit    *)
(* takes the newest.                                                       *)
Annotated(i) == {k \in TagsOf(i) : tags[k].annotated}

get_is_release(n) == n > 0 /\ Annotated(n) # {}

HeadingOfOlder(i, n) ==
    LET before == Tagged(n) \cap 1..i
    IN  IF before = {} THEN NoVersion ELSE Highest(TagsAt(Newest(before)))

(* iter_changelog: the newest commits come under no heading, the others    *)
(* under the highest tag of the first tagged commit at or after them; the  *)
(* merges are left out.                                                    *)
HeadingOf(i, n) ==
    LET after == Tagged(n) \cap i..n
    IN  IF after = {} THEN NoVersion
        ELSE Highest(TagsAt(CHOOSE j \in after : \A k \in after : j <= k))

iter_changelog(n) ==
    LET log == [i \in 1..n |-> [commit |-> n + 1 - i,
                               heading |-> HeadingOf(n + 1 - i, n)]]
    IN  Keep(log, {e \in In(log) : commits[e.commit].by # Bot})

(* generate_authors leaves the gate's addresses out.                       *)
generate_authors(n) == {commits[i].by : i \in 1..n} \ {Bot}

(***************************************************************************)
(* The version (packaging.py).  n is the number of commits at HEAD.        *)
(***************************************************************************)
(* Symbols of commits no tag contains.                                     *)
SymbolsSince(last, n) == UNION {commits[i].symbols : i \in last + 1..n}

get_increment_kwargsHead(last, n) ==
    [minor |-> {"feature", "deprecation"} \cap commits[n].symbols # {},
     major |-> "api-break" \in commits[n].symbols]

get_increment_kwargs(last, n) ==
    LET symbols == SymbolsSince(last, n)
    IN  [minor |-> {"feature", "deprecation"} \cap symbols # {},
         major |-> "api-break" \in symbols]

(* The highest tag of the last tagged commit and how many commits ago that *)
(* was.  Without a tag the rows of the log are counted from zero.          *)
get_revno_and_last_tag(n) ==
    IF Tagged(n) = {}
    THEN [last |-> 0, tag |-> Final(0, 0, 0),
          distance |-> IF n = 0 THEN 0 ELSE n - 1]
    ELSE LET last == Newest(Tagged(n))
         IN  [last |-> last, tag |-> Highest(TagsAt(last)),
              distance |-> n - last]

get_version_from_git_targetUnchecked(n, target) ==
    LET r == get_revno_and_last_tag(n)
        inc == get_increment_kwargs(r.last, n)
        new == IF r.distance = 0 THEN r.tag
               ELSE increment(r.tag, inc.minor, inc.major)
        new_dev == to_dev(new, r.distance)
    IN  IF r.distance = 0 THEN r.tag
        ELSE IF target # NoVersion
        THEN to_dev(target, r.distance)
        ELSE new_dev

(* A target is a limit to what the history may require, and if it allows   *)
(* for more it is what the dev versions lead up to.                        *)
get_version_from_git_target(n, target) ==
    LET r == get_revno_and_last_tag(n)
        inc == get_increment_kwargs(r.last, n)
        new == IF r.distance = 0 THEN r.tag
               ELSE increment(r.tag, inc.minor, inc.major)
        new_dev == to_dev(new, r.distance)
    IN  IF target # NoVersion /\ Less(target, new) THEN Error
        ELSE IF r.distance = 0 THEN r.tag
        ELSE IF target # NoVersion /\ Less(new_dev, to_dev(target, r.distance))
        THEN to_dev(target, r.distance)
        ELSE new_dev

(* An annotated tag at HEAD is the target; otherwise setup.cfg may name    *)
(* one.                                                                    *)
get_version_from_git(n, pre_version) ==
    get_version_from_git_target(n,
      IF n > 0 /\ Annotated(n) # {} THEN tags[Newest(Annotated(n))].version
      ELSE pre_version)

HEAD == Len(commits)
PreVersion(n) == IF n = 0 THEN NoVersion ELSE commits[n].version
VersionAt(n) == get_version_from_git(n, PreVersion(n))

(***************************************************************************)
(* The maintainers.  They tag nothing lower than what is built from the    *)
(* commit already, and name no version in setup.cfg that is lower than the *)
(* one before, unless that has been released.                              *)
(***************************************************************************)
Init == commits = <<>> /\ tags = <<>>

MayName(v) ==
    LET before == PreVersion(HEAD)
    IN  before \notin {NoVersion, v}
          => \/ v # NoVersion /\ Less(before, v)
             \/ \E k \in 1..Len(tags) : AtMost(before, tags[k].version)

MakeCommit(c) ==
    /\ HEAD < MaxCommits
    /\ MayName(c.version)
    /\ commits' = Append(commits, c)
    /\ UNCHANGED tags

MakeTag(v, annotated) ==
    /\ HEAD > 0
    /\ Less(get_version_from_git_target(HEAD, NoVersion), v)
    /\ VersionAt(HEAD) # Error => Less(VersionAt(HEAD), v)
    /\ tags' = Append(tags, [at |-> HEAD, version |-> v, annotated |-> annotated])
    /\ UNCHANGED commits

Maintain ==
    \/ \E c \in Commit : MakeCommit(c)
    \/ \E v \in TagVersions, a \in BOOLEAN : MakeTag(v, a)

HistorySpec == Init /\ [][Maintain]_historyVars

(***************************************************************************)
(* Properties                                                              *)
(***************************************************************************)
(* Every version built is a version; a history that contradicts its        *)
(* setup.cfg has none (_get_version_from_git_target raises ValueError).    *)
TypeOK ==
    /\ commits \in Seq(Commit) /\ HEAD <= MaxCommits
    /\ tags \in Seq(Tag)
    /\ \A n \in 0..HEAD : VersionAt(n) \in Canonical \cup {Error}

(* What is built from a later commit replaces what was built from an       *)
(* earlier one, whatever was tagged or named in setup.cfg in between, as   *)
(* long as setup.cfg names no prerelease: the dev versions of a release    *)
(* come before those of its prereleases                                    *)
(* (_get_version_from_git_target, _get_increment_kwargs).                  *)
NamesFinal ==
    \A i \in 1..HEAD :
      commits[i].version # NoVersion => commits[i].version.pretype = "none"

VersionsGrow ==
    NamesFinal =>
      \A i, j \in 1..HEAD :
        i < j /\ Error \notin {VersionAt(i), VersionAt(j)}
          => Less(VersionAt(i), VersionAt(j))

(* A version built between releases lies strictly between the last tag and *)
(* the version setup.cfg announces.  The first commit of all is exempt: it *)
(* is built as 0.0.0 (_get_version_from_git_target).                       *)
Between(n) ==
    LET r == get_revno_and_last_tag(n)
    IN  r.distance > 0 /\ VersionAt(n) # Error
          => /\ Less(r.tag, VersionAt(n))
             /\ PreVersion(n) # NoVersion => Less(VersionAt(n), PreVersion(n))

BetweenReleases == \A n \in 1..HEAD : Between(n)

(* Whoever reads the string of a version built gets that version back      *)
(* (from_pip_string of release_string), so that a source distribution can  *)
(* be tagged, compared and built again.                                    *)
ReadsBack ==
    \A n \in 0..HEAD :
      VersionAt(n) # Error => from_pip_string(release_string(VersionAt(n))) = VersionAt(n)

(* apt and rpm upgrade from release to release in the order pbr puts them, *)
(* prereleases included, and so do programs that compare version_info      *)
(* tuples (debian_string, rpm_string and its decrement, version_tuple).    *)
(* For rpm no minor or patch number may go beyond decrement's 9999.        *)
Fits(v) == v.minor <= 9999 /\ v.patch <= 9999

PackagesOrdered ==
    \A k, l \in 1..Len(tags) :
      LET v == tags[k].version  w == tags[l].version
      IN  Less(v, w) =>
            /\ LexLess(debian_string(v), debian_string(w))
            /\ Fits(v) /\ Fits(w) => LexLess(rpm_string(v), rpm_string(w))
            /\ LexLess(version_tuple(v), version_tuple(w))

(* Versions mean the same to everybody who reads them.                     *)
StringsFaithful == ReadsBack /\ PackagesOrdered

(* pbr.json calls a commit a release only if it is built as one of its     *)
(* tags (get_is_release asks git describe, the version git log).           *)
ReleasesMarked ==
    \A n \in 1..HEAD : get_is_release(n) => VersionAt(n) \in TagsAt(n) \cup {Error}

(* The change log agrees with the version: the entries under no heading,   *)
(* and the merges it leaves out, are the commits the dev version counts,   *)
(* and the headings go down from the newest (_iter_changelog,              *)
(* _get_revno_and_last_tag, which find the last tag independently).        *)
Unreleased(log) == {i \in 1..Len(log) : log[i].heading = NoVersion}

ChangelogMatchesVersion ==
    LET log == iter_changelog(HEAD)
        r == get_revno_and_last_tag(HEAD)
    IN  Tagged(HEAD) # {} =>
          /\ r.distance = Cardinality(Unreleased(log))
                + Cardinality({i \in r.last + 1..HEAD : commits[i].by = Bot})
          /\ \A i, j \in (1..Len(log)) \ Unreleased(log) :
               i < j => AtMost(log[j].heading, log[i].heading)

(* Version, release flag and change log tell one story, though each comes  *)
(* from a git command of its own.                                          *)
HistoryTold == ReleasesMarked /\ ChangelogMatchesVersion
=============================================================================
