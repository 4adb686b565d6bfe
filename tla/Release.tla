------------------------------- MODULE Release -------------------------------
(***************************************************************************)
(* The check for a newer version of the plugin: the scheduler goroutine    *)
(* that asks GitHub (release.CheckForUpdate), the cache it fills, and GET  *)
(* /version, which reads it.  A -dev build reads the tags page by page,    *)
(* while tags are pushed; a release build asks for the latest release.     *)
(***************************************************************************)
EXTENDS Integers, Sequences, SequencesExt

CONSTANTS
    Runnable,     \* versions this process may be a build of
    Taggable,     \* versions that may be tagged, or promoted to a release
    Malformed,    \* a tag parseVersion rejects
    None,         \* nothing cached, no best version yet, no release
    PerPage,      \* perPage
    MaxTagPages,  \* maxTagPages
    MaxTags       \* bound: tags ever pushed

Semver == [major : Nat, minor : Nat, patch : Nat, dev : BOOLEAN]

ASSUME ReleaseAssumption ==
    /\ Runnable \subseteq Semver /\ Taggable \subseteq Semver
    /\ Malformed \notin Semver /\ None \notin Semver
    /\ PerPage \in Nat \ {0} /\ MaxTagPages \in Nat \ {0} /\ MaxTags \in Nat

VARIABLES
    running,  \* the version of this process
    tags,     \* external: the repository's tags, in the order the API lists them
    latest,   \* external: the repository's latest release
    page,     \* checkDevTags: the page to ask for next, 0 if no check is going on
    best,     \* checkDevTags: the highest dev version so far
    known,    \* history: the dev versions tagged when the check began
    stalled,  \* the request under way is never answered: http.DefaultClient has no
              \* timeout and the scheduler's context no deadline
    cache     \* release.Cache

vars == <<running, tags, latest, page, best, known, stalled, cache>>

cmpInt(a, b) == IF a < b THEN -1 ELSE IF a > b THEN 1 ELSE 0

compareVersions(a, b) ==
    IF a.major # b.major THEN cmpInt(a.major, b.major)
    ELSE IF a.minor # b.minor THEN cmpInt(a.minor, b.minor)
    ELSE IF a.patch # b.patch THEN cmpInt(a.patch, b.patch)
    ELSE IF a.dev # b.dev THEN (IF a.dev THEN -1 ELSE 1) ELSE 0

\* wrong: the same version counts as newer
IsNewerOrSame(current, version) == compareVersions(version, current) >= 0

IsNewer(current, version) == compareVersions(version, current) > 0

DevVersions(s) == {s[i] : i \in {j \in DOMAIN s : s[j] # Malformed /\ s[j].dev}}

\* v is the highest of the versions S, None if there are none
IsHighest(v, S) == IF S = {} THEN v = None
                   ELSE v \in S /\ \A w \in S : compareVersions(v, w) >= 0

\* wrong: every page starts anew
IsBestOfPage(b, old, tagged) == IsHighest(b, DevVersions(tagged))

\* what the loop over the tags of one page makes of the best version so far: a
\* dev tag that is higher takes its place
IsBest(b, old, tagged) == IsHighest(b, DevVersions(tagged) \cup ({old} \ {None}))

\* the page the tags API returns; past the end it is empty
Page(p) == SubSeq(tags, (p - 1) * PerPage + 1,
                  IF p * PerPage < Len(tags) THEN p * PerPage ELSE Len(tags))

-----------------------------------------------------------------------------
(* GitHub *)

\* a new tag is pushed; it may come anywhere in the list
Push(t, i) ==
    /\ Len(tags) < MaxTags
    /\ t # Malformed => ~Contains(tags, t)
    /\ tags' = InsertAt(tags, i, t)
    /\ UNCHANGED <<running, latest, page, best, known, stalled, cache>>

\* a version is promoted; "latest" goes by date, so it may be a lower one
Promote(v) ==
    /\ latest' = v
    /\ UNCHANGED <<running, tags, page, best, known, stalled, cache>>

-----------------------------------------------------------------------------
(* checkVersion, at start and on every tick *)

CheckLatestRelease ==
    /\ ~running.dev /\ ~stalled
    /\ latest # None
    /\ cache' = latest
    /\ UNCHANGED <<running, tags, latest, page, best, known, stalled>>

CheckDevTags ==
    /\ running.dev
    /\ page = 0
    /\ page' = 1
    /\ known' = DevVersions(tags)
    /\ UNCHANGED <<running, tags, latest, best, stalled, cache>>

\* the end of the loop over the pages: what was found goes to the cache, once
\* commitSubject has come back, with or without a message
EndOfTags(b) ==
    /\ page' = 0
    /\ best' = None
    /\ known' = {}
    /\ cache' = IF b = None THEN cache ELSE b
    /\ UNCHANGED <<running, tags, latest, stalled>>

\* wrong: the last page's tags are not looked at
ReadPageSkipsLast ==
    /\ page > 0 /\ ~stalled
    /\ IF Len(Page(page)) < PerPage \/ page = MaxTagPages
       THEN EndOfTags(best)
       ELSE /\ page' = page + 1
            /\ best' \in DevVersions(Page(page)) \cup {best} /\ IsBest(best', best, Page(page))
            /\ UNCHANGED <<running, tags, latest, known, stalled, cache>>

\* one page is read; a short page is the last one
ReadPage ==
    /\ page > 0 /\ ~stalled
    /\ \E b \in DevVersions(Page(page)) \cup {best} :
       /\ IsBest(b, best, Page(page))
       /\ IF Len(Page(page)) < PerPage \/ page = MaxTagPages
          THEN EndOfTags(b)
          ELSE /\ page' = page + 1
               /\ best' = b
               /\ UNCHANGED <<running, tags, latest, known, stalled, cache>>

\* a request fails: the check ends, the cache keeps what it has
CheckFails ==
    /\ page > 0 /\ ~stalled
    /\ page' = 0 /\ best' = None /\ known' = {}
    /\ UNCHANGED <<running, tags, latest, stalled, cache>>

\* a request, for a page, for the message of the commit found or for the latest
\* release, is never answered: the one goroutine that checks waits from now on
Stall ==
    /\ page > 0 \/ ~running.dev
    /\ ~stalled
    /\ stalled' = TRUE
    /\ UNCHANGED <<running, tags, latest, page, best, known, cache>>

\* the process is restarted as another build: the cache is in memory only
Redeploy(v) ==
    /\ running' = v
    /\ page' = 0 /\ best' = None /\ known' = {} /\ stalled' = FALSE /\ cache' = None
    /\ UNCHANGED <<tags, latest>>

Init ==
    /\ running \in Runnable
    /\ tags = <<>> /\ latest = None
    /\ page = 0 /\ best = None /\ known = {} /\ stalled = FALSE /\ cache = None

Check == CheckLatestRelease \/ CheckDevTags \/ ReadPage \/ CheckFails

Next ==
    \/ \E t \in Taggable \cup {Malformed}, i \in 1..(Len(tags) + 1) : Push(t, i)
    \/ \E v \in Taggable : ~v.dev /\ Promote(v)
    \/ Check \/ Stall
    \/ \E v \in Runnable : Redeploy(v)

Spec == Init /\ [][Next]_vars

\* GetVersion: the upgrade reported, None if none is
Upgrade == IF cache # None /\ IsNewer(running, cache) THEN cache ELSE None

-----------------------------------------------------------------------------
(* Properties *)

\* A check that ends with a result has found the highest dev version that was
\* tagged when it began, or a higher one pushed since: although the pages shift
\* under it, no tag slips between two of them.  Beyond PerPage * MaxTagPages
\* tags it may (release.go checkDevTags).
NoTagMissed ==
    [][ReadPage /\ page' = 0 /\ cache' # None /\ Len(tags) <= PerPage * MaxTagPages
       => \A v \in known : compareVersions(cache', v) >= 0]_vars

\* What GET /version offers a build is newer than it, by the numbers first and
\* with a release after its dev builds, and of the build's own channel: a
\* release build never hears of a dev tag, even right after a redeploy of the
\* other channel, and a lower "latest" release is no upgrade
\* (version.go GetVersion, release.go CheckForUpdate, IsNewer).
OffersAreUpgrades ==
    Upgrade # None =>
        /\ Upgrade.dev = running.dev
        /\ LET Key(v) == <<v.major, v.minor, v.patch, IF v.dev THEN 0 ELSE 1>>
           IN \E i \in 1..4 : /\ Key(Upgrade)[i] > Key(running)[i]
                              /\ \A j \in 1..(i - 1) : Key(Upgrade)[j] = Key(running)[j]

\* Within the page limit the dev version a build knows of never gets older: a
\* later check does not lose what an earlier one found (release.go
\* checkDevTags, scheduler.go checkVersion).
KnowledgeGrows ==
    [][running.dev /\ cache # None /\ cache' # None /\ Len(tags) <= PerPage * MaxTagPages
       => compareVersions(cache', cache) >= 0]_vars

\* The ticker ticks, and a request to GitHub that is answered does not fail every
\* time.  Nothing is assumed of one that is not answered.
Fairness == WF_vars(Check) /\ \A p \in 1..MaxTagPages : SF_vars(page = p /\ ReadPage)

FairSpec == Spec /\ Fairness

\* A dev build is told, sooner or later, of every higher dev version that is
\* tagged, unless it is redeployed, the tags outgrow the pages that are read, or a
\* request stalls, from which only a restart recovers (scheduler.go
\* runVersionCheck, version.go, release.go checkDevTags).
UpgradeOffered ==
    \A r \in {x \in Runnable : x.dev} : \A v \in {x \in Taggable : x.dev /\ IsNewer(r, x)} :
        (running = r /\ v \in DevVersions(tags))
        ~> (\/ running # r \/ Len(tags) > PerPage * MaxTagPages \/ stalled
            \/ (Upgrade # None /\ compareVersions(Upgrade, v) >= 0))

=============================================================================
