---------------------------- MODULE ReleaseProofs ----------------------------
(***************************************************************************)
(* Proofs about Release, for every number of tags, page size and limit.    *)
(* A version the check has to find was either read already, or stands at a *)
(* place the check has still to come to: tags that are pushed meanwhile    *)
(* can only move it further back.                                          *)
(***************************************************************************)
EXTENDS Release, TLAPS

USE ReleaseAssumption DEF ReleaseAssumption

Dev == {v \in Semver : v.dev}

AtLeast(v, w) == compareVersions(v, w) >= 0

\* v stands at a page from p on.
Ahead(v, p) == \E i \in DOMAIN tags : i > (p - 1) * PerPage /\ tags[i] = v

TypesInv ==
    /\ running \in Semver
    /\ tags \in Seq(Taggable \cup {Malformed})
    /\ latest \in {v \in Semver : ~v.dev} \cup {None}
    /\ page \in 0..MaxTagPages
    /\ best \in Dev \cup {None}
    /\ known \subseteq Dev
    /\ cache \in Semver \cup {None}

\* Of what was tagged when the check began nothing is behind it.
ScanInv ==
    /\ page > 0 => running.dev
    /\ page = 0 => best = None /\ known = {}
    /\ \A v \in known : (best # None /\ AtLeast(best, v)) \/ Ahead(v, page)

\* The cache is of the build's channel, and what a dev build has in it is tagged,
\* so that the check under way has to find it.
CacheInv ==
    /\ cache # None => cache.dev = running.dev
    /\ best # None => best \in DevVersions(tags)
    /\ cache # None /\ running.dev =>
         /\ cache \in DevVersions(tags)
         /\ page > 0 => cache \in known

ReleaseInv == TypesInv /\ ScanInv /\ CacheInv

-----------------------------------------------------------------------------
(* The order of versions *)

LEMMA OrderReflexive == ASSUME NEW a \in Semver PROVE AtLeast(a, a)
BY DEF AtLeast, compareVersions, cmpInt, Semver

LEMMA OrderTransitive ==
    ASSUME NEW a \in Semver, NEW b \in Semver, NEW c \in Semver, AtLeast(a, b), AtLeast(b, c)
    PROVE  AtLeast(a, c)
BY DEF AtLeast, compareVersions, cmpInt, Semver

LEMMA OrderAntisymmetric ==
    ASSUME NEW a \in Semver, NEW b \in Semver, AtLeast(a, b), AtLeast(b, a)
    PROVE  a = b
BY DEF AtLeast, compareVersions, cmpInt, Semver

LEMMA OrderTotal ==
    ASSUME NEW a \in Semver, NEW b \in Semver
    PROVE  AtLeast(a, b) \/ AtLeast(b, a)
BY DEF AtLeast, compareVersions, cmpInt, Semver

\* IsNewer is the strict order.
LEMMA NewerIsNotAtLeast ==
    ASSUME NEW a \in Semver, NEW b \in Semver
    PROVE  IsNewer(a, b) <=> ~AtLeast(a, b)
BY DEF IsNewer, AtLeast, compareVersions, cmpInt, Semver

-----------------------------------------------------------------------------
(* Lists and pages of tags *)

\* Insertion keeps every element, at its place or one behind it.
LEMMA InsertKeeps ==
    ASSUME NEW T, NEW s \in Seq(T), NEW t \in T, NEW i \in 1..(Len(s) + 1),
           NEW r, r = InsertAt(s, i, t)
    PROVE  /\ r \in Seq(T)
           /\ \A j \in DOMAIN s : \E k \in DOMAIN r : k >= j /\ r[k] = s[j]
<1> DEFINE a == SubSeq(s, 1, i - 1)
           z == SubSeq(s, i, Len(s))
<1>1. /\ a \in Seq(T) /\ Len(a) = i - 1
      /\ \A j \in 1..(i - 1) : a[j] = s[j]
  OBVIOUS
<1>2. /\ z \in Seq(T) /\ Len(z) = Len(s) - i + 1
      /\ \A j \in i..Len(s) : z[j - i + 1] = s[j]
  OBVIOUS
<1>3. r = a \o <<t>> \o z
  BY DEF InsertAt
<1> HIDE DEF a, z
<1>4. r \in Seq(T) /\ Len(r) = Len(s) + 1
  <2> DEFINE b == a \o <<t>>
  <2>1. b \in Seq(T) /\ Len(b) = i
    BY <1>1
  <2>2. r = b \o z
    BY <1>3
  <2> HIDE DEF b
  <2> QED BY <1>2, <2>1, <2>2
<1>5. ASSUME NEW j \in 1..(i - 1) PROVE r[j] = s[j]
  BY <1>1, <1>2, <1>3
<1>6. ASSUME NEW j \in i..Len(s) PROVE r[j + 1] = s[j]
  <2>1. r[j + 1] = z[j - i + 1]
    BY <1>1, <1>2, <1>3
  <2> QED BY <1>2, <2>1
<1>7. ASSUME NEW j \in DOMAIN s PROVE \E k \in DOMAIN r : k >= j /\ r[k] = s[j]
  <2>1. CASE j < i
    BY <1>4, <1>5, <2>1
  <2>2. CASE j >= i
    <3>1. j + 1 \in DOMAIN r /\ r[j + 1] = s[j]
      BY <1>4, <1>6, <2>2
    <3> QED BY <3>1
  <2> QED BY <2>1, <2>2
<1> QED BY <1>4, <1>7

\* What page p holds: the tags of its range of places, and if it is short or the
\* list ends with it, all there are from its first place on.
LEMMA PageHolds ==
    ASSUME TypesInv, NEW p \in 1..MaxTagPages
    PROVE  /\ \A v \in DevVersions(Page(p)) : v \in DevVersions(tags)
           /\ \A i \in DOMAIN tags :
                i > (p - 1) * PerPage /\ tags[i] \in Dev
                => tags[i] \in DevVersions(Page(p)) \/ i > p * PerPage
           /\ Len(Page(p)) < PerPage => Len(tags) <= p * PerPage
<1> DEFINE lo == (p - 1) * PerPage
           hi == IF lo + PerPage < Len(tags) THEN lo + PerPage ELSE Len(tags)
<1>1. lo \in Nat /\ p * PerPage = lo + PerPage
  <2>1. p - 1 \in Nat
    OBVIOUS
  <2>2. \A n \in Nat : n * PerPage \in Nat /\ (n + 1) * PerPage = n * PerPage + PerPage
    OBVIOUS
  <2> QED BY <2>1, <2>2
<1>2. Page(p) = SubSeq(tags, lo + 1, hi)
  BY <1>1 DEF Page
<1> HIDE DEF lo
<1>3. tags \in Seq(Taggable \cup {Malformed}) /\ hi \in 0..Len(tags)
  BY <1>1 DEF TypesInv
<1> HIDE DEF hi
<1>4. /\ lo + 1 <= hi => Len(Page(p)) = hi - lo
      /\ DOMAIN Page(p) = 1..Len(Page(p))
      /\ \A j \in DOMAIN Page(p) : lo + j \in 1..hi /\ Page(p)[j] = tags[lo + j]
      /\ \A i \in (lo + 1)..hi : i - lo \in DOMAIN Page(p) /\ Page(p)[i - lo] = tags[i]
  BY <1>1, <1>2, <1>3
<1>5. ASSUME NEW v \in DevVersions(Page(p)) PROVE v \in DevVersions(tags)
  BY <1>1, <1>3, <1>4 DEF DevVersions
<1>6. ASSUME NEW i \in DOMAIN tags, i > lo, tags[i] \in Dev, ~(i > lo + PerPage)
      PROVE  tags[i] \in DevVersions(Page(p))
  <2>1. i \in (lo + 1)..hi
    BY <1>1, <1>3, <1>6 DEF hi
  <2>2. tags[i] # Malformed /\ tags[i].dev
    BY <1>6 DEF Dev
  <2> QED BY <1>4, <2>1, <2>2 DEF DevVersions
<1>7. Len(Page(p)) < PerPage => Len(tags) <= lo + PerPage
  BY <1>1, <1>3, <1>4 DEF hi
<1>8. lo = (p - 1) * PerPage
  BY DEF lo
<1> QED BY <1>1, <1>5, <1>6, <1>7, <1>8

\* A tag once listed stays listed, and never comes to stand further ahead.
LEMMA PushKeeps ==
    ASSUME TypesInv, NEW t \in Taggable \cup {Malformed}, NEW i \in 1..(Len(tags) + 1), Push(t, i)
    PROVE  /\ tags' \in Seq(Taggable \cup {Malformed})
           /\ DevVersions(tags) \subseteq DevVersions(tags')
           /\ \A j \in DOMAIN tags : \E k \in DOMAIN tags' : k >= j /\ tags'[k] = tags[j]
<1>1. /\ tags' \in Seq(Taggable \cup {Malformed})
      /\ \A j \in DOMAIN tags : \E k \in DOMAIN tags' : k >= j /\ tags'[k] = tags[j]
  <2> DEFINE T == Taggable \cup {Malformed}
  <2>1. tags \in Seq(T) /\ t \in T /\ tags' = InsertAt(tags, i, t)
    BY DEF TypesInv, Push
  <2> HIDE DEF T
  <2>2. /\ tags' \in Seq(T)
        /\ \A j \in DOMAIN tags : \E k \in DOMAIN tags' : k >= j /\ tags'[k] = tags[j]
    BY <2>1, InsertKeeps
  <2> QED BY <2>2 DEF T
<1>2. DevVersions(tags) \subseteq DevVersions(tags')
  BY <1>1 DEF DevVersions
<1> QED BY <1>1, <1>2

-----------------------------------------------------------------------------
(* Reading a page *)

LEMMA TaggedAreDev == ASSUME TypesInv PROVE DevVersions(tags) \subseteq Dev
BY DEF TypesInv, DevVersions, Dev

\* The best version after a page is none of the others' lower.
LEMMA BestHighest ==
    ASSUME TypesInv, page > 0, NEW b, IsBest(b, best, Page(page))
    PROVE  /\ b \in Dev \cup {None}
           /\ b # None => b \in DevVersions(tags) \/ b = best
           /\ best # None => b # None /\ AtLeast(b, best)
           /\ \A v \in DevVersions(Page(page)) : b # None /\ AtLeast(b, v)
<1>1. page \in 1..MaxTagPages
  BY DEF TypesInv
<1>2. DevVersions(Page(page)) \subseteq DevVersions(tags)
  BY <1>1, PageHolds
<1>3. DevVersions(Page(page)) \subseteq Dev /\ None \notin Dev
  BY <1>2, TaggedAreDev DEF Dev
<1> DEFINE S == DevVersions(Page(page)) \cup ({best} \ {None})
<1>4. IF S = {} THEN b = None ELSE b \in S /\ \A w \in S : AtLeast(b, w)
  BY DEF IsBest, IsHighest, AtLeast
<1> QED BY <1>2, <1>3, <1>4 DEF TypesInv

\* What had to be found is found on the page, was found before, or is ahead still.
LEMMA ScanAdvances ==
    ASSUME ReleaseInv, page > 0, NEW b, IsBest(b, best, Page(page)), NEW v \in known
    PROVE  (b # None /\ AtLeast(b, v)) \/ Ahead(v, page + 1)
<1>1. page \in 1..MaxTagPages /\ v \in Dev /\ TypesInv
  BY DEF ReleaseInv, TypesInv
<1>2. /\ b \in Dev \cup {None}
      /\ best # None => b # None /\ AtLeast(b, best)
      /\ \A w \in DevVersions(Page(page)) : b # None /\ AtLeast(b, w)
  BY <1>1, BestHighest
<1>3. CASE best # None /\ AtLeast(best, v)
  <2>1. best \in Semver /\ b \in Semver /\ v \in Semver
    BY <1>1, <1>2, <1>3 DEF TypesInv, Dev
  <2> QED BY <1>2, <1>3, <2>1, OrderTransitive
<1>4. CASE Ahead(v, page)
  <2>1. PICK i \in DOMAIN tags : i > (page - 1) * PerPage /\ tags[i] = v
    BY <1>4 DEF Ahead
  <2>2. v \in DevVersions(Page(page)) \/ i > page * PerPage
    BY <1>1, <2>1, PageHolds
  <2>3. page = (page + 1) - 1
    BY <1>1
  <2> QED BY <1>2, <2>1, <2>2, <2>3 DEF Ahead
<1> QED BY <1>3, <1>4 DEF ReleaseInv, ScanInv

\* On the last page that is read, if the tags fit the pages, nothing is ahead.
LEMMA NothingAhead ==
    ASSUME TypesInv, page > 0, Len(Page(page)) < PerPage \/ page = MaxTagPages,
           Len(tags) <= PerPage * MaxTagPages, NEW v
    PROVE  ~Ahead(v, page + 1)
<1>1. page \in 1..MaxTagPages
  BY DEF TypesInv
<1>2. Len(tags) <= page * PerPage
  <2>1. CASE Len(Page(page)) < PerPage
    BY <1>1, <2>1, PageHolds
  <2>2. CASE page = MaxTagPages
    BY <2>2
  <2> QED BY <2>1, <2>2
<1>3. (page + 1) - 1 = page /\ page * PerPage \in Int
  BY <1>1
<1>4. \A i \in DOMAIN tags : ~(i > page * PerPage)
  BY <1>2, <1>3 DEF TypesInv
<1> QED BY <1>3, <1>4 DEF Ahead

\* So the result of a check is not lower than anything it had to find.
LEMMA EndFindsAll ==
    ASSUME ReleaseInv, ReadPage, page' = 0, Len(tags) <= PerPage * MaxTagPages, NEW v \in known
    PROVE  cache' # None /\ AtLeast(cache', v)
<1>1. PICK b : /\ IsBest(b, best, Page(page))
               /\ IF Len(Page(page)) < PerPage \/ page = MaxTagPages
                  THEN EndOfTags(b)
                  ELSE page' = page + 1
  BY DEF ReadPage
<1>2. page > 0 /\ page \in Nat /\ TypesInv
  BY DEF ReadPage, ReleaseInv, TypesInv
<1>3. (Len(Page(page)) < PerPage \/ page = MaxTagPages) /\ EndOfTags(b)
  BY <1>1, <1>2
<1>4. b # None /\ AtLeast(b, v)
  BY <1>1, <1>2, <1>3, ScanAdvances, NothingAhead
<1> QED BY <1>3, <1>4 DEF EndOfTags

-----------------------------------------------------------------------------
(* The invariant *)

LEMMA PushInv ==
    ASSUME ReleaseInv, NEW t \in Taggable \cup {Malformed}, NEW i \in 1..(Len(tags) + 1), Push(t, i)
    PROVE  ReleaseInv'
<1>1. /\ tags' \in Seq(Taggable \cup {Malformed})
      /\ DevVersions(tags) \subseteq DevVersions(tags')
      /\ \A j \in DOMAIN tags : \E k \in DOMAIN tags' : k >= j /\ tags'[k] = tags[j]
  BY PushKeeps DEF ReleaseInv
<1>2. UNCHANGED <<running, latest, page, best, known, cache>> /\ page \in Nat
  BY DEF Push, ReleaseInv, TypesInv
<1>3. TypesInv'
  BY <1>1, <1>2 DEF ReleaseInv, TypesInv
<1>4. ASSUME NEW v, Ahead(v, page) PROVE Ahead(v, page)'
  <2>1. PICK j \in DOMAIN tags : j > (page - 1) * PerPage /\ tags[j] = v
    BY <1>4 DEF Ahead
  <2>2. PICK k \in DOMAIN tags' : k >= j /\ tags'[k] = tags[j]
    BY <1>1
  <2>3. (page - 1) * PerPage \in Int /\ j \in Int /\ k \in Int
    BY <1>1, <1>2 DEF ReleaseInv, TypesInv
  <2>4. k > (page - 1) * PerPage
    BY <2>1, <2>2, <2>3
  <2> QED BY <1>2, <2>1, <2>2, <2>4 DEF Ahead
<1>5. ScanInv'
  BY <1>2, <1>4 DEF ReleaseInv, ScanInv
<1>6. CacheInv'
  BY <1>1, <1>2 DEF ReleaseInv, CacheInv
<1> QED BY <1>3, <1>5, <1>6 DEF ReleaseInv

LEMMA ReadPageInv ==
    ASSUME ReleaseInv, ReadPage
    PROVE  ReleaseInv'
<1>1. PICK b : /\ IsBest(b, best, Page(page))
               /\ IF Len(Page(page)) < PerPage \/ page = MaxTagPages
                  THEN EndOfTags(b)
                  ELSE /\ page' = page + 1
                       /\ best' = b
                       /\ UNCHANGED <<running, tags, latest, known, cache>>
  BY DEF ReadPage
<1>2. page \in 1..MaxTagPages /\ TypesInv /\ running.dev
  BY DEF ReadPage, ReleaseInv, TypesInv, ScanInv
<1>3. /\ b \in Dev \cup {None}
      /\ b # None => b \in DevVersions(tags)
  BY <1>1, <1>2, BestHighest DEF ReleaseInv, CacheInv
<1>4. CASE EndOfTags(b)
  <2>1. TypesInv'
    BY <1>2, <1>3, <1>4 DEF TypesInv, EndOfTags, Dev
  <2>2. ScanInv'
    BY <1>4 DEF ScanInv, EndOfTags
  <2>3. cache' # None => cache'.dev /\ cache' \in DevVersions(tags)
    BY <1>2, <1>3, <1>4 DEF ReleaseInv, CacheInv, EndOfTags, Dev
  <2>4. CacheInv'
    <3>1. page' = 0 /\ best' = None /\ UNCHANGED <<running, tags>>
      BY <1>4 DEF EndOfTags
    <3>2. cache' # None => cache'.dev = running.dev
      <4>1. cache' # None => cache' \in Dev
        BY <1>2, <2>3, TaggedAreDev
      <4> QED BY <1>2, <2>3, <4>1 DEF Dev, Semver, TypesInv
    <3> QED BY <2>3, <3>1, <3>2 DEF CacheInv
  <2> QED BY <2>1, <2>2, <2>4 DEF ReleaseInv
<1>5. CASE /\ page # MaxTagPages
           /\ page' = page + 1
           /\ best' = b
           /\ UNCHANGED <<running, tags, latest, known, cache>>
  <2>1. TypesInv'
    BY <1>2, <1>3, <1>5 DEF TypesInv
  <2>2. ScanInv'
    <3>1. \A v \in known : (b # None /\ AtLeast(b, v)) \/ Ahead(v, page + 1)
      BY <1>1, <1>2, ScanAdvances
    <3>2. \A v : Ahead(v, page + 1) => Ahead(v, page)'
      BY <1>5 DEF Ahead
    <3> QED BY <1>2, <1>5, <3>1, <3>2 DEF ScanInv
  <2>3. CacheInv'
    <3>1. page > 0 /\ CacheInv
      BY <1>2 DEF ReleaseInv
    <3>2. cache # None /\ running.dev => cache \in DevVersions(tags) /\ cache \in known
      BY <3>1 DEF CacheInv
    <3>3. cache # None => cache.dev = running.dev
      BY <3>1 DEF CacheInv
    <3> QED BY <1>3, <1>5, <3>2, <3>3 DEF CacheInv
  <2> QED BY <2>1, <2>2, <2>3 DEF ReleaseInv
<1> QED BY <1>1, <1>4, <1>5

LEMMA CheckDevTagsInv ==
    ASSUME ReleaseInv, CheckDevTags
    PROVE  ReleaseInv'
<1>1. TypesInv'
  BY TaggedAreDev DEF ReleaseInv, TypesInv, CheckDevTags
<1>2. ASSUME NEW v \in DevVersions(tags) PROVE Ahead(v, page)'
  <2>1. PICK i \in DOMAIN tags : tags[i] = v
    BY DEF DevVersions
  <2>2. page' = 1 /\ tags' = tags
    BY DEF CheckDevTags
  <2>3. i > (1 - 1) * PerPage
    BY DEF ReleaseInv, TypesInv
  <2> QED BY <2>1, <2>2, <2>3 DEF Ahead
<1>3. ScanInv'
  BY <1>2 DEF ScanInv, CheckDevTags
<1>4. CacheInv'
  BY DEF ReleaseInv, CacheInv, CheckDevTags
<1> QED BY <1>1, <1>3, <1>4 DEF ReleaseInv

LEMMA OtherInv ==
    ASSUME ReleaseInv,
           \/ \E v \in Taggable : ~v.dev /\ Promote(v)
           \/ CheckLatestRelease
           \/ CheckFails \/ Stall
           \/ \E v \in Runnable : Redeploy(v)
    PROVE  ReleaseInv'
<1>1. ASSUME NEW v \in Taggable, ~v.dev, Promote(v) PROVE ReleaseInv'
  <2>1. UNCHANGED <<running, tags, page, best, known, cache>>
    BY <1>1 DEF Promote
  <2>2. TypesInv'
    BY <1>1 DEF ReleaseInv, TypesInv, Promote
  <2>3. \A w : Ahead(w, page)' <=> Ahead(w, page)
    BY <2>1 DEF Ahead
  <2> QED BY <2>1, <2>2, <2>3 DEF ReleaseInv, ScanInv, CacheInv
<1>2. CASE CheckLatestRelease
  <2>1. UNCHANGED <<running, tags, page, best, known>> /\ ~running.dev
    BY <1>2 DEF CheckLatestRelease
  <2>2. TypesInv'
    BY <1>2 DEF ReleaseInv, TypesInv, CheckLatestRelease
  <2>3. \A w : Ahead(w, page)' <=> Ahead(w, page)
    BY <2>1 DEF Ahead
  <2>4. cache'.dev = running.dev
    BY <1>2 DEF ReleaseInv, TypesInv, CheckLatestRelease, Semver
  <2> QED BY <2>1, <2>2, <2>3, <2>4 DEF ReleaseInv, ScanInv, CacheInv
<1>3. CASE CheckFails
  <2>1. TypesInv' /\ ScanInv'
    BY <1>3 DEF ReleaseInv, TypesInv, ScanInv, CheckFails
  <2>2. CacheInv'
    BY <1>3 DEF ReleaseInv, CacheInv, CheckFails
  <2> QED BY <2>1, <2>2 DEF ReleaseInv
<1>4. CASE \E v \in Runnable : Redeploy(v)
  <2>1. TypesInv' /\ ScanInv' /\ CacheInv'
    BY <1>4 DEF ReleaseInv, TypesInv, ScanInv, CacheInv, Redeploy
  <2> QED BY <2>1 DEF ReleaseInv
<1>5. CASE Stall
  <2>1. UNCHANGED <<running, tags, latest, page, best, known, cache>>
    BY <1>5 DEF Stall
  <2>2. \A w : Ahead(w, page)' <=> Ahead(w, page)
    BY <2>1 DEF Ahead
  <2> QED BY <2>1, <2>2 DEF ReleaseInv, TypesInv, ScanInv, CacheInv
<1> QED BY <1>1, <1>2, <1>3, <1>4, <1>5

LEMMA InitRelease == Init => ReleaseInv
BY DEF Init, ReleaseInv, TypesInv, ScanInv, CacheInv

LEMMA NextRelease == ReleaseInv /\ [Next]_vars => ReleaseInv'
<1> SUFFICES ASSUME ReleaseInv, [Next]_vars PROVE ReleaseInv'
  OBVIOUS
<1>1. CASE Next
  BY <1>1, PushInv, ReadPageInv, CheckDevTagsInv, OtherInv DEF Next, Check
<1>2. CASE UNCHANGED vars
  BY <1>2 DEF ReleaseInv, TypesInv, ScanInv, CacheInv, Ahead, vars
<1> QED BY <1>1, <1>2

-----------------------------------------------------------------------------
(* The theorems *)

\* What GET /version offers is an upgrade on the build's own channel, for all
\* versions (version.go GetVersion, release.go compareVersions).
THEOREM OffersCorrect == Spec => []OffersAreUpgrades
<1>1. ReleaseInv => OffersAreUpgrades
  <2> SUFFICES ASSUME ReleaseInv, Upgrade # None PROVE OffersAreUpgrades
    BY DEF OffersAreUpgrades
  <2>1. Upgrade = cache /\ cache \in Semver /\ running \in Semver /\ cache.dev = running.dev
    BY DEF Upgrade, ReleaseInv, TypesInv, CacheInv
  <2>2. compareVersions(cache, running) > 0
    BY DEF Upgrade, IsNewer
  <2> DEFINE Key(v) == <<v.major, v.minor, v.patch, IF v.dev THEN 0 ELSE 1>>
  <2>3. \/ cache.major > running.major
        \/ cache.major = running.major /\ cache.minor > running.minor
        \/ /\ cache.major = running.major /\ cache.minor = running.minor
           /\ cache.patch > running.patch
    BY <2>1, <2>2 DEF compareVersions, cmpInt, Semver
  <2>4. \E i \in 1..4 : /\ Key(cache)[i] > Key(running)[i]
                         /\ \A j \in 1..(i - 1) : Key(cache)[j] = Key(running)[j]
    <3>1. CASE cache.major > running.major
      <4>1. Key(cache)[1] > Key(running)[1]
        BY <3>1
      <4>2. \A j \in 1..(1 - 1) : Key(cache)[j] = Key(running)[j]
        OBVIOUS
      <4> HIDE DEF Key
      <4> QED BY <4>1, <4>2
    <3>2. CASE cache.major = running.major /\ cache.minor > running.minor
      <4>1. Key(cache)[2] > Key(running)[2] /\ Key(cache)[1] = Key(running)[1]
        BY <3>2
      <4>2. \A j \in 1..(2 - 1) : j = 1
        OBVIOUS
      <4> HIDE DEF Key
      <4> QED BY <4>1, <4>2
    <3>3. CASE /\ cache.major = running.major /\ cache.minor = running.minor
               /\ cache.patch > running.patch
      <4>1. /\ Key(cache)[3] > Key(running)[3]
            /\ Key(cache)[1] = Key(running)[1] /\ Key(cache)[2] = Key(running)[2]
        BY <3>3
      <4>2. \A j \in 1..(3 - 1) : j = 1 \/ j = 2
        OBVIOUS
      <4> HIDE DEF Key
      <4> QED BY <4>1, <4>2
    <3> QED BY <2>3, <3>1, <3>2, <3>3
  <2> QED BY <2>1, <2>4 DEF OffersAreUpgrades
<1> QED BY <1>1, InitRelease, NextRelease, PTL DEF Spec

\* However many tags are pushed between two pages, and wherever they come in the
\* list, a check misses none that was there when it began (release.go
\* checkDevTags); it is the limit of MaxTagPages pages alone that can.
THEOREM NoTagMissedCorrect == Spec => NoTagMissed
<1> DEFINE Found == ReadPage /\ page' = 0 /\ cache' # None
                      /\ Len(tags) <= PerPage * MaxTagPages
                      => \A v \in known : compareVersions(cache', v) >= 0
<1>1. ReleaseInv /\ [Next]_vars => [Found]_vars
  BY EndFindsAll DEF AtLeast
<1> QED BY <1>1, InitRelease, NextRelease, PTL DEF Spec, NoTagMissed

\* A later check never takes a dev build back to an older version than an earlier
\* one found (scheduler.go checkVersion, release.go checkDevTags).
THEOREM KnowledgeCorrect == Spec => KnowledgeGrows
<1> DEFINE Grows == running.dev /\ cache # None /\ cache' # None
                      /\ Len(tags) <= PerPage * MaxTagPages
                      => compareVersions(cache', cache) >= 0
<1>1. ReleaseInv /\ [Next]_vars => [Grows]_vars
  <2> SUFFICES ASSUME ReleaseInv, Next, running.dev, cache # None, cache' # None,
                      Len(tags) <= PerPage * MaxTagPages
               PROVE  AtLeast(cache', cache)
    BY DEF AtLeast
  <2>1. cache \in Semver
    BY DEF ReleaseInv, TypesInv
  <2>2. CASE UNCHANGED cache
    BY <2>1, <2>2, OrderReflexive
  <2>3. CASE ReadPage
    <3>1. cache \in known
      BY <2>3 DEF ReadPage, ReleaseInv, CacheInv
    <3>2. CASE page' = 0
      BY <2>3, <3>1, <3>2, EndFindsAll
    <3>3. CASE page' # 0
      BY <2>2, <2>3, <3>3 DEF ReadPage, EndOfTags
    <3> QED BY <3>2, <3>3
  <2> QED BY <2>2, <2>3 DEF Next, Check, Push, Promote, CheckLatestRelease, CheckDevTags,
             CheckFails, Stall, Redeploy
<1> QED BY <1>1, InitRelease, NextRelease, PTL DEF Spec, KnowledgeGrows

=============================================================================
