------------------------------ MODULE ReleaseFeed ------------------------------
(***************************************************************************)
(* How a release reaches an install: releases and the policy file, the     *)
(* workflow that builds, signs, verifies and deploys one feed per channel  *)
(* (opad-update/src/bin/opad-feed.rs), and the install that checks what it *)
(* is served (client.rs, manifest.rs, verify.rs) and takes what is newer   *)
(* (version.rs, app.rs, tosu.rs). The server may still hand out the feed   *)
(* deployed before, or the other channel's.                                *)
(***************************************************************************)
EXTENDS FiniteSets, Naturals

CONSTANTS
    None,
    Stable, Beta,
    Tags, First, \* release tags, and those published from the start
    InfoOf,      \* parse_tag: [track, version, pre, revision], pre = 0 for none
    Pre,         \* tags GitHub marks as pre-releases
    Unusable,    \* tags whose files have no hash, or that have no file to use
    Life,        \* weeks until a feed expires
    FeedBudgets  \* bounds: publishes, yanks, rollouts, weeks, switches

Channels == {Stable, Beta}
Tracks == {InfoOf[t].track : t \in Tags}

VARIABLES
    hub,      \* the release page: each tag's state
    policy,   \* updates/policy.json: yanked tags, tags only some installs get
    week,     \* time, in weeks
    run,      \* the workflow: the files it has built and not yet deployed
    serial,   \* the time of the last build, in the order of the builds
    site,     \* the deployed feed of each channel
    stale,    \* the feed each channel had before, which a cache may still serve
    inst,     \* the install: channel, versions, serials seen, its feed, early;
              \* and the releases pulled from the newest feed it read
    zbounds

zvars == <<hub, policy, week, run, serial, site, stale, inst, zbounds>>

FeedInit ==
    /\ hub = [t \in Tags |-> IF t \in First THEN "published" ELSE "none"]
    /\ policy = [yanked |-> {}, partial |-> {}]
    /\ week = 0 /\ run = None /\ serial = 0
    /\ site = [c \in Channels |-> None] /\ stale = site
    /\ \E early \in BOOLEAN :
         inst = [channel |-> Stable, has |-> [x \in Tracks |-> None],
                 seen |-> [c \in Channels |-> 0],
                 pulled |-> [c \in Channels |-> {}], feed |-> None, early |-> early]
    /\ zbounds \in FeedBudgets

Spend(kind) == zbounds[kind] > 0 /\ zbounds' = [zbounds EXCEPT ![kind] = @ - 1]

-----------------------------------------------------------------------------
(* Versions *)

\* version.rs: numbers first; a release is newer than its pre-releases
NewerVersion(a, b) ==
    LET x == InfoOf[a]  y == InfoOf[b] IN
    \/ x.version > y.version
    \/ x.version = y.version /\ x.pre # y.pre /\ (x.pre = 0 \/ (y.pre # 0 /\ x.pre > y.pre))

\* build_github_feed, and plan of tosu.rs: a revision of the same version counts
Newer(a, b) ==
    \/ NewerVersion(a, b)
    \/ ~NewerVersion(b, a) /\ InfoOf[a].revision > InfoOf[b].revision

-----------------------------------------------------------------------------
(* Publishing *)

DraftOf(t) ==
    /\ hub[t] = "none" /\ Spend("publishes")
    /\ hub' = [hub EXCEPT ![t] = "draft"]
    /\ UNCHANGED <<policy, week, run, serial, site, stale, inst>>

Publish(t) ==
    /\ hub[t] = "draft" /\ hub' = [hub EXCEPT ![t] = "published"]
    /\ UNCHANGED <<policy, week, run, serial, site, stale, inst, zbounds>>

\* The policy is edited: a release is pulled, or rolled out to some first
Yank(t) ==
    /\ t \notin policy.yanked /\ Spend("yanks")
    /\ policy' = [policy EXCEPT !.yanked = @ \cup {t}]
    /\ UNCHANGED <<hub, week, run, serial, site, stale, inst>>
Narrow(t) ==
    /\ t \notin policy.partial /\ Spend("rollouts")
    /\ policy' = [policy EXCEPT !.partial = @ \cup {t}]
    /\ UNCHANGED <<hub, week, run, serial, site, stale, inst>>
Widen(t) ==
    /\ t \in policy.partial /\ policy' = [policy EXCEPT !.partial = @ \ {t}]
    /\ UNCHANGED <<hub, week, run, serial, site, stale, inst, zbounds>>

WeekPasses ==
    /\ Spend("weeks") /\ week' = week + 1
    /\ UNCHANGED <<hub, policy, run, serial, site, stale, inst>>

-----------------------------------------------------------------------------
(* The workflow *)

EligibleToo(c) == {t \in Tags : hub[t] = "published" /\ t \notin policy.yanked}
Eligible(c) ==
    {t \in Tags : hub[t] = "published" /\ t \notin policy.yanked /\ (c = Stable => t \notin Pre)}

\* The newest eligible release of each track that has one
NewestOf(S) == {t \in S : \A o \in S : InfoOf[o].track = InfoOf[t].track => ~Newer(o, t)}

\* pulled is not in the file: the policy it was built from
FeedOf(c) ==
    [channel |-> c, serial |-> serial', expires |-> week + Life, tags |-> NewestOf(Eligible(c)),
     partial |-> IF c = Stable THEN policy.partial ELSE {}, pulled |-> policy.yanked]

\* A release without hashes or usable files stops both feeds
Buildable == \A c \in Channels : NewestOf(Eligible(c)) \cap Unusable = {}

\* github: both files are built before either goes anywhere
Build ==
    /\ run = None /\ Buildable
    /\ serial' = serial + 1 /\ run' = [c \in Channels |-> FeedOf(c)]
    \* only a run that would publish something: the others change nothing
    /\ \E c \in Channels :
         site[c] # None => [run'[c] EXCEPT !.serial = site[c].serial] # site[c]
    /\ UNCHANGED <<hub, policy, week, site, stale, inst, zbounds>>

\* sign, verify (signature, schema, channel, expiry), deploy; or refused there
Deploy ==
    /\ run # None
    /\ IF \A c \in Channels : week <= run[c].expires
         THEN site' = run /\ stale' = site
         ELSE UNCHANGED <<site, stale>>
    /\ run' = None
    /\ UNCHANGED <<hub, policy, week, serial, inst, zbounds>>

-----------------------------------------------------------------------------
(* The install *)

AcceptsReplayed(f) == f.channel = inst.channel /\ week <= f.expires
\* check_feed
Accepts(f) ==
    /\ f.channel = inst.channel /\ week <= f.expires
    /\ f.serial >= inst.seen[inst.channel]

\* A check that is answered with feed f, whichever that is; a feed and a
\* signature of different deployments do not verify, and change nothing
Check(f) ==
    /\ Accepts(f) /\ inst.feed # f
    /\ inst' = [inst EXCEPT !.feed = f, !.seen[inst.channel] = f.serial,
                           !.pulled[inst.channel] = f.pulled]
    /\ UNCHANGED <<hub, policy, week, run, serial, site, stale, zbounds>>
CheckSite == site[inst.channel] # None /\ Check(site[inst.channel])
CheckStale ==
    \E f \in UNION {{site[c], stale[c]} : c \in Channels} : f # None /\ Check(f)

\* rollout::for_install, then plan: what this install is offered
Offered == {t \in inst.feed.tags : t \in inst.feed.partial => inst.early}
Updates == {t \in Offered : inst.has[InfoOf[t].track] = None
                              \/ Newer(t, inst.has[InfoOf[t].track])}

Install ==
    /\ inst.feed # None
    /\ \E t \in Updates : inst' = [inst EXCEPT !.has[InfoOf[t].track] = t]
    /\ UNCHANGED <<hub, policy, week, run, serial, site, stale, zbounds>>

\* SetUpdateChannel: the cached feed is dropped
Switch ==
    /\ Spend("switches")
    /\ inst' = [inst EXCEPT !.channel = IF @ = Stable THEN Beta ELSE Stable, !.feed = None]
    /\ UNCHANGED <<hub, policy, week, run, serial, site, stale>>

FeedNext ==
    \/ \E t \in Tags : DraftOf(t) \/ Publish(t) \/ Yank(t) \/ Narrow(t) \/ Widen(t)
    \/ WeekPasses \/ Build \/ Deploy \/ CheckStale \/ Install \/ Switch

FeedFairness ==
    /\ WF_zvars(Build) /\ WF_zvars(Deploy) /\ SF_zvars(CheckSite) /\ WF_zvars(Install)

FeedSpec == FeedInit /\ [][FeedNext]_zvars /\ FeedFairness

-----------------------------------------------------------------------------
(* Properties *)

FeedTypeOK ==
    /\ hub \in [Tags -> {"none", "draft", "published"}]
    /\ policy.yanked \subseteq Tags /\ policy.partial \subseteq Tags
    /\ inst.channel \in Channels
    /\ \A x \in Tracks : inst.has[x] \in Tags \cup {None}

\* What the install was handed from stale caches or the wrong channel's file
\* never makes it take a release that was pulled before the newest feed it has
\* read on that channel was built, a draft, or, on stable, a pre-release.
InstallsAreGood ==
    \A x \in Tracks :
        inst'.has[x] # inst.has[x] =>
            LET t == inst'.has[x] IN
            /\ t \notin inst.pulled[inst.channel] /\ hub[t] = "published"
            /\ inst.channel = Stable => t \notin Pre
            /\ inst.has[x] # None => Newer(t, inst.has[x])

\* Once publishing has settled and the newest releases are usable, the install
\* runs the newest one its channel offers it, whatever it was served before.
Current ==
    \A t \in NewestOf(Eligible(inst.channel)) :
        \/ inst.channel = Stable /\ t \in policy.partial /\ ~inst.early
        \/ LET h == inst.has[InfoOf[t].track] IN h # None /\ ~Newer(t, h)
===============================================================================
