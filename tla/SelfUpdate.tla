----------------------------- MODULE SelfUpdate -----------------------------
(***************************************************************************)
(* gregg-update: an executable that replaces itself by the newest stable    *)
(* release (crates/gregg-update/src: lib.rs, exec.rs, verify.rs, stage.rs).  *)
(*                                                                         *)
(* crates.io names the version, a tagged GitHub release holds its asset and   *)
(* the asset's checksum, and each is published, replaced or withdrawn on its *)
(* own while updaters run; nothing keeps two updaters of one executable       *)
(* apart.  A build is the version it prints when asked, or one that does not  *)
(* answer.  A checksum is the build it was computed from.                    *)
(***************************************************************************)
EXTENDS Integers

CONSTANTS
    MaxVersion,      \* bound: versions are 1 .. MaxVersion
    Updaters,        \* updater processes
    MaxPublications, \* bound on what is releases
    MaxUpdates       \* bound on the updates that are begun

ASSUME UpdateAssumption ==
    MaxVersion \in Nat \ {0} /\ {MaxPublications, MaxUpdates} \subseteq Nat

VARIABLES
    stable,    \* max_stable_version at crates.io
    offered,   \* versions that have been the stable one
    asset,     \* the asset of each version's release
    checksum,  \* the checksum file beside it
    installed, \* the build at the executable's path
    updater,   \* what each updater is doing
    replaced,  \* updaters whose executable another one has replaced
    releases, updates \* bounded counters

updateVars == <<stable, offered, asset, checksum, installed, updater, replaced,
                releases, updates>>

VersionNumbers == 1 .. MaxVersion
Mute == 0                   \* a build that does not print a version
Missing == -1               \* HTTP 404
Builds == VersionNumbers \cup {Mute}

Stages == {"end", "resolve", "probe", "download", "checksum", "verify", "build",
           "validate", "replace"}
Outcomes == {"none", "error", "already current", "updated"}
UpdaterStates ==
    [at : Stages, current : VersionNumbers, latest : VersionNumbers,
     candidate : Builds \cup {Missing}, sum : Builds \cup {Missing}, outcome : Outcomes]

NoUpdate == [at |-> "end", current |-> 1, latest |-> 1, candidate |-> Missing,
             sum |-> Missing, outcome |-> "none"]
Begun(p) == updater[p].at # "end"
Step(p, at) == updater' = [updater EXCEPT ![p].at = at]
Outcome(p, outcome) ==
    updater' = [updater EXCEPT ![p].at = "end", ![p].outcome = outcome]
WorldUnchanged == UNCHANGED <<stable, offered, asset, checksum, releases>>
Aside == WorldUnchanged /\ UNCHANGED <<installed, replaced, updates>>

-----------------------------------------------------------------------------
(* A release: a version is published or yanked, an asset or its checksum is     *)
(* uploaded, replaced or deleted.                                            *)
Release ==
    /\ releases < MaxPublications
    /\ releases' = releases + 1
    /\ \/ /\ stable' \in VersionNumbers \ {stable}
          /\ offered' = offered \cup {stable'}
          /\ UNCHANGED <<asset, checksum>>
       \/ /\ \E v \in VersionNumbers, b \in Builds \cup {Missing} :
                \/ asset' = [asset EXCEPT ![v] = b] /\ UNCHANGED checksum
                \/ checksum' = [checksum EXCEPT ![v] = b] /\ UNCHANGED asset
          /\ UNCHANGED <<stable, offered>>
    /\ UNCHANGED <<installed, updater, replaced, updates>>

(* A process knows the version it was started from.                            *)
BeginUpdate(p) ==
    /\ ~Begun(p) /\ installed \in VersionNumbers
    /\ updates < MaxUpdates
    /\ updates' = updates + 1
    /\ updater' = [updater EXCEPT ![p] =
                      [NoUpdate EXCEPT !.at = "resolve", !.current = installed]]
    /\ replaced' = replaced \ {p}
    /\ WorldUnchanged /\ UNCHANGED installed

(* Every step can fail for reasons of its own: no curl or cargo, a timeout, a   *)
(* refused directory, a bad answer; an updater can be killed.                 *)
UpdateFails(p) == Begun(p) /\ Outcome(p, "error") /\ Aside

(* resolve_plan: max_stable_version against the version of this process.        *)
LatestStable == stable
Newer(u) == u.current < LatestStable
Resolve(p) ==
    /\ updater[p].at = "resolve"
    /\ IF Newer(updater[p])
       THEN updater' = [updater EXCEPT ![p].latest = LatestStable, ![p].at = "probe"]
       ELSE Outcome(p, "already current")
    /\ Aside

(* check_write_permission, then a host without a prebuilt target builds.        *)
ProbeDirectory(p) ==
    /\ updater[p].at = "probe"
    /\ Step(p, "download") \/ Step(p, "build")
    /\ Aside

(* download_file twice: only an absent asset leads to a build, an absent         *)
(* checksum is an error.                                                     *)
DownloadAsset(p) ==
    LET build == asset[updater[p].latest] IN
    /\ updater[p].at = "download"
    /\ IF build = Missing THEN Step(p, "build")
       ELSE updater' = [updater EXCEPT ![p].candidate = build, ![p].at = "checksum"]
    /\ Aside
DownloadChecksum(p) ==
    LET sum == checksum[updater[p].latest] IN
    /\ updater[p].at = "checksum"
    /\ IF sum = Missing THEN Outcome(p, "error")
       ELSE updater' = [updater EXCEPT ![p].sum = sum, ![p].at = "verify"]
    /\ Aside

(* verify_checksum.                                                          *)
VerifyChecksum(p) ==
    /\ updater[p].at = "verify"
    /\ IF updater[p].candidate = updater[p].sum THEN Step(p, "validate")
       ELSE Outcome(p, "error")
    /\ Aside

(* cargo_fallback: builds exactly the version that was asked for.               *)
CargoBuild(p) ==
    /\ updater[p].at = "build"
    /\ updater' = [updater EXCEPT ![p].candidate = updater[p].latest, ![p].at = "validate"]
    /\ Aside

(* validate_candidate: the candidate prints the program and that version.       *)
IdentifiesAny(u) == TRUE
Identifies(u) == u.candidate = u.latest
Validate(p) ==
    /\ updater[p].at = "validate"
    /\ IF Identifies(updater[p]) THEN Step(p, "replace") ELSE Outcome(p, "error")
    /\ Aside

(* replace_current_exe: one rename.                                           *)
Replace(p) ==
    /\ updater[p].at = "replace"
    /\ installed' = updater[p].candidate
    /\ Outcome(p, "updated")
    /\ replaced' = replaced \cup {q \in Updaters \ {p} : Begun(q)}
    /\ WorldUnchanged /\ UNCHANGED updates

-----------------------------------------------------------------------------
UpdateInit ==
    /\ stable \in VersionNumbers /\ offered = {stable, 1}
    /\ asset = [v \in VersionNumbers |-> v]
    /\ checksum = [v \in VersionNumbers |-> v]
    /\ installed = 1
    /\ updater = [p \in Updaters |-> NoUpdate]
    /\ replaced = {}
    /\ releases = 0 /\ updates = 0

UpdateNext ==
    \/ Release
    \/ \E p \in Updaters :
          \/ BeginUpdate(p) \/ UpdateFails(p) \/ Resolve(p) \/ ProbeDirectory(p)
          \/ DownloadAsset(p) \/ DownloadChecksum(p) \/ VerifyChecksum(p)
          \/ CargoBuild(p) \/ Validate(p) \/ Replace(p)

UpdateSpec == UpdateInit /\ [][UpdateNext]_updateVars

-----------------------------------------------------------------------------
(* The shape of every variable.                                               *)
UpdateTypeOK ==
    /\ stable \in VersionNumbers /\ offered \subseteq VersionNumbers
    /\ asset \in [VersionNumbers -> Builds \cup {Missing}]
    /\ checksum \in [VersionNumbers -> Builds \cup {Missing}]
    /\ installed \in Builds
    /\ updater \in [Updaters -> UpdaterStates]
    /\ replaced \subseteq Updaters
    /\ releases \in 0 .. MaxPublications /\ updates \in 0 .. MaxUpdates

(* "checksum and candidate version are verified before any replacement": what   *)
(* is installed answers, with a version that crates.io has named as stable,    *)
(* whatever is uploaded, replaced or withdrawn in the middle of an update.     *)
InstalledWasOffered == installed \in offered

(* compare_versions: an update moves forward, unless another updater of the     *)
(* same executable replaced it in the meantime.                              *)
UpdatesForward ==
    [][\A p \in Updaters :
          updater[p].at = "replace" /\ updater'[p].outcome = "updated" /\ p \notin replaced =>
             installed < installed']_updateVars

UpdateSound == [](UpdateTypeOK /\ InstalledWasOffered) /\ UpdatesForward

(* The newest version that any updater installed stays installed.               *)
NeverDowngrades == [][installed' >= installed]_updateVars
=============================================================================
