---------------------------- MODULE RuntimeBuild ----------------------------
(***************************************************************************)
(* Building a runtime.  `lab runtimes build` writes the encrypted secrets  *)
(* to a file of the working area, zips the project with it, uploads the    *)
(* zip under the version and asks for a build.  A worker fetches the zip,  *)
(* builds the image as `latest`, tags what is `latest` then with the       *)
(* version, pushes it and registers the runtime, whatever the build said.  *)
(* Commands of one working area and builds of one docker daemon overlap;   *)
(* commands and workers may die, docker may fail.                          *)
(***************************************************************************)
EXTENDS Integers, FiniteSets

CONSTANTS
  Cmd,       \* runs of lab runtimes build, all of one runtime and working area
  Version,   \* "current", "stash" and the tags of the repository
  BuildFaults, \* what may fail, a subset of {"client", "docker", "worker"}
  NoCmd, NoZip

ASSUME BuildAssumption ==
  /\ BuildFaults \subseteq {"client", "docker", "worker"}
  /\ NoCmd \notin Cmd /\ NoZip \notin [cmd : Cmd, secrets : Cmd]

VARIABLES
  registry, \* the server's setting: TRUE iff images go to a DOCKER_REGISTRY
  at,       \* at[c]: where the command stands
  ver,      \* ver[c]: the version it bundles
  secrets,  \* the secrets file of the working area: whose it is
  zip,      \* zip[v]: the bundle of the working area for v
  opened,   \* opened[c]: the bundle c sends
  store,    \* store[v]: the uploaded bundle
  job,      \* job[c]: where the build c asked for stands
  src,      \* src[c]: the bundle its worker has fetched
  img,      \* img[c]: the image its worker has looked up
  bad,      \* the builds in which docker reported an error
  latest,   \* the image docker knows as latest
  tagged,   \* tagged[v]: the image docker knows by the version
  pushed,   \* pushed[v]: the image the registry knows by it
  rows,     \* lf_runtime: the versions registered
  met,      \* pairs of commands that were bundling at the same time
  raced     \* pairs of builds that were on their way at the same time

local  == <<registry, at, ver, secrets, zip, opened, met>>
docker == <<latest, tagged, pushed>>
worker == <<src, img, bad, raced>>
buildVars == <<local, store, job, worker, docker, rows>>

(* A bundle, and the image made of it: whose files, whose secrets. *)
Zip       == [cmd : Cmd, secrets : Cmd]
MaybeZip  == Zip \cup {NoZip}
Bundling  == {"keyed", "bare", "written", "zipped"}
Building  == {"fetched", "built", "found"}
Pairs     == {{c, d} : c, d \in Cmd}

(* An uploaded object: its bytes are a bundle's when whole; dirty while more
   than one upload has written to it since it was last created. *)
Object == [bytes : MaybeZip, whole : BOOLEAN, dirty : BOOLEAN]

(* The object of a version: build_upload_uri makes the key of its name.
   (Operator_Something right before Operator: see below.) *)
Uri_NoVersion(v) == CHOOSE w \in Version : TRUE
Uri(v) == v

(* What a build is enqueued with: it names the object and not its bytes. *)
BuildCtx == [zip : Version, push : BOOLEAN]
CreateBuildCtx(c) == [zip |-> Uri(ver[c]), push |-> registry]

BuildTypeOK ==
  /\ registry \in BOOLEAN
  /\ at \in [Cmd -> {"idle", "bundled", "sending", "sent", "ended", "failed"} \cup Bundling]
  /\ \A c \in Cmd : CreateBuildCtx(c) \in BuildCtx
  /\ ver \in [Cmd -> Version]
  /\ secrets \in Cmd \cup {NoCmd}
  /\ zip \in [Version -> MaybeZip] /\ opened \in [Cmd -> MaybeZip]
  /\ store \in [Version -> Object]
  /\ job \in [Cmd -> {"none", "queued", "tagged", "pushed", "done", "lost"} \cup Building]
  /\ src \in [Cmd -> MaybeZip] /\ img \in [Cmd -> MaybeZip] /\ bad \subseteq Cmd
  /\ latest \in MaybeZip /\ tagged \in [Version -> MaybeZip] /\ pushed \in [Version -> MaybeZip]
  /\ rows \subseteq Version /\ met \subseteq Pairs /\ raced \subseteq Pairs

-----------------------------------------------------------------------------
(* Helpers.  A definition called Operator_Something right before Operator is
   a fault: the operator with one plausible mistake. *)

Goto(c, s) == at' = [at EXCEPT ![c] = s]
Step(c, s) == job' = [job EXCEPT ![c] = s]
With(c, S) == {{c, d} : d \in S \ {c}}

(* Where the image of a version is kept: in the registry when there is one. *)
Held(v) == IF registry THEN pushed[v] ELSE tagged[v]

BuildInit ==
  /\ registry \in BOOLEAN
  /\ at = [c \in Cmd |-> "idle"] /\ ver \in [Cmd -> Version]
  /\ secrets = NoCmd /\ zip = [v \in Version |-> NoZip]
  /\ opened = [c \in Cmd |-> NoZip]
  /\ store = [v \in Version |-> [bytes |-> NoZip, whole |-> FALSE, dirty |-> FALSE]]
  /\ job = [c \in Cmd |-> "none"]
  /\ src = [c \in Cmd |-> NoZip] /\ img = [c \in Cmd |-> NoZip] /\ bad = {}
  /\ latest = NoZip /\ tagged = [v \in Version |-> NoZip] /\ pushed = [v \in Version |-> NoZip]
  /\ rows = {} /\ met = {} /\ raced = {}

-----------------------------------------------------------------------------
(* The command: with the project's private key, or without when none is found. *)
StartBuild(c) ==
  /\ at[c] = "idle"
  /\ Goto(c, "keyed") \/ Goto(c, "bare")
  /\ met' = met \cup With(c, {d \in Cmd : at[d] \in Bundling})
  /\ UNCHANGED <<registry, ver, secrets, zip, opened, store, job, worker, docker, rows>>

WriteSecrets(c) ==
  /\ at[c] = "keyed" /\ secrets' = c /\ Goto(c, "written")
  /\ UNCHANGED <<registry, ver, zip, opened, met, store, job, worker, docker, rows>>

(* The bundle takes whatever secrets file is there, and fails without one. *)
ZipFiles(c) ==
  /\ at[c] \in {"written", "bare"} /\ secrets # NoCmd
  /\ zip' = [zip EXCEPT ![ver[c]] = [cmd |-> c, secrets |-> secrets]]
  /\ Goto(c, IF at[c] = "written" THEN "zipped" ELSE "bundled")
  /\ UNCHANGED <<registry, ver, secrets, opened, met, store, job, worker, docker, rows>>

(* No secrets file; or nothing to stash, git that fails, a command killed:
   the secrets file stays. *)
ZipFails(c) ==
  /\ at[c] \in {"written", "bare"} /\ (secrets = NoCmd \/ "client" \in BuildFaults)
  /\ Goto(c, "failed")
  /\ UNCHANGED <<registry, ver, secrets, zip, opened, met, store, job, worker, docker, rows>>

Unlink_Forgotten(c) ==
  /\ at[c] = "zipped" /\ Goto(c, "bundled")
  /\ UNCHANGED <<registry, ver, secrets, zip, opened, met, store, job, worker, docker, rows>>
Unlink(c) ==
  /\ at[c] = "zipped" /\ secrets' = NoCmd /\ Goto(c, "bundled")
  /\ UNCHANGED <<registry, ver, zip, opened, met, store, job, worker, docker, rows>>

(* The upload: put_stream opens, and so empties, the object of the version and
   writes the chunks as they come. *)
Upload(c) ==
  /\ at[c] = "bundled" /\ Goto(c, "sending")
  /\ opened' = [opened EXCEPT ![c] = zip[ver[c]]]
  /\ store' = [store EXCEPT ![Uri(ver[c])] =
                 [bytes |-> NoZip, whole |-> FALSE,
                  dirty |-> \E d \in Cmd : at[d] = "sending" /\ ver[d] = ver[c]]]
  /\ UNCHANGED <<registry, ver, secrets, zip, met, job, worker, docker, rows>>

(* Its end.  The object is not the bundle's when another upload wrote to it,
   or another command wrote the zip anew, meanwhile. *)
Uploaded(c) ==
  LET u == Uri(ver[c]) IN
  /\ at[c] = "sending" /\ Goto(c, "sent")
  /\ \/ store' = [store EXCEPT ![u] = [bytes |-> opened[c], whole |-> TRUE, dirty |-> @.dirty]]
     \/ /\ store[u].dirty \/ zip[ver[c]] # opened[c]
        /\ store' = [store EXCEPT ![u] = [bytes |-> NoZip, whole |-> FALSE, dirty |-> @.dirty]]
  /\ UNCHANGED <<registry, ver, secrets, zip, opened, met, job, worker, docker, rows>>

(* The command times out or dies: what it has written stays. *)
AbandonBuild(c) ==
  /\ "client" \in BuildFaults /\ at[c] \in {"keyed", "zipped", "bundled", "sending", "sent"}
  /\ Goto(c, "failed")
  /\ UNCHANGED <<registry, ver, secrets, zip, opened, met, store, job, worker, docker, rows>>

(* projects_build. *)
EnqueueBuild(c) == Step(c, "queued")

ProjectBuild(c) ==
  /\ at[c] = "sent" /\ Goto(c, "ended") /\ EnqueueBuild(c)
  /\ UNCHANGED <<registry, ver, secrets, zip, opened, met, store, worker, docker, rows>>

-----------------------------------------------------------------------------
(* The worker: get_stream reads the bundle stored for the version now, which may not be the one
   the command sent; unzipping what is not whole fails the job. *)
Stored(c) == store[CreateBuildCtx(c).zip]

Fetch_Unchecked(c) ==
  /\ job[c] = "queued"
  /\ Step(c, "fetched") /\ src' = [src EXCEPT ![c] = Stored(c).bytes]
  /\ raced' = raced \cup With(c, {d \in Cmd : job[d] \in Building})
  /\ UNCHANGED <<local, store, img, bad, docker, rows>>
Fetch(c) ==
  /\ job[c] = "queued"
  /\ \/ /\ Stored(c).whole
        /\ Step(c, "fetched") /\ src' = [src EXCEPT ![c] = Stored(c).bytes]
        /\ raced' = raced \cup With(c, {d \in Cmd : job[d] \in Building})
     \/ ~Stored(c).whole /\ Step(c, "lost") /\ UNCHANGED <<src, raced>>
  /\ UNCHANGED <<local, store, img, bad, docker, rows>>

(* docker_low_build, under the name without a version. *)
Build(c) ==
  /\ job[c] = "fetched"
  /\ \/ Step(c, "built") /\ latest' = src[c] /\ UNCHANGED bad
     \/ /\ "docker" \in BuildFaults
        /\ Step(c, "tagged") /\ bad' = bad \cup {c} /\ UNCHANGED latest
  /\ UNCHANGED <<local, store, src, img, raced, tagged, pushed, rows>>

(* images.get finds the image that has the name by then, tag names it. *)
FindImage(c) ==
  /\ job[c] = "built" /\ Step(c, "found") /\ img' = [img EXCEPT ![c] = latest]
  /\ UNCHANGED <<local, store, src, bad, raced, docker, rows>>

Tag(c) ==
  /\ job[c] = "found" /\ Step(c, "tagged") /\ tagged' = [tagged EXCEPT ![ver[c]] = img[c]]
  /\ UNCHANGED <<local, store, worker, latest, pushed, rows>>

(* push_image, also after a build that failed: what has the tag is pushed, and
   an error is kept for the answer. *)
PushImage(c) ==
  /\ job[c] = "tagged" /\ Step(c, "pushed")
  /\ \/ ~CreateBuildCtx(c).push /\ UNCHANGED <<pushed, bad>>
     \/ /\ CreateBuildCtx(c).push /\ tagged[ver[c]] # NoZip
        /\ pushed' = [pushed EXCEPT ![ver[c]] = tagged[ver[c]]] /\ UNCHANGED bad
     \/ /\ CreateBuildCtx(c).push /\ (tagged[ver[c]] = NoZip \/ "docker" \in BuildFaults)
        /\ bad' = bad \cup {c} /\ UNCHANGED pushed
  /\ UNCHANGED <<local, store, src, img, raced, latest, tagged, rows>>

(* The runtime is registered whatever the log says; a row that is there is
   kept and the answer is as good. *)
Registered(v) == v \in rows
RuntimeCreate(v) == IF Registered(v) THEN UNCHANGED rows ELSE rows' = rows \cup {v}

Register(c) ==
  /\ job[c] = "pushed" /\ Step(c, "done") /\ RuntimeCreate(ver[c])
  /\ UNCHANGED <<local, store, worker, docker>>

(* The worker dies, or its job is over its timeout. *)
Die(c) ==
  /\ "worker" \in BuildFaults /\ job[c] \in {"queued", "tagged", "pushed"} \cup Building
  /\ Step(c, "lost")
  /\ UNCHANGED <<local, store, worker, docker, rows>>

RuntimeDelete(v) ==
  /\ Registered(v) /\ rows' = rows \ {v}
  /\ UNCHANGED <<local, store, job, worker, docker>>

DockerBuild(c) == Build(c) \/ FindImage(c) \/ Tag(c) \/ PushImage(c)

BuildTask(c) == Fetch(c) \/ DockerBuild(c) \/ Register(c)

BundleProject(c) == WriteSecrets(c) \/ ZipFiles(c) \/ ZipFails(c) \/ Unlink(c)

BuildCommand(c) ==
  \/ StartBuild(c) \/ BundleProject(c) \/ Upload(c) \/ Uploaded(c)
  \/ AbandonBuild(c) \/ ProjectBuild(c)

BuildNext ==
  \/ \E c \in Cmd : BuildCommand(c) \/ BuildTask(c) \/ Die(c)
  \/ \E v \in Version : RuntimeDelete(v)

BuildSpec == BuildInit /\ [][BuildNext]_buildVars

-----------------------------------------------------------------------------
(* A registered runtime whose image is not where it is kept is the work of a
   build in which docker failed, although register does not look at the log. *)
BrokenNeedsFailure ==
  \A v \in rows : Held(v) = NoZip => \E c \in bad : ver[c] = v

(* The image of a version was made of a bundle of that version, unless builds
   overlapped: `latest` is shared by the builds of a docker daemon. *)
MixedNeedsOverlap ==
  \A v \in Version :
    tagged[v] # NoZip =>
      \/ ver[tagged[v].cmd] = v
      \/ \E c, d \in Cmd : {c, d} \in raced /\ ver[c] = v /\ ver[d] # v

(* A bundle carries the secrets of its own command, unless commands bundled at
   the same time or one of them ended before it removed its secrets file. *)
SecretsHaveCause ==
  \A v \in Version :
    zip[v] # NoZip =>
      \/ zip[v].secrets = zip[v].cmd
      \/ at[zip[v].secrets] = "failed"
      \/ {zip[v].cmd, zip[v].secrets} \in met

=============================================================================
