---------------------------- MODULE Publication -----------------------------
(***************************************************************************)
(* How the work of one job reaches the forge: prepare_repository clones,   *)
(* prepare_working_branch links and pushes a branch, the agent edits the   *)
(* files, and PublicationController.publish checks, commits, pushes and    *)
(* opens a change request, as JobRunner.execute calls them.  Every step    *)
(* ends with one effect on the clone, on the forge or on the job row; the  *)
(* worker may die between two of them, an answer of the forge may be lost, *)
(* and people act on the branch and its change requests at the same time.  *)
(*                                                                         *)
(* A commit is the set of the edits in it.  Leases are kept (JobWorker has *)
(* the rest), nothing but a completed job removes the clone, and an agent  *)
(* changes neither the manifest nor what was to be checked out.            *)
(***************************************************************************)
EXTENDS JobLifecycle, FiniteSets, SequencesExt

CONSTANTS
  Specs,        \* the kinds of job, see SpecType
  Edits,        \* what an agent may change
  Unparsed,     \* the edits whose Python does not parse
  Unseen,       \* those of paths that git quotes, which the syntax gate passes over
  Failing,      \* the edits with which a check fails
  Protected,    \* the edits of paths that no policy opens
  Denied,       \* the edits of paths that the manifest denies or does not allow
  Size,         \* the files and lines that each edit changes
  Limits,       \* max_files and max_changed_lines of the manifest
  DefaultLimits,\* and of a repository without one
  MaxAttempts,  \* Job.max_attempts
  MaxResumes,   \* bound on how often an operator queues the job again
  MaxTouches    \* bound on what people do to the branch

\* labeled: from a labeled issue; links: the forge links branches to issues;
\* manifest: .gca/config.yaml, which is protected, or another file that is not;
\* checks: required_checks of the manifest, which may write to the clone;
\* opens: open_change_requests.
SpecType ==
  [labeled : BOOLEAN, links : BOOLEAN, opens : BOOLEAN,
   manifest : {"none", "protected", "open"}, checks : {"none", "pure", "writing"}]

\* The files of a clone that was cut off before its checkout appear as deleted.
Emptied == "emptied"
ByHuman == "human"
Content == Edits \cup {Emptied}

ASSUME PublicationAssumption ==
  /\ Specs \subseteq SpecType
  /\ \A s \in Specs : s.checks # "none" => s.manifest # "none"
  /\ (Unparsed \cup Failing \cup Protected \cup Denied) \subseteq Edits
  /\ IsFiniteSet(Edits) /\ {Emptied, ByHuman} \cap Edits = {}
  /\ MaxAttempts \in Nat /\ MaxResumes \in Nat /\ MaxTouches \in Nat

VARIABLES
  spec,
  job,          \* the row of the job: status, attempts, publication
  pc, goal,     \* where the worker is, what status the publication leads to
  error,        \* the exception it has caught
  url,          \* the change request it was told of, 0 for none
  manifest,     \* whether the configuration it has read is the repository's
  clone,        \* the clone of the job: its state,
  tree, local,  \*   the edits not committed, the commits beyond the base,
  whole,        \*   whether its git clone was not cut off
  remote,       \* the branch of the job at the forge: whether there is one, its commits
  requests,     \* the state of each of its change requests
  landed,       \* the edits that have been on it
  session,      \* the agent's session
  touches, resumes

clonevars == <<clone, tree, local, whole>>
forgevars == <<remote, requests, landed>>
bounds == <<touches, resumes>>
worker == <<goal, error, url, manifest>>
pubvars == <<spec, job, pc, worker, clonevars, forgevars, session, bounds>>

-----------------------------------------------------------------------------
Goto(place) == pc' = place

Saved(status) == job' = [job EXCEPT !.status = status]

\* A PublicationError is "refused", a retryable one "rejected"; any other
\* exception is "transient" if _handle_failure retries it, or else "fatal".
\* That of a draft only changes the message of the pause.
Raises(e) ==
  /\ error' = e
  /\ Goto(IF goal = "paused" /\ e \in {"refused", "rejected"} THEN "settle" ELSE "failing")

\* git checkout of the branch of the job, made or found: without an index, making it
\* leaves the files out, and finding it has git put them there.
CheckedOut == [state |-> CASE clone = "bare" -> "branched" [] clone = "branched" -> "full"
                           [] OTHER -> clone,
               tree |-> IF clone = "branched" THEN tree \ {Emptied} ELSE tree]

\* required_checks, as the configuration has it; such a command may write files.
HasChecks == spec.checks # "none" /\ manifest
ChecksWrite == HasChecks /\ spec.checks = "writing"

\* What the commands of a step have done to the clone when one of them fails: some
\* checks have run, the branch is checked out, what is there has been staged.
Partly ==
  {[state |-> clone, tree |-> tree]}
  \cup (IF pc \in {"branch", "commit"} THEN {CheckedOut} ELSE {})
  \cup (IF pc = "commit" /\ clone = "bare" THEN {[state |-> "staged", tree |-> tree]} ELSE {})
  \cup (IF pc = "checks" /\ ChecksWrite THEN [state : {clone}, tree : SUBSET Edits] ELSE {})

\* A command that writes the index is killed, which may leave its lock behind.
Interrupted ==
  /\ \E part \in Partly :
       /\ clone' \in {part.state} \cup IF clone = "unborn" THEN {} ELSE {"locked"}
       /\ tree' = part.tree
  /\ UNCHANGED <<local, whole>>

\* run_git: the command reports an error, or takes too long and is killed.
GitFails ==
  \/ /\ Raises("refused")
     /\ \E part \in Partly : clone' = part.state /\ tree' = part.tree
     /\ UNCHANGED <<local, whole>>
  \/ Raises("fatal") /\ Interrupted

\* request_json: a status that asks to try again and a forge out of reach are
\* transient, any other status and an answer that cannot be read are not.
RequestErrors == {"transient", "fatal"}

All(commits) == UNION Range(commits)

-----------------------------------------------------------------------------
(* JobRunner.execute, up to the agent *)

Claim ==
  /\ pc = "idle" /\ job.status = "queued"
  /\ job' = [job EXCEPT !.status = "running", !.attempt = @ + 1]
  /\ Goto("clone")
  /\ UNCHANGED <<spec, worker, clonevars, forgevars, session, bounds>>

\* What a killed git clone leaves: a repository without a HEAD, one without files
\* and index, or one whose index is locked.
Unfinished == {"unborn", "bare", "locked"}

\* A clone in the given state, without commits of its own.
Cloned(state) ==
  /\ clone' = state /\ local' = <<>> /\ whole' = (state = "full")
  /\ tree' = IF state = "bare" THEN {Emptied} ELSE {}

\* prepare_repository: any directory with a .git is taken for the clone.  A clone
\* that fails is removed by git, one that takes too long is killed.
Prepare ==
  /\ pc = "clone"
  /\ \/ clone # "none" /\ Goto("config") /\ UNCHANGED <<clonevars, error>>
     \/ clone = "none" /\ Cloned("full") /\ Goto("config") /\ UNCHANGED error
     \/ clone = "none" /\ (\E s \in {"none"} \cup Unfinished : Cloned(s)) /\ Raises("transient")
  /\ UNCHANGED <<spec, job, goal, url, manifest, forgevars, session, bounds>>

\* _load_repo_config and _build_lifecycle: a manifest, a secret grant or an image
\* that is no good fails the job, a manifest that is not there is none.
Configure ==
  /\ pc = "config"
  /\ manifest' = (spec.manifest # "none" /\ Emptied \notin tree \cup All(local))
  /\ \/ Goto(IF spec.labeled THEN "branch" ELSE "agent") /\ UNCHANGED error
     \/ Raises("fatal")
  /\ UNCHANGED <<spec, job, goal, url, clonevars, forgevars, session, bounds>>

\* prepare_working_branch: checkout and rev-parse, either of which may fail.
MakeBranch ==
  /\ pc = "branch"
  /\ \/ /\ clone # "unborn"
        /\ clone' = CheckedOut.state /\ tree' = CheckedOut.tree
        /\ Goto("link") /\ UNCHANGED <<error, local, whole>>
     \/ GitFails
  /\ UNCHANGED <<spec, job, goal, url, manifest, forgevars, session, bounds>>

\* link_branch_to_issue creates the branch at the forge, if it can: its errors
\* are ignored.
LinkBranch ==
  /\ pc = "link"
  /\ \/ /\ spec.links /\ ~ remote.exists /\ local = <<>>
        /\ remote' = [exists |-> TRUE, commits |-> <<>>]
     \/ UNCHANGED remote
  /\ Goto("first push")
  /\ UNCHANGED <<spec, job, worker, clonevars, requests, landed, session, bounds>>

\* The forge accepts what it can fast-forward to.
Accepts(commits) == ~ remote.exists \/ IsPrefix(remote.commits, commits)

\* push_with_token: git reports an error, or the call takes too long, whether or
\* not the push has arrived.
Push(next) ==
  /\ \/ /\ Accepts(local)
        /\ remote' = [exists |-> TRUE, commits |-> local]
        /\ landed' = landed \cup All(local)
     \/ UNCHANGED <<remote, landed>>
  /\ \/ Accepts(local) /\ remote'.exists /\ remote'.commits = local /\ Goto(next) /\ UNCHANGED error
     \/ \E e \in {"refused", "rejected", "fatal"} : Raises(e)
  /\ UNCHANGED <<spec, job, goal, url, manifest, clonevars, requests, session, bounds>>

PushFirst == pc = "first push" /\ Push("save branch")

\* Faulty variant of SaveBranch: the publication is replaced.
SaveBranchOver ==
  /\ pc = "save branch"
  /\ job' = [job EXCEPT !.publication = [sha |-> local, url |-> 0]]
  /\ Goto("agent")
  /\ UNCHANGED <<spec, worker, clonevars, forgevars, session, bounds>>

\* The branch and its commit are added to what the job knows of its publication.
SaveBranch ==
  /\ pc = "save branch"
  /\ job' = [job EXCEPT !.publication.sha = local]
  /\ Goto("agent")
  /\ UNCHANGED <<spec, worker, clonevars, forgevars, session, bounds>>

-----------------------------------------------------------------------------
(* The agent, and _apply_result *)

Unended == {"open", "implemented"}

AgentEdits ==
  /\ pc = "agent" /\ session \in Unended
  /\ \E e \in Edits : tree' = tree \cup {e} \/ tree' = tree \ {e}
  /\ UNCHANGED <<spec, job, pc, worker, clone, local, whole, forgevars, session, bounds>>

\* The run ends; a session that is over says again how it ended.
AgentEnds ==
  /\ pc = "agent"
  /\ session' \in IF session \in Unended THEN {session, "implemented", "completed", "failed"}
                                         ELSE {session}
  /\ Goto("result")
  /\ UNCHANGED <<spec, job, worker, clonevars, forgevars, bounds>>

AgentRaises ==
  /\ pc = "agent"
  /\ \E e \in {"transient", "fatal"} : Raises(e)
  /\ UNCHANGED <<spec, job, goal, url, manifest, clonevars, forgevars, session, bounds>>

\* A paused run that asks a human completes the job; another one pauses it, or
\* has a draft published first if its implementation is done.
Conclude ==
  /\ pc = "result"
  /\ \/ session = "open" /\ Saved("paused")
     \/ session \in Unended /\ Saved("completed")
     \/ session = "failed" /\ Saved("failed")
  /\ Goto("cleanup")
  /\ UNCHANGED <<spec, worker, clonevars, forgevars, session, bounds>>

StartPublish ==
  /\ pc = "result" /\ session \in {"implemented", "completed"}
  /\ Saved("publishing")
  /\ goal' = IF session = "completed" THEN "completed" ELSE "paused"
  /\ Goto("checks")
  /\ UNCHANGED <<spec, error, url, manifest, clonevars, forgevars, session, bounds>>

-----------------------------------------------------------------------------
(* PublicationController.publish *)

\* The syntax gate and the default gates look at the changes since HEAD, the
\* required checks at the whole tree; a gate whose tool is missing is skipped.
ChecksPass ==
  /\ clone # "unborn"
  /\ tree \cap Unparsed \subseteq Unseen
  /\ HasChecks => (tree \cup All(local)) \cap Failing = {}

\* A gate that fails, or cannot be run, refuses the publication as git does.
RunChecks ==
  /\ pc = "checks"
  /\ \/ /\ ChecksPass /\ Goto("commit")
        /\ tree' \in IF ChecksWrite THEN SUBSET Edits ELSE {tree}
        /\ UNCHANGED <<error, clone, local, whole>>
     \/ GitFails
  /\ UNCHANGED <<spec, job, goal, url, manifest, forgevars, session, bounds>>

WithinLimits(edits, limits) ==
  /\ MapThenSumSet(LAMBDA e : Size[e].files, edits) <= limits.files
  /\ MapThenSumSet(LAMBDA e : Size[e].lines, edits) <= limits.lines

\* The paths that the policy allows; files that are missing include the manifest.
PathsAllowed(edits) ==
  /\ edits \cap Protected = {} /\ ~ (spec.manifest = "protected" /\ Emptied \in edits)
  /\ manifest => edits \cap Denied = {}

\* Faulty variant of WithinPolicy: nobody counts files and lines.
WithinPolicyPaths(edits) == PathsAllowed(edits)

\* _enforce_diff
WithinPolicy(edits) ==
  PathsAllowed(edits) /\ WithinLimits(edits, IF manifest THEN Limits ELSE DefaultLimits)

\* Faulty variant of Commit: no staged change means that there is nothing to publish.
CommitStagedOnly ==
  /\ pc = "commit"
  /\ \/ /\ clone # "locked" /\ clone' = "full" /\ tree' = {}
        /\ \/ /\ CheckedOut.tree # {} /\ WithinPolicy(CheckedOut.tree)
              /\ local' = Append(local, CheckedOut.tree) /\ Goto("push")
           \/ CheckedOut.tree = {} /\ Goto("settle") /\ UNCHANGED local
        /\ UNCHANGED <<error, whole>>
     \/ GitFails
  /\ UNCHANGED <<spec, job, goal, url, manifest, forgevars, session, bounds>>

\* The branch is checked out once the base is known, which a locked index refuses,
\* everything is staged and, if it is within the limits, committed.  With nothing
\* staged the commits that are there are looked at; without any there is nothing to
\* publish.  Each git command may fail.
Commit ==
  /\ pc = "commit"
  /\ \/ /\ clone # "locked" /\ clone' = "full" /\ tree' = {}
        /\ \/ /\ CheckedOut.tree # {} /\ WithinPolicy(CheckedOut.tree)
              /\ local' = Append(local, CheckedOut.tree) /\ Goto("push")
           \/ /\ CheckedOut.tree = {} /\ local # <<>> /\ WithinPolicy(All(local))
              /\ Goto("push") /\ UNCHANGED local
           \/ CheckedOut.tree = {} /\ local = <<>> /\ Goto("settle") /\ UNCHANGED local
        /\ UNCHANGED <<error, whole>>
     \/ GitFails
  /\ UNCHANGED <<spec, job, goal, url, manifest, forgevars, session, bounds>>

PushBranch == pc = "push" /\ Push(IF spec.opens THEN "lookup" ELSE "settle")

OpenOnes == {i \in DOMAIN requests : requests[i] = "open"}

\* Faulty variant of Lookup: nobody asks whether there is one.
LookupSkipped ==
  /\ pc = "lookup"
  /\ Goto("create")
  /\ UNCHANGED <<spec, job, worker, clonevars, forgevars, session, bounds>>

\* open_change_request asks for one that is open, ...
Lookup ==
  /\ pc = "lookup"
  /\ \/ /\ \E i \in OpenOnes : url' = i /\ \A j \in OpenOnes : i <= j
        /\ Goto("settle") /\ UNCHANGED error
     \/ OpenOnes = {} /\ Goto("create") /\ UNCHANGED <<url, error>>
     \/ (\E e \in RequestErrors : Raises(e)) /\ UNCHANGED url
  /\ UNCHANGED <<spec, job, goal, manifest, clonevars, forgevars, session, bounds>>

\* ... and creates one otherwise, which the forge refuses for a branch that has
\* gone or has nothing new.  The answer may be lost, or name no URL.
Create ==
  /\ pc = "create"
  /\ \/ /\ remote.exists
        /\ requests' = Append(requests, "open")
        /\ \/ url' = Len(requests') /\ Goto("settle") /\ UNCHANGED error
           \/ (\E e \in {"refused"} \cup RequestErrors : Raises(e)) /\ UNCHANGED url
     \/ (\E e \in RequestErrors : Raises(e)) /\ UNCHANGED <<requests, url>>
  /\ UNCHANGED <<spec, job, goal, manifest, clonevars, remote, landed, session, bounds>>

\* _apply_result saves the publication with the status.
Settle ==
  /\ pc = "settle"
  /\ job' = [job EXCEPT !.status = goal,
               !.publication = IF error = "none" THEN [sha |-> local, url |-> url] ELSE @]
  /\ Goto("cleanup")
  /\ UNCHANGED <<spec, worker, clonevars, forgevars, session, bounds>>

HandleFailure ==
  /\ pc = "failing"
  /\ Saved(IF error \in {"transient", "rejected"} THEN ReclaimStatus(job, MaxAttempts)
                                                  ELSE "failed")
  /\ Goto("cleanup")
  /\ UNCHANGED <<spec, worker, clonevars, forgevars, session, bounds>>

\* The worker has left the job, and nothing of it is in its memory.
Forgotten == goal' = "none" /\ error' = "none" /\ url' = 0 /\ manifest' = FALSE

\* Faulty variant of Cleanup: the clone of a job that is not completed goes too.
CleanupAlways ==
  /\ pc = "cleanup"
  /\ Cloned("none") /\ Goto("idle") /\ Forgotten
  /\ UNCHANGED <<spec, job, forgevars, session, bounds>>

Cleanup ==
  /\ pc = "cleanup"
  /\ IF job.status = "completed" THEN Cloned("none") ELSE UNCHANGED clonevars
  /\ Goto("idle") /\ Forgotten
  /\ UNCHANGED <<spec, job, forgevars, session, bounds>>

-----------------------------------------------------------------------------
(* The rest of the world *)

\* The worker dies.  In git clone it leaves anything, in a command that writes
\* the index possibly its lock.
Crash ==
  /\ pc # "idle"
  /\ \/ pc = "clone" /\ clone = "none" /\ (\E s \in {"full"} \cup Unfinished : Cloned(s))
     \/ pc \in {"branch", "checks", "commit"} /\ Interrupted
     \/ UNCHANGED clonevars
  /\ Goto("idle") /\ Forgotten
  /\ UNCHANGED <<spec, job, forgevars, session, bounds>>

\* The lease of a worker that died lapses.
Reclaim ==
  /\ pc = "idle" /\ job.status \in Active
  /\ Saved(ReclaimStatus(job, MaxAttempts))
  /\ UNCHANGED <<spec, pc, worker, clonevars, forgevars, session, bounds>>

Resume ==
  /\ pc = "idle" /\ job.status \in {"paused", "failed"}
  /\ resumes < MaxResumes /\ resumes' = resumes + 1
  /\ Saved("queued")
  /\ UNCHANGED <<spec, pc, worker, clonevars, forgevars, session, touches>>

Touch ==
  /\ touches < MaxTouches /\ touches' = touches + 1
  /\ UNCHANGED <<spec, job, pc, worker, clonevars, session, resumes>>

\* Somebody merges or closes a change request, and may remove its branch.
HumanEnds ==
  /\ Touch
  /\ \E i \in OpenOnes : requests' = [requests EXCEPT ![i] = "over"]
  /\ remote' \in {remote, [exists |-> FALSE, commits |-> <<>>]}
  /\ UNCHANGED landed

HumanPushes ==
  /\ Touch
  /\ remote.exists
  /\ remote' = [remote EXCEPT !.commits = Append(@, {ByHuman})]
  /\ UNCHANGED <<requests, landed>>

-----------------------------------------------------------------------------
PublicationInit ==
  /\ spec \in Specs
  /\ job = [status |-> "queued", attempt |-> 0, publication |-> [sha |-> <<>>, url |-> 0]]
  /\ pc = "idle" /\ goal = "none" /\ error = "none" /\ url = 0 /\ manifest = FALSE
  /\ clone = "none" /\ tree = {} /\ local = <<>> /\ whole = FALSE
  /\ remote = [exists |-> FALSE, commits |-> <<>>]
  /\ requests = <<>> /\ landed = {}
  /\ session = "open"
  /\ touches = 0 /\ resumes = 0

PublicationNext ==
  \/ Claim \/ Prepare \/ Configure \/ MakeBranch \/ LinkBranch \/ PushFirst \/ SaveBranch
  \/ AgentEdits \/ AgentEnds \/ AgentRaises \/ Conclude \/ StartPublish
  \/ RunChecks \/ Commit \/ PushBranch \/ Lookup \/ Create \/ Settle
  \/ HandleFailure \/ Cleanup
  \/ Crash \/ Reclaim \/ Resume \/ HumanEnds \/ HumanPushes

PublicationSpec == PublicationInit /\ [][PublicationNext]_pubvars

-----------------------------------------------------------------------------
(* Properties *)

Histories == Seq(SUBSET (Content \cup {ByHuman}))
JobType == [status : Statuses, attempt : Nat, publication : [sha : Histories, url : Nat]]
RemoteType == [exists : BOOLEAN, commits : Histories]

Publishing == {"checks", "commit", "push", "lookup", "create", "settle"}
Places == Publishing \cup {"idle", "clone", "config", "branch", "link", "first push",
                          "save branch", "agent", "result", "failing", "cleanup"}
CloneStates == {"none", "full", "branched", "staged"} \cup Unfinished

\* Type invariant.
PublicationTypeOK ==
  /\ spec \in Specs
  /\ job \in JobType
  /\ pc \in Places
  /\ goal \in {"completed", "paused"} \cup IF pc \in Publishing THEN {} ELSE {"none"}
  /\ error \in {"none", "refused", "rejected", "transient", "fatal"}
  /\ url \in Nat /\ manifest \in BOOLEAN
  /\ clone \in CloneStates /\ tree \subseteq Content /\ local \in Histories /\ whole \in BOOLEAN
  /\ remote \in RemoteType
  /\ requests \in Seq({"open", "over"})
  /\ landed \subseteq Content \cup {ByHuman}
  /\ session \in Unended \cup {"completed", "failed"}
  /\ touches \in Nat /\ resumes \in Nat

\* However often the publication is cut off and repeated, and whatever answers
\* of the forge are lost, the branch never has two open change requests.
OneOpenRequest == Cardinality(OpenOnes) <= 1

\* What a commit of the service may be.  No path that is protected is in it, and it is
\* within a limit.  Unless the checks themselves write, its Python parses where the
\* gate looks.  A labeled job, or one with a protected manifest, never commits the
\* files that a clone lacks as deleted.  From a clone that was not cut off, it is
\* within the policy of the repository, and passed the checks asked for.
Sound(commit) ==
  /\ commit \cap Protected = {}
  /\ WithinLimits(commit, Limits) \/ WithinLimits(commit, DefaultLimits)
  /\ spec.checks # "writing" => commit \cap Unparsed \subseteq Unseen
  /\ spec.labeled \/ spec.manifest = "protected" \/ whole => Emptied \notin commit
  /\ whole => /\ spec.manifest # "none" => commit \cap Denied = {} /\ WithinLimits(commit, Limits)
              /\ spec.manifest = "none" => WithinLimits(commit, DefaultLimits)
              /\ spec.checks = "pure" => commit \cap Failing = {}

\* Whatever the service adds to the branch is sound, whichever attempt has made it
\* and though an attempt may find the clone of another that was cut off.
PushedIsSound ==
  [][\A c \in Range(remote'.commits) \ Range(remote.commits) : c = {ByHuman} \/ Sound(c)]_pubvars

\* As long as nobody else touches the branch, no attempt is refused because of
\* what an earlier one has pushed or linked.
RetriesFastForward == job.status # "completed" /\ touches = 0 => Accepts(local)

\* A publication that completes the job has delivered all the work: nothing is
\* left uncommitted, every commit has been on the branch at the forge, and there
\* has been a change request for them, which the job names.
DeliveredWhenCompleted ==
  [][job.status = "publishing" /\ job'.status = "completed" =>
       /\ tree = {} /\ All(local) \subseteq landed
       /\ job'.publication.sha = local
       /\ spec.opens /\ local # <<>> => job'.publication.url # 0]_pubvars

\* A change request that the job names is not forgotten by a later attempt,
\* which prepares the branch again.
RequestRemembered ==
  [][job.publication.url # 0 => job'.publication.url # 0]_pubvars
=============================================================================
