-------------------------- MODULE PublicationProofs -------------------------
(***************************************************************************)
(* Proofs about Publication, for any edits, limits, attempts and numbers   *)
(* of things that people do to the branch.  The last part is about the     *)
(* patches of the agent, with the theorems of PatchProofs.                 *)
(***************************************************************************)
EXTENDS MCPublication, PatchProofs, FiniteSetTheorems, SequenceTheorems, TLAPS

-----------------------------------------------------------------------------
(* Sequences of commits *)

LEMMA RangeAppend ==
  ASSUME NEW S, NEW s \in Seq(S), NEW e \in S
  PROVE  Range(Append(s, e)) = Range(s) \cup {e}
<1> DEFINE t == Append(s, e)
<1>1. /\ t \in Seq(S) /\ Len(t) = Len(s) + 1 /\ t[Len(s) + 1] = e
      /\ \A i \in 1 .. Len(s) : t[i] = s[i]
  BY AppendProperties
<1>2. DOMAIN t = 1 .. (Len(s) + 1) /\ DOMAIN s = 1 .. Len(s) /\ Len(s) \in Nat
  BY <1>1, LenProperties
<1> HIDE DEF t
<1>3. 1 .. (Len(s) + 1) = (1 .. Len(s)) \cup {Len(s) + 1}
  BY <1>2
<1>4. \A x : x \in Range(t) <=> \E i \in DOMAIN t : x = t[i]
  BY DEF Range
<1>5. \A x : x \in Range(s) <=> \E i \in DOMAIN s : x = s[i]
  BY DEF Range
<1>6. \A x : x \in Range(t) <=> x \in Range(s) \cup {e}
  BY <1>1, <1>2, <1>3, <1>4, <1>5
<1>7. QED
  BY <1>6 DEF t

LEMMA HistoryAppend ==
  ASSUME NEW h \in Histories, NEW e \in SUBSET (Content \cup {ByHuman})
  PROVE  Append(h, e) \in Histories /\ Range(Append(h, e)) = Range(h) \cup {e}
BY RangeAppend, AppendProperties DEF Histories

LEMMA RangeEmpty == Range(<<>>) = {}
BY DEF Range

LEMMA PrefixSelf == \A s : Len(s) \in Nat => IsPrefix(s, s)
BY DEF IsPrefix

LEMMA PrefixEmpty ==
  ASSUME NEW S, NEW t \in Seq(S)
  PROVE  IsPrefix(<<>>, t)
<1>1. SubSeq(<<>>, 1, 0) = <<>> /\ SubSeq(t, 1, 0) = <<>>
  BY SubSeqEmpty
<1>2. Len(<<>>) = 0 /\ Len(t) \in Nat
  BY LenProperties, EmptySeq
<1>3. QED
  BY <1>1, <1>2 DEF IsPrefix

LEMMA PrefixAppend ==
  ASSUME NEW S, NEW s \in Seq(S), NEW t \in Seq(S), NEW e \in S, IsPrefix(s, t)
  PROVE  IsPrefix(s, Append(t, e))
<1>1. Len(s) \in Nat /\ Len(t) \in Nat /\ Len(s) <= Len(t)
      /\ SubSeq(s, 1, Len(s)) = SubSeq(t, 1, Len(s))
  BY LenProperties DEF IsPrefix
<1>2. Len(Append(t, e)) = Len(t) + 1
  BY AppendProperties
<1>3. SubSeq(Append(t, e), 1, Len(s)) = SubSeq(t, 1, Len(s))
  <2>1. CASE Len(s) = 0
    BY <2>1, SubSeqEmpty
  <2>2. CASE Len(s) # 0
    <3>1. Append(t, e) = t \o <<e>> /\ <<e>> \in Seq(S)
      BY AppendIsConcat
    <3>2. 1 \in 1 .. Len(t) /\ Len(s) \in 1 .. Len(t)
      BY <1>1, <2>2
    <3>3. SubSeq(t \o <<e>>, 1, Len(s)) = SubSeq(t, 1, Len(s))
      BY <3>1, <3>2, SubSeqOfConcat1
    <3>4. QED
      BY <3>1, <3>3
  <2>3. QED
    BY <2>1, <2>2
<1>4. QED
  BY <1>1, <1>2, <1>3 DEF IsPrefix

-----------------------------------------------------------------------------
(* Types *)

\* PublicationTypeOK holds at the start, and no step breaks it.
LEMMA PublicationTypeInit == PublicationInit => PublicationTypeOK
<1> SUFFICES ASSUME PublicationInit PROVE PublicationTypeOK
  OBVIOUS
<1> USE EmptySeq, PublicationAssumption
<1>1. job \in JobType
  BY DEF PublicationInit, Statuses, Histories, JobType
<1>2. remote \in RemoteType
  BY DEF PublicationInit, Histories, RemoteType
<1>3. QED
  BY <1>1, <1>2
  DEF PublicationInit, PublicationTypeOK, Histories, Places, Publishing, Unended, CloneStates

\* What the steps write has the types of what they read.
LEMMA UpdatesTyped ==
  ASSUME PublicationTypeOK
  PROVE  /\ \A s \in Statuses : [job EXCEPT !.status = s] \in JobType
         /\ [job EXCEPT !.status = "running", !.attempt = @ + 1] \in JobType
         /\ [job EXCEPT !.publication.sha = local] \in JobType
         /\ \A s \in Statuses, p \in [sha : Histories, url : Nat] :
              [job EXCEPT !.status = s, !.publication = p] \in JobType
         /\ job.publication \in [sha : Histories, url : Nat]
         /\ [exists |-> TRUE, commits |-> local] \in RemoteType
         /\ \A e \in BOOLEAN : [exists |-> e, commits |-> <<>>] \in RemoteType
         /\ [remote EXCEPT !.commits = Append(@, {ByHuman})] \in RemoteType
         /\ All(local) \subseteq Content \cup {ByHuman}
         /\ ReclaimStatus(job, MaxAttempts) \in Statuses
<1>1. "running" \in Statuses
  BY DEF Statuses
<1>2. job \in JobType /\ local \in Histories /\ remote \in RemoteType
  BY DEF PublicationTypeOK
<1>3. <<>> \in Histories /\ \A h \in Histories : Append(h, {ByHuman}) \in Histories
  BY EmptySeq, AppendProperties DEF Histories
<1>4. \A i \in DOMAIN local : local[i] \subseteq Content \cup {ByHuman}
  BY <1>2, ElementOfSeq, LenProperties DEF Histories
<1>5. All(local) \subseteq Content \cup {ByHuman}
  BY <1>4 DEF All, Range
<1>6. ReclaimStatus(job, MaxAttempts) \in Statuses
  BY DEF ReclaimStatus, Statuses
<1>7. [job EXCEPT !.publication.sha = local] \in JobType
  BY <1>2 DEF JobType
<1>8. \A s \in Statuses : [job EXCEPT !.status = s] \in JobType
  BY <1>2 DEF JobType
<1>9. job.publication \in [sha : Histories, url : Nat] /\ job.attempt + 1 \in Nat
  BY <1>2 DEF JobType
<1>10. \A s \in Statuses, p \in [sha : Histories, url : Nat] :
         [job EXCEPT !.status = s, !.publication = p] \in JobType
  BY <1>2 DEF JobType
<1>11. \A s \in Statuses, n \in Nat : [job EXCEPT !.status = s, !.attempt = n] \in JobType
  BY <1>2 DEF JobType
<1>12. [job EXCEPT !.status = "running", !.attempt = job.attempt + 1] \in JobType
  BY <1>1, <1>9, <1>11
<1>13. /\ [exists |-> TRUE, commits |-> local] \in RemoteType
      /\ \A e \in BOOLEAN : [exists |-> e, commits |-> <<>>] \in RemoteType
      /\ [remote EXCEPT !.commits = Append(@, {ByHuman})] \in RemoteType
  BY <1>2, <1>3 DEF RemoteType
<1>14. QED
  BY <1>5, <1>6, <1>7, <1>8, <1>9, <1>10, <1>12, <1>13

\* A step that was broken off has not removed the clone, and has staged only what
\* its checkout has left out.
LEMMA PartlyIs ==
  ASSUME PublicationTypeOK, NEW part \in Partly
  PROVE  /\ part.state \in CloneStates /\ part.tree \subseteq Content
         /\ part.state = "none" <=> clone = "none"
         /\ part = CheckedOut \/ part.state = clone \/ (clone = "bare" /\ part.state = "staged")
BY DEF Partly, CheckedOut, PublicationTypeOK, CloneStates, Unfinished, Content

LEMMA CheckedOutIs ==
  ASSUME PublicationTypeOK
  PROVE  /\ CheckedOut.state \in CloneStates /\ CheckedOut.tree \subseteq tree
         /\ CheckedOut.state = "none" <=> clone = "none"
         /\ clone \notin {"bare", "branched"} =>
              CheckedOut.state = clone /\ CheckedOut.tree = tree
         /\ clone = "bare" => CheckedOut.state = "branched" /\ CheckedOut.tree = tree
         /\ clone = "branched" => CheckedOut.state = "full" /\ CheckedOut.tree = tree \ {Emptied}
BY DEF CheckedOut, PublicationTypeOK, CloneStates, Unfinished

\* What a failed or killed git command does to the clone.
LEMMA GitBreaksOff ==
  ASSUME PublicationTypeOK, Interrupted \/ GitFails
  PROVE  /\ clone' \in CloneStates /\ tree' \subseteq Content
         /\ clone' = "none" => clone = "none"
         /\ UNCHANGED <<local, whole>>
         /\ \E part \in Partly : tree' = part.tree /\ clone' \in {part.state, "locked"}
<1>1. UNCHANGED <<local, whole>>
  BY DEF Interrupted, GitFails
<1>2. PICK part \in Partly : tree' = part.tree /\ clone' \in {part.state, "locked"}
  BY DEF Interrupted, GitFails
<1>3. "locked" \in CloneStates
  BY DEF CloneStates, Unfinished
<1>4. QED
  BY <1>1, <1>2, <1>3, PartlyIs

LEMMA GitFailsIs ==
  ASSUME PublicationTypeOK, GitFails
  PROVE  /\ error' \in {"refused", "fatal"} /\ pc' \in {"settle", "failing"}
         /\ pc' = "settle" => goal = "paused"
         /\ clone' \in CloneStates /\ tree' \subseteq Content
         /\ clone' = "none" => clone = "none"
         /\ UNCHANGED <<local, whole>>
<1>1. error' \in {"refused", "fatal"} /\ pc' \in {"settle", "failing"}
      /\ (pc' = "settle" => goal = "paused")
  BY DEF GitFails, Raises, Goto
<1>2. QED
  BY <1>1, GitBreaksOff

\* What a commit leaves if no command of it fails.
LEMMA CommitIs ==
  ASSUME PublicationTypeOK, Commit
  PROVE  \/ GitFails
         \/ /\ clone' = "full" /\ tree' = {} /\ UNCHANGED <<error, whole>>
            /\ \/ local' = Append(local, CheckedOut.tree) /\ pc' = "push"
               \/ local' = local /\ local # <<>> /\ pc' = "push"
               \/ local' = local /\ local = <<>> /\ pc' = "settle"
BY DEF Commit, Goto

\* The clones that Prepare, Cleanup and Crash may leave.
LEMMA ClonedIs ==
  ASSUME PublicationTypeOK, NEW state \in {"none", "full"} \cup Unfinished, Cloned(state)
  PROVE  /\ clone' = state /\ state \in CloneStates /\ tree' \subseteq Content
         /\ local' = <<>> /\ local' \in Histories /\ whole' \in BOOLEAN
BY EmptySeq DEF Cloned, CloneStates, Content, Histories

LEMMA PublicationTypeStep ==
  PublicationTypeOK /\ [PublicationNext]_pubvars => PublicationTypeOK'
<1> SUFFICES ASSUME PublicationTypeOK, [PublicationNext]_pubvars
             PROVE  PublicationTypeOK'
  OBVIOUS
<1>1. requests \in Seq({"open", "over"})
  BY DEF PublicationTypeOK
<1>2. DOMAIN requests = 1 .. Len(requests) /\ Len(requests) \in Nat
  BY <1>1, LenProperties
<1>3. Append(requests, "open") \in Seq({"open", "over"})
  BY <1>1, AppendProperties
<1>4. Len(Append(requests, "open")) = Len(requests) + 1
  BY <1>1, AppendProperties
<1>5. \A i \in DOMAIN requests :
         [requests EXCEPT ![i] = "over"] \in Seq({"open", "over"})
  BY <1>1, <1>2, ExceptSeq
<1> USE DEF PublicationTypeOK, Places, Publishing, Goto, Raises, worker, clonevars,
            forgevars, bounds
<1>6. url \in Nat /\ touches \in Nat /\ resumes \in Nat
  OBVIOUS
<1>7. CASE Claim
  BY <1>7, UpdatesTyped DEF Claim
<1>8. CASE Prepare
  BY <1>8, ClonedIs DEF Prepare, Unfinished
<1>9. CASE Configure
  BY <1>9 DEF Configure
<1>10. CASE MakeBranch
  BY <1>10, CheckedOutIs, GitFailsIs DEF MakeBranch
<1>11. CASE LinkBranch
  BY <1>11, UpdatesTyped DEF LinkBranch
<1>12. CASE PushFirst
  BY <1>12, UpdatesTyped DEF PushFirst, Push
<1>13. CASE SaveBranch
  BY <1>13, UpdatesTyped DEF SaveBranch
<1>14. CASE AgentEdits
  BY <1>14 DEF AgentEdits, Content
<1>15. CASE AgentEnds
  BY <1>15 DEF AgentEnds, Unended
<1>16. CASE AgentRaises
  BY <1>16 DEF AgentRaises
<1>17. CASE Conclude
  BY <1>17, UpdatesTyped DEF Conclude, Saved, Statuses
<1>18. CASE StartPublish
  BY <1>18, UpdatesTyped DEF StartPublish, Saved, Statuses
<1>19. CASE RunChecks
  <2>1. CASE GitFails
    BY <1>19, <2>1, GitFailsIs DEF RunChecks
  <2>2. CASE ~ GitFails
    BY <1>19, <2>2 DEF RunChecks, Content
  <2>3. QED
    BY <2>1, <2>2
<1>20. CASE Commit
  <2>1. Append(local, CheckedOut.tree) \in Histories
    <3>1. CheckedOut.tree \in SUBSET (Content \cup {ByHuman})
      BY CheckedOutIs
    <3>2. QED
      BY <3>1, AppendProperties DEF Histories
  <2>2. UNCHANGED <<spec, job, goal, url, manifest, remote, requests, landed, session>>
        /\ UNCHANGED <<touches, resumes>> /\ goal \in {"completed", "paused"}
    BY <1>20 DEF Commit
  <2>3. CASE GitFails
    BY <2>2, <2>3, GitFailsIs
  <2>4. CASE ~ GitFails
    BY <1>20, <2>1, <2>2, <2>4, CommitIs DEF CloneStates
  <2>5. QED
    BY <2>3, <2>4
<1>21. CASE PushBranch
  BY <1>21, UpdatesTyped DEF PushBranch, Push
<1>22. CASE Lookup
  <2>1. url' \in DOMAIN requests \cup {url}
    <3> HIDE DEF PublicationTypeOK
    <3>1. QED
      BY <1>22 DEF Lookup, OpenOnes
  <2>2. url' \in Nat
    <3> HIDE DEF PublicationTypeOK
    <3>1. QED
      BY <1>2, <1>6, <2>1
  <2>3. error' \in {"none", "refused", "rejected", "transient", "fatal"}
    <3>1. error' \in {error, "refused", "transient", "fatal"}
      BY <1>22 DEF Lookup, RequestErrors
    <3>2. QED
      BY <3>1
  <2>4. pc' \in Places /\ goal \in {"completed", "paused"}
    BY <1>22 DEF Lookup
  <2>5. QED
    BY <1>22, <2>2, <2>3, <2>4 DEF Lookup
<1>23. CASE Create
  <2>1. requests' \in Seq({"open", "over"})
    BY <1>3, <1>23 DEF Create
  <2>2. url' \in {url, Len(Append(requests, "open"))}
    <3> HIDE DEF PublicationTypeOK
    <3>1. QED
      BY <1>23 DEF Create
  <2>3. url' \in Nat
    <3> HIDE DEF PublicationTypeOK
    <3>1. QED
      BY <1>2, <1>4, <1>6, <2>2
  <2>4. error' \in {"none", "refused", "rejected", "transient", "fatal"}
    <3>1. error' \in {error, "refused", "transient", "fatal"}
      BY <1>23 DEF Create, RequestErrors
    <3>2. QED
      BY <3>1
  <2>5. pc' \in Places /\ goal \in {"completed", "paused"}
    BY <1>23 DEF Create
  <2>6. QED
    BY <1>23, <2>1, <2>3, <2>4, <2>5 DEF Create
<1>24. CASE Settle
  BY <1>24, UpdatesTyped DEF Settle, Statuses
<1>25. CASE HandleFailure
  BY <1>25, UpdatesTyped DEF HandleFailure, Saved, Statuses
<1>26. CASE Cleanup
  BY <1>26, ClonedIs DEF Cleanup, Forgotten
<1>27. CASE Crash
  <2>1. /\ clone' \in CloneStates /\ tree' \subseteq Content
        /\ local' \in Histories /\ whole' \in BOOLEAN
    BY <1>27, ClonedIs, GitBreaksOff DEF Crash
  <2>2. QED
    BY <1>27, <2>1 DEF Crash, Forgotten
<1>28. CASE Reclaim
  BY <1>28, UpdatesTyped DEF Reclaim, Saved
<1>29. CASE Resume
  <2>1. resumes' \in Nat
    BY <1>29 DEF Resume
  <2>2. job' \in JobType
    BY <1>29, UpdatesTyped DEF Resume, Saved, Statuses
  <2>3. QED
    BY <1>29, <2>1, <2>2 DEF Resume
<1>30. CASE HumanEnds
  <2>1. remote' \in RemoteType
    BY <1>30, UpdatesTyped DEF HumanEnds
  <2>2. requests' \in Seq({"open", "over"})
    BY <1>5, <1>30 DEF HumanEnds, OpenOnes
  <2>3. touches' \in Nat
    <3> HIDE DEF PublicationTypeOK
    <3>1. QED
      BY <1>6, <1>30 DEF HumanEnds, Touch
  <2>4. QED
    BY <1>30, <2>1, <2>2, <2>3 DEF HumanEnds, Touch
<1>31. CASE HumanPushes
  <2>1. touches' \in Nat
    <3> HIDE DEF PublicationTypeOK
    <3>1. QED
      BY <1>6, <1>31 DEF HumanPushes, Touch
  <2>2. remote' \in RemoteType
    BY <1>31, UpdatesTyped DEF HumanPushes
  <2>3. QED
    BY <1>31, <2>1, <2>2 DEF HumanPushes, Touch
<1>32. CASE UNCHANGED pubvars
  BY <1>32 DEF pubvars
<1>33. QED
  BY <1>7, <1>8, <1>9, <1>10, <1>11, <1>12, <1>13, <1>14, <1>15, <1>16, <1>17, <1>18, <1>19, <1>20,
     <1>21, <1>22, <1>23, <1>24, <1>25, <1>26, <1>27, <1>28, <1>29, <1>30, <1>31, <1>32
  DEF PublicationNext

-----------------------------------------------------------------------------
(* Where the worker is, and what it holds *)

\* What each update of the job leaves of it.
LEMMA JobUpdates ==
  ASSUME PublicationTypeOK
  PROVE  /\ \A s : /\ [job EXCEPT !.status = s].status = s
                   /\ [job EXCEPT !.status = s].publication = job.publication
         /\ [job EXCEPT !.status = "running", !.attempt = @ + 1].status = "running"
         /\ [job EXCEPT !.status = "running", !.attempt = @ + 1].publication = job.publication
         /\ [job EXCEPT !.publication.sha = local].status = job.status
         /\ [job EXCEPT !.publication.sha = local].publication.url = job.publication.url
         /\ \A s, p : /\ [job EXCEPT !.status = s, !.publication = p].status = s
                      /\ [job EXCEPT !.status = s, !.publication = p].publication = p
<1>1. job \in JobType
  BY DEF PublicationTypeOK
<1>2. DOMAIN job = {"status", "attempt", "publication"}
  BY <1>1 DEF JobType
<1>3. DOMAIN job.publication = {"sha", "url"}
  BY <1>1 DEF JobType
<1>4. QED
  BY <1>2, <1>3

Working == {"clone", "config", "branch", "link", "first push", "save branch", "agent", "result"}

\* The row says what the worker is doing, and only a publication that has not
\* failed can complete the job.
ControlInv ==
  /\ pc \in Working => job.status = "running"
  /\ pc \in Publishing => job.status = "publishing"
  /\ job.status = "completed" => pc \in {"idle", "cleanup"}
  /\ pc \in Working \cup {"idle"} => goal = "none"
  /\ pc \notin {"settle", "failing", "cleanup"} => error = "none"
  /\ pc = "settle" /\ goal = "completed" => error = "none"
  /\ pc \in (Working \ {"clone"}) \cup Publishing => clone # "none"
  /\ clone = "none" => local = <<>>

LEMMA ControlInit == PublicationInit => ControlInv
BY DEF PublicationInit, ControlInv, Working, Publishing

LEMMA ControlStep ==
  ASSUME PublicationTypeOK, ControlInv, [PublicationNext]_pubvars
  PROVE  ControlInv'
<1> USE DEF ControlInv, Working, Publishing, Goto, Raises, worker, clonevars, forgevars, bounds
<1>1. goal \in {"none", "completed", "paused"}
  BY DEF PublicationTypeOK
<1>2. CASE Claim
  BY <1>2, JobUpdates DEF Claim
<1>3. CASE Prepare
  BY <1>3 DEF Prepare, Cloned
<1>4. CASE Configure
  BY <1>4 DEF Configure
<1>5. CASE MakeBranch
  BY <1>5, CheckedOutIs, GitFailsIs DEF MakeBranch
<1>6. CASE LinkBranch
  BY <1>6 DEF LinkBranch
<1>7. CASE PushFirst
  BY <1>7 DEF PushFirst, Push
<1>8. CASE SaveBranch
  BY <1>8, JobUpdates DEF SaveBranch
<1>9. CASE AgentEdits
  BY <1>9 DEF AgentEdits
<1>10. CASE AgentEnds
  BY <1>10 DEF AgentEnds
<1>11. CASE AgentRaises
  BY <1>11 DEF AgentRaises
<1>12. CASE Conclude
  BY <1>12, JobUpdates DEF Conclude, Saved
<1>13. CASE StartPublish
  BY <1>13, JobUpdates DEF StartPublish, Saved
<1>14. CASE RunChecks
  BY <1>14, GitFailsIs DEF RunChecks
<1>15. CASE Commit
  <2>1. pc = "commit" /\ UNCHANGED <<job, goal>>
    BY <1>15 DEF Commit
  <2>2. QED
    BY <1>15, <2>1, CommitIs, GitFailsIs
<1>16. CASE PushBranch
  BY <1>16 DEF PushBranch, Push
<1>17. CASE Lookup
  BY <1>17 DEF Lookup, RequestErrors
<1>18. CASE Create
  BY <1>18 DEF Create, RequestErrors
<1>19. CASE Settle
  BY <1>19, JobUpdates DEF Settle
<1>20. CASE HandleFailure
  BY <1>20, JobUpdates DEF HandleFailure, Saved, ReclaimStatus
<1>21. CASE Cleanup
  BY <1>21 DEF Cleanup, Cloned, Forgotten
<1>22. CASE Crash
  <2>1. clone' = "none" => local' = <<>>
    BY <1>22, ClonedIs, GitBreaksOff DEF Crash
  <2>2. QED
    BY <1>22, <2>1 DEF Crash, Forgotten
<1>23. CASE Reclaim
  BY <1>23, JobUpdates DEF Reclaim, Saved, ReclaimStatus
<1>24. CASE Resume
  BY <1>24, JobUpdates DEF Resume, Saved
<1>25. CASE HumanEnds
  BY <1>25 DEF HumanEnds, Touch
<1>26. CASE HumanPushes
  BY <1>26 DEF HumanPushes, Touch
<1>27. CASE UNCHANGED pubvars
  BY <1>27 DEF pubvars
<1>28. QED
  BY <1>2, <1>3, <1>4, <1>5, <1>6, <1>7, <1>8, <1>9, <1>10, <1>11, <1>12, <1>13, <1>14, <1>15,
     <1>16, <1>17, <1>18, <1>19, <1>20, <1>21, <1>22, <1>23, <1>24, <1>25, <1>26, <1>27
  DEF PublicationNext

-----------------------------------------------------------------------------
(* What is pushed is sound *)

LocalSound == \A c \in Range(local) : Sound(c)

\* What is about to be committed has passed the gates.
TreeChecked ==
  pc = "commit" => /\ spec.checks # "writing" => tree \cap Unparsed \subseteq Unseen
                   /\ whole /\ spec.checks = "pure" => tree \cap Failing = {}

Configured ==
  Publishing \cup {"branch", "link", "first push", "save branch", "agent", "result"}

\* Files are missing only from a clone that was cut off and has not been filled since,
\* as the clone of a labeled job is before its work is committed; and in a clone that
\* was not cut off the manifest is found.
CloneInv ==
  /\ whole => clone \in {"full", "locked"}
  /\ Emptied \in tree => ~ whole /\ clone \in {"bare", "branched", "staged", "locked"}
  /\ whole /\ pc \in Configured => manifest = (spec.manifest # "none")
  /\ spec.labeled => clone # "staged" /\ (pc \in Configured \ {"branch"} => clone # "bare")

\* PushedIsSound does not follow by itself: what will be pushed must be sound.
SoundInv == LocalSound /\ TreeChecked /\ CloneInv

LEMMA SpecFixed == PublicationTypeOK /\ [PublicationNext]_pubvars => spec' = spec
BY DEF PublicationNext, Claim, Prepare, Configure, MakeBranch, LinkBranch, PushFirst, Push,
       SaveBranch, AgentEdits, AgentEnds, AgentRaises, Conclude, StartPublish, RunChecks, Commit,
       PushBranch, Lookup, Create, Settle, HandleFailure, Cleanup, Crash, Reclaim, Resume,
       HumanEnds, HumanPushes, Touch, pubvars

LEMMA SameSound ==
  ASSUME LocalSound, UNCHANGED <<spec, local, whole>>
  PROVE  LocalSound'
BY DEF LocalSound, Sound

LEMMA QuietSound ==
  ASSUME SoundInv, UNCHANGED <<spec, clonevars>>, pc' = "commit" => pc = "commit",
         pc' \in Configured => pc \in Configured /\ manifest' = manifest,
         pc' \in Configured \ {"branch"} => pc \in Configured \ {"branch"}
  PROVE  SoundInv'
<1>1. LocalSound'
  BY SameSound DEF SoundInv, clonevars
<1>2. TreeChecked' /\ CloneInv'
  BY DEF SoundInv, TreeChecked, CloneInv, clonevars
<1>3. QED
  BY <1>1, <1>2 DEF SoundInv

\* A clone made anew has no commits of its own.
LEMMA ClonedSound ==
  ASSUME SoundInv, spec' = spec, NEW state \in {"none", "full"} \cup Unfinished, Cloned(state),
         pc' \notin Configured
  PROVE  SoundInv'
<1>1. LocalSound'
  BY RangeEmpty DEF LocalSound, Cloned
<1>2. pc' # "commit"
  BY DEF Configured, Publishing
<1>3. Emptied \notin {}
  OBVIOUS
<1>4. CloneInv' /\ TreeChecked'
  BY <1>2 DEF CloneInv, Cloned, Unfinished, TreeChecked
<1>5. QED
  BY <1>1, <1>4 DEF SoundInv

\* A git command that fails leaves the files of the clone missing only as they were.
LEMMA BrokenOffSound ==
  ASSUME PublicationTypeOK, SoundInv, spec' = spec, Interrupted \/ GitFails,
         pc \in {"branch", "checks", "commit"},
         pc' \notin {"commit", "branch"},
         pc' \in Configured => pc \in Configured \ {"branch"} /\ manifest' = manifest
  PROVE  SoundInv'
<1>1. UNCHANGED <<local, whole>>
  BY GitBreaksOff
<1>2. LocalSound'
  BY <1>1, SameSound DEF SoundInv
<1>3. PICK part \in Partly : tree' = part.tree /\ clone' \in {part.state, "locked"}
  BY GitBreaksOff
<1>4. Emptied \notin Edits
  BY PublicationAssumption
<1>5. /\ part.state = "staged" => clone = "staged" \/ (clone = "bare" /\ pc = "commit")
      /\ part.state = "bare" => clone = "bare"
      /\ clone \in {"full", "locked"} => part.state = clone
      /\ Emptied \in part.tree =>
           Emptied \in tree /\ (clone \in {"bare", "branched", "staged", "locked"} =>
                                part.state \in {"bare", "branched", "staged", "locked"})
  BY <1>4 DEF Partly, CheckedOut
<1>6. pc = "commit" /\ spec.labeled => clone # "bare"
  BY DEF SoundInv, CloneInv, Configured, Publishing
<1>7. CloneInv'
  BY <1>1, <1>3, <1>5, <1>6 DEF SoundInv, CloneInv
<1>8. TreeChecked'
  BY DEF TreeChecked
<1>9. QED
  BY <1>2, <1>7, <1>8 DEF SoundInv

\* _enforce_diff refuses what is not within the limits, and the gates have looked.
LEMMA CommitIsSound ==
  ASSUME PublicationTypeOK, SoundInv, pc = "commit", clone # "locked",
         WithinPolicy(CheckedOut.tree)
  PROVE  Sound(CheckedOut.tree)
<1> DEFINE commit == CheckedOut.tree
<1>1. commit \subseteq tree
  BY CheckedOutIs
<1>2. commit \cap Protected = {} /\ ~ (spec.manifest = "protected" /\ Emptied \in commit)
  BY DEF WithinPolicy, PathsAllowed
<1>3. WithinLimits(commit, Limits) \/ WithinLimits(commit, DefaultLimits)
  BY DEF WithinPolicy
<1>4. spec.checks # "writing" => commit \cap Unparsed \subseteq Unseen
  BY <1>1 DEF SoundInv, TreeChecked
<1>5. whole => Emptied \notin commit
  BY <1>1 DEF SoundInv, CloneInv
<1>6. spec.labeled => Emptied \notin commit
  <2>1. spec.labeled => clone \notin {"staged", "bare", "locked"}
    BY DEF SoundInv, CloneInv, Configured, Publishing
  <2>2. CASE clone = "branched"
    BY <2>2, CheckedOutIs
  <2>3. CASE clone # "branched"
    BY <1>1, <2>1, <2>3 DEF SoundInv, CloneInv
  <2>4. QED
    BY <2>2, <2>3
<1>7. whole => manifest = (spec.manifest # "none")
  BY DEF SoundInv, CloneInv, Configured, Publishing
<1>8. whole => /\ spec.manifest # "none" => commit \cap Denied = {} /\ WithinLimits(commit, Limits)
               /\ spec.manifest = "none" => WithinLimits(commit, DefaultLimits)
  BY <1>7 DEF WithinPolicy, PathsAllowed
<1>9. whole => (spec.checks = "pure" => commit \cap Failing = {})
  BY <1>1 DEF SoundInv, TreeChecked
<1>10. QED
  BY <1>2, <1>3, <1>4, <1>5, <1>6, <1>8, <1>9 DEF Sound

LEMMA SoundInit == PublicationInit => SoundInv
BY RangeEmpty DEF PublicationInit, SoundInv, LocalSound, TreeChecked, CloneInv, Configured,
                  Publishing

LEMMA SoundStep ==
  ASSUME PublicationTypeOK, ControlInv, SoundInv, [PublicationNext]_pubvars
  PROVE  SoundInv'
<1>1. spec' = spec
  BY SpecFixed
<1> DEFINE Quiet ==
      /\ UNCHANGED clonevars /\ (pc' = "commit" => pc = "commit")
      /\ pc' \in Configured => pc \in Configured /\ manifest' = manifest
      /\ pc' \in Configured \ {"branch"} => pc \in Configured \ {"branch"}
<1>2. Quiet => SoundInv'
  BY <1>1, QuietSound
<1> HIDE DEF Quiet
<1> USE DEF Goto, Raises, worker, forgevars, bounds, Configured, Publishing
<1>3. CASE Claim \/ SaveBranch \/ AgentEnds \/ AgentRaises \/ Conclude \/ StartPublish
  BY <1>2, <1>3 DEF Claim, SaveBranch, AgentEnds, AgentRaises, Conclude, StartPublish, Quiet
<1>4. CASE Lookup \/ Create \/ Settle \/ HandleFailure \/ Reclaim \/ Resume
  BY <1>2, <1>4 DEF Lookup, Create, Settle, HandleFailure, Reclaim, Resume, Quiet
<1>5. CASE PushFirst \/ PushBranch \/ LinkBranch
  BY <1>2, <1>5 DEF PushFirst, PushBranch, Push, LinkBranch, Quiet
<1>6. CASE HumanEnds \/ HumanPushes \/ UNCHANGED pubvars
  BY <1>2, <1>6 DEF HumanEnds, HumanPushes, Touch, pubvars, Quiet
<1>7. CASE Configure
  <2>1. LocalSound' /\ TreeChecked'
    BY <1>1, <1>7, SameSound DEF Configure, SoundInv, TreeChecked, clonevars
  <2>2. whole => Emptied \notin tree \cup All(local)
    BY DEF SoundInv, CloneInv, LocalSound, Sound, All
  <2>3. whole => manifest' = (spec.manifest # "none")
    BY <1>7, <2>2 DEF Configure
  <2>4. spec.labeled => pc' \in {"branch", "failing"}
    BY <1>7 DEF Configure
  <2>5. CloneInv'
    BY <1>1, <1>7, <2>3, <2>4 DEF Configure, SoundInv, CloneInv, clonevars
  <2>6. QED
    BY <2>1, <2>5 DEF SoundInv
<1>8. CASE Prepare
  <2>1. CASE UNCHANGED clonevars /\ pc' = "config"
    BY <1>2, <1>8, <2>1 DEF Quiet
  <2>2. CASE \E state \in {"none", "full"} \cup Unfinished : Cloned(state)
    BY <1>1, <1>8, <2>2, ClonedSound DEF Prepare
  <2>3. QED
    BY <1>8, <2>1, <2>2 DEF Prepare
<1>9. CASE Cleanup
  <2>1. CASE UNCHANGED clonevars
    BY <1>2, <1>9, <2>1 DEF Cleanup, Quiet
  <2>2. CASE Cloned("none")
    BY <1>1, <1>9, <2>2, ClonedSound DEF Cleanup
  <2>3. QED
    BY <1>9, <2>1, <2>2 DEF Cleanup
<1>10. CASE Crash
  <2>1. CASE UNCHANGED clonevars
    BY <1>2, <1>10, <2>1 DEF Crash, Quiet
  <2>2. CASE \E state \in {"none", "full"} \cup Unfinished : Cloned(state)
    BY <1>1, <1>10, <2>2, ClonedSound DEF Crash
  <2>3. CASE pc \in {"branch", "checks", "commit"} /\ Interrupted
    BY <1>1, <1>10, <2>3, BrokenOffSound DEF Crash
  <2>4. QED
    BY <1>10, <2>1, <2>2, <2>3 DEF Crash
<1>11. CASE MakeBranch
  <2>1. CASE GitFails
    <3>1. pc = "branch" /\ goal = "none"
      BY <1>11 DEF MakeBranch, ControlInv, Working
    <3>2. pc' = "failing"
      BY <2>1, <3>1 DEF GitFails
    <3>3. QED
      BY <1>1, <2>1, <3>1, <3>2, BrokenOffSound
  <2>2. CASE clone' = CheckedOut.state /\ tree' = CheckedOut.tree /\ UNCHANGED <<local, whole>>
             /\ Goto("link")
    <3>1. LocalSound' /\ TreeChecked'
      BY <1>1, <2>2, SameSound DEF SoundInv, TreeChecked
    <3>2. CloneInv'
      BY <1>1, <1>11, <2>2, CheckedOutIs DEF MakeBranch, SoundInv, CloneInv
    <3>3. QED
      BY <3>1, <3>2 DEF SoundInv
  <2>3. QED
    BY <1>11, <2>1, <2>2 DEF MakeBranch
<1>12. CASE AgentEdits
  <2>1. LocalSound' /\ TreeChecked'
    BY <1>1, <1>12, SameSound DEF AgentEdits, SoundInv, TreeChecked
  <2>2. Emptied \in tree' => Emptied \in tree
    BY <1>12, PublicationAssumption DEF AgentEdits
  <2>3. QED
    BY <1>1, <1>12, <2>1, <2>2 DEF AgentEdits, SoundInv, CloneInv
<1>13. CASE RunChecks
  <2>1. CASE GitFails
    BY <1>1, <1>13, <2>1, BrokenOffSound DEF RunChecks, GitFails
  <2>2. CASE ~ GitFails
    <3>1. LocalSound'
      BY <1>1, <1>13, <2>2, SameSound DEF RunChecks, SoundInv
    <3>2. ChecksPass /\ pc = "checks" /\ whole' = whole /\ manifest' = manifest /\ clone' = clone
          /\ tree' \in (IF ChecksWrite THEN SUBSET Edits ELSE {tree}) /\ pc' = "commit"
      BY <1>13, <2>2 DEF RunChecks
    <3>3. spec.checks # "writing" => tree' = tree
      BY <3>2 DEF ChecksWrite
    <3>4. whole /\ spec.checks = "pure" => HasChecks
      <4>1. spec.checks = "pure" => spec.manifest # "none"
        BY PublicationAssumption DEF PublicationTypeOK
      <4>2. QED
        BY <3>2, <4>1 DEF HasChecks, SoundInv, CloneInv
    <3>5. TreeChecked'
      BY <1>1, <3>2, <3>3, <3>4 DEF ChecksPass, TreeChecked
    <3>6. Emptied \in tree' => Emptied \in tree
      BY <3>2, PublicationAssumption
    <3>7. CloneInv'
      BY <1>1, <3>2, <3>6 DEF SoundInv, CloneInv
    <3>8. QED
      BY <3>1, <3>5, <3>7 DEF SoundInv
  <2>3. QED
    BY <2>1, <2>2
<1>14. CASE Commit
  <2>1. CASE GitFails
    BY <1>1, <1>14, <2>1, BrokenOffSound DEF Commit, GitFails
  <2>2. CASE ~ GitFails
    <3>1. /\ pc = "commit" /\ clone # "locked" /\ clone' = "full" /\ tree' = {}
          /\ whole' = whole /\ manifest' = manifest /\ pc' \in {"push", "settle"}
      BY <1>14, <2>2 DEF Commit
    <3>2. CASE local' = local
      BY <1>1, <3>1, <3>2, SameSound DEF SoundInv, TreeChecked, CloneInv
    <3>3. CASE WithinPolicy(CheckedOut.tree) /\ local' = Append(local, CheckedOut.tree)
      <4>1. local \in Histories /\ CheckedOut.tree \in SUBSET (Content \cup {ByHuman})
        BY CheckedOutIs DEF PublicationTypeOK
      <4>2. Range(local') = Range(local) \cup {CheckedOut.tree}
        BY <3>3, <4>1, HistoryAppend
      <4>3. Sound(CheckedOut.tree)
        BY <3>1, <3>3, CommitIsSound
      <4>4. LocalSound'
        BY <1>1, <3>1, <4>2, <4>3 DEF SoundInv, LocalSound, Sound
      <4>5. QED
        BY <1>1, <3>1, <4>4 DEF SoundInv, TreeChecked, CloneInv
    <3>4. QED
      BY <1>14, <2>2, <3>2, <3>3 DEF Commit
  <2>3. QED
    BY <2>1, <2>2
<1>15. QED
  BY <1>3, <1>4, <1>5, <1>6, <1>7, <1>8, <1>9, <1>10, <1>11, <1>12, <1>13, <1>14
  DEF PublicationNext

\* What a step adds to the branch is a commit of the clone, or a person's.
LEMMA PushedIsLocal ==
  ASSUME PublicationTypeOK, [PublicationNext]_pubvars
  PROVE  Range(remote'.commits) \subseteq Range(remote.commits) \cup Range(local) \cup {{ByHuman}}
<1> USE DEF worker, clonevars, forgevars, bounds
<1>1. CASE remote' \in {remote, [exists |-> TRUE, commits |-> local]}
  BY <1>1
<1>2. CASE remote' \in {remote, [exists |-> TRUE, commits |-> <<>>],
                       [exists |-> FALSE, commits |-> <<>>]}
  BY <1>2, RangeEmpty
<1>3. CASE HumanPushes
  <2>1. remote.commits \in Histories /\ {ByHuman} \in SUBSET (Content \cup {ByHuman})
        /\ remote'.commits = Append(remote.commits, {ByHuman})
    BY <1>3 DEF HumanPushes, PublicationTypeOK, RemoteType
  <2>2. QED
    BY <2>1, HistoryAppend
<1>4. CASE LinkBranch \/ HumanEnds
  BY <1>2, <1>4 DEF LinkBranch, HumanEnds
<1>5. CASE PushFirst \/ PushBranch
  BY <1>1, <1>5 DEF PushFirst, PushBranch, Push
<1>6. QED
  BY <1>1, <1>3, <1>4, <1>5
  DEF PublicationNext, Claim, Prepare, Configure, MakeBranch, SaveBranch, AgentEdits, AgentEnds,
      AgentRaises, Conclude, StartPublish, RunChecks, Commit, Lookup, Create, Settle,
      HandleFailure, Cleanup, Crash, Reclaim, Resume, pubvars

-----------------------------------------------------------------------------
(* Change requests *)

\* Whoever is about to create a change request has seen that none is open.
RequestInv ==
  /\ \A i, j \in OpenOnes : i = j
  /\ pc = "create" => OpenOnes = {}

LEMMA RequestInit == PublicationInit => RequestInv
BY DEF PublicationInit, RequestInv, OpenOnes

LEMMA RequestStep ==
  ASSUME PublicationTypeOK, RequestInv, [PublicationNext]_pubvars
  PROVE  RequestInv'
<1>1. requests \in Seq({"open", "over"})
  BY DEF PublicationTypeOK
<1>2. DOMAIN requests = 1 .. Len(requests) /\ Len(requests) \in Nat
  BY <1>1, LenProperties
<1> USE DEF Goto, Raises, worker, clonevars, forgevars, bounds
<1>3. CASE UNCHANGED requests /\ (pc' = "create" => pc = "create")
  BY <1>3 DEF RequestInv, OpenOnes
<1>4. CASE Lookup
  BY <1>4 DEF Lookup, RequestInv, OpenOnes
<1>5. CASE Create
  <2>1. CASE UNCHANGED requests
    BY <1>3, <1>5, <2>1 DEF Create
  <2>2. CASE requests' = Append(requests, "open")
    <3>1. /\ requests' \in Seq({"open", "over"})
          /\ Len(requests') = Len(requests) + 1
          /\ \A i \in 1 .. Len(requests) : requests'[i] = requests[i]
      BY <1>1, <2>2, AppendProperties
    <3>2. DOMAIN requests' = 1 .. Len(requests')
      BY <3>1, LenProperties
    <3>3. OpenOnes = {}
      BY <1>5 DEF Create, RequestInv
    <3>4. \A i \in OpenOnes' : i = Len(requests) + 1
      BY <1>2, <3>1, <3>2, <3>3 DEF OpenOnes
    <3>5. pc' # "create"
      BY <1>5 DEF Create, RequestErrors
    <3>6. QED
      BY <3>4, <3>5 DEF RequestInv
  <2>3. QED
    BY <1>5, <2>1, <2>2 DEF Create
<1>6. CASE HumanEnds
  <2>1. PICK i \in OpenOnes : requests' = [requests EXCEPT ![i] = "over"]
    BY <1>6 DEF HumanEnds
  <2>2. OpenOnes' \subseteq OpenOnes
    BY <2>1 DEF OpenOnes
  <2>3. pc' = pc
    BY <1>6 DEF HumanEnds, Touch
  <2>4. QED
    BY <2>2, <2>3 DEF RequestInv
<1>7. CASE Claim \/ Prepare \/ Configure \/ MakeBranch \/ LinkBranch \/ PushFirst \/ SaveBranch
  BY <1>3, <1>7
  DEF Claim, Prepare, Configure, MakeBranch, GitFails, LinkBranch, PushFirst, Push, SaveBranch
<1>8. CASE AgentEdits \/ AgentEnds \/ AgentRaises \/ Conclude \/ StartPublish
  BY <1>3, <1>8 DEF AgentEdits, AgentEnds, AgentRaises, Conclude, StartPublish
<1>9. CASE RunChecks \/ Commit \/ Settle \/ HandleFailure \/ Cleanup
  BY <1>3, <1>9 DEF RunChecks, GitFails, Commit, Settle, HandleFailure, Cleanup
<1>10. CASE PushBranch
  BY <1>3, <1>10 DEF PushBranch, Push
<1>11. CASE Crash \/ Reclaim \/ Resume \/ HumanPushes \/ UNCHANGED pubvars
  BY <1>3, <1>11 DEF Crash, Reclaim, Resume, HumanPushes, Touch, pubvars
<1>12. QED
  BY <1>4, <1>5, <1>6, <1>7, <1>8, <1>9, <1>10, <1>11 DEF PublicationNext

\* Outside the few steps that set it, what the job knows of its publication is
\* what it was, and its commits are there as long as it is not completed.
NamedInv ==
  /\ pc \in {"push", "lookup", "create"} => local # <<>>
  /\ pc \in {"lookup", "create"} => spec.opens
  /\ url # 0 => spec.opens /\ local # <<>>
  /\ job.publication.url # 0 => spec.opens /\ (local # <<>> \/ job.status = "completed")
  /\ pc = "settle" /\ error = "none" /\ spec.opens /\ local # <<>> => url # 0

LEMMA NamedInit == PublicationInit => NamedInv
BY DEF PublicationInit, NamedInv

LEMMA NamedStep ==
  ASSUME PublicationTypeOK, ControlInv, NamedInv, [PublicationNext]_pubvars
  PROVE  NamedInv'
<1>1. requests \in Seq({"open", "over"})
  BY DEF PublicationTypeOK
<1>2. DOMAIN requests = 1 .. Len(requests) /\ Len(requests) \in Nat
  BY <1>1, LenProperties
<1>3. Append(local, CheckedOut.tree) # <<>>
  <2>1. local \in Histories /\ CheckedOut.tree \in SUBSET (Content \cup {ByHuman})
    BY CheckedOutIs DEF PublicationTypeOK
  <2>2. QED
    BY <2>1, AppendProperties DEF Histories
<1>4. Len(Append(requests, "open")) = Len(requests) + 1
  BY <1>1, AppendProperties
<1>5. goal \in {"none", "completed", "paused"}
  BY DEF PublicationTypeOK
<1>6. 0 \notin OpenOnes /\ Len(Append(requests, "open")) # 0
  BY <1>2, <1>4 DEF OpenOnes
<1> USE DEF NamedInv, ControlInv, Working, Publishing, Goto, Raises, worker, clonevars, forgevars,
            bounds
<1>7. CASE Claim
  BY <1>7, JobUpdates DEF Claim
<1>8. CASE Prepare
  BY <1>8 DEF Prepare, Cloned
<1>9. CASE Configure
  BY <1>9 DEF Configure
<1>10. CASE MakeBranch
  BY <1>10, GitFailsIs DEF MakeBranch
<1>11. CASE LinkBranch
  BY <1>11 DEF LinkBranch
<1>12. CASE PushFirst
  BY <1>12 DEF PushFirst, Push
<1>13. CASE SaveBranch
  BY <1>13, JobUpdates DEF SaveBranch
<1>14. CASE AgentEdits \/ AgentEnds \/ AgentRaises
  BY <1>14 DEF AgentEdits, AgentEnds, AgentRaises
<1>15. CASE Conclude
  <2>1. \E status : job' = [job EXCEPT !.status = status]
    BY <1>15 DEF Conclude, Saved
  <2>2. job'.publication = job.publication /\ job.status = "running"
    BY <1>15, <2>1, JobUpdates DEF Conclude
  <2>3. QED
    BY <1>15, <2>2 DEF Conclude
<1>16. CASE StartPublish
  BY <1>16, JobUpdates DEF StartPublish, Saved
<1>17. CASE RunChecks
  BY <1>17, GitFailsIs DEF RunChecks
<1>18. CASE Commit
  <2>1. UNCHANGED <<spec, job, goal, url>> /\ pc = "commit"
    BY <1>18 DEF Commit
  <2>2. QED
    BY <1>3, <1>18, <2>1, CommitIs, GitFailsIs
<1>19. CASE PushBranch
  BY <1>19 DEF PushBranch, Push
<1>20. CASE Lookup
  <2>1. pc' = "settle" /\ error' = "none" => url' \in OpenOnes
    BY <1>20 DEF Lookup, RequestErrors
  <2>2. QED
    BY <1>6, <1>20, <2>1 DEF Lookup, RequestErrors
<1>21. CASE Create
  BY <1>6, <1>21 DEF Create, RequestErrors
<1>22. CASE Settle
  BY <1>5, <1>22, JobUpdates DEF Settle
<1>23. CASE HandleFailure
  BY <1>23, JobUpdates DEF HandleFailure, Saved, ReclaimStatus
<1>24. CASE Cleanup
  BY <1>24 DEF Cleanup, Cloned, Forgotten
<1>25. CASE Crash
  <2>1. local' = local \/ clone = "none"
    BY <1>25, GitBreaksOff DEF Crash
  <2>2. QED
    BY <1>25, <2>1 DEF Crash, Forgotten
<1>26. CASE Reclaim
  BY <1>26, JobUpdates DEF Reclaim, Saved, ReclaimStatus, Active
<1>27. CASE Resume
  BY <1>27, JobUpdates DEF Resume, Saved
<1>28. CASE HumanEnds \/ HumanPushes
  BY <1>28 DEF HumanEnds, HumanPushes, Touch
<1>29. CASE UNCHANGED pubvars
  BY <1>29 DEF pubvars
<1>30. QED
  BY <1>7, <1>8, <1>9, <1>10, <1>11, <1>12, <1>13, <1>14, <1>15, <1>16, <1>17, <1>18, <1>19, <1>20,
     <1>21, <1>22, <1>23, <1>24, <1>25, <1>26, <1>27, <1>28, <1>29
  DEF PublicationNext

-----------------------------------------------------------------------------
(* Delivery *)

Delivering == pc \in {"lookup", "create"} \/ (pc = "settle" /\ error = "none")

\* Once the push has been acknowledged, the clone holds nothing that has not
\* been on the branch.
DeliveryInv ==
  /\ pc = "push" \/ Delivering => tree = {}
  /\ Delivering => All(local) \subseteq landed
  /\ ByHuman \notin All(local)
  /\ remote.exists => All(remote.commits) \subseteq landed \cup {ByHuman}

LEMMA AllEmpty == All(<<>>) = {}
BY RangeEmpty DEF All

LEMMA AllAppend ==
  ASSUME NEW h \in Histories, NEW e \in SUBSET (Content \cup {ByHuman})
  PROVE  All(Append(h, e)) = All(h) \cup e
BY HistoryAppend DEF All

LEMMA DeliveryInit == PublicationInit => DeliveryInv
BY AllEmpty DEF PublicationInit, DeliveryInv, Delivering

LEMMA PushDelivers ==
  ASSUME PublicationTypeOK, ControlInv, DeliveryInv, pc \in {"first push", "push"},
         NEW next, pc = "push" \/ next = "save branch", Push(next)
  PROVE  DeliveryInv'
<1>1. UNCHANGED <<tree, local>> /\ error = "none"
  BY DEF Push, clonevars, ControlInv
<1>2. \/ /\ remote' = [exists |-> TRUE, commits |-> local]
         /\ landed' = landed \cup All(local)
      \/ remote' = remote /\ landed' = landed
  BY DEF Push
<1>3. \/ landed' = landed \cup All(local) /\ remote'.commits = local
      \/ remote' = remote /\ landed' = landed
  <2> HIDE DEF All
  <2>1. [exists |-> TRUE, commits |-> local].commits = local
    OBVIOUS
  <2>2. QED
    BY <1>2, <2>1
<1>4. All(remote'.commits) \subseteq landed' \cup {ByHuman} \/ ~ remote'.exists
  BY <1>3 DEF DeliveryInv
<1>5. ASSUME Delivering' PROVE pc = "push" /\ remote'.exists /\ remote'.commits = local
  BY <1>1, <1>5 DEF Push, Delivering, Raises, Goto
<1>6. Delivering' => All(local) \subseteq landed'
  BY <1>4, <1>5 DEF DeliveryInv
<1>7. pc' # "push" \/ pc = "push"
  BY DEF Push, Raises, Goto
<1>8. QED
  BY <1>1, <1>4, <1>5, <1>6, <1>7 DEF DeliveryInv

LEMMA DeliveryStep ==
  ASSUME PublicationTypeOK, ControlInv, DeliveryInv, [PublicationNext]_pubvars
  PROVE  DeliveryInv'
<1> USE DEF Goto, Raises, worker, clonevars, forgevars, bounds
<1> DEFINE Elsewhere == pc' # "push" /\ ~ Delivering'
<1>1. ASSUME Elsewhere, UNCHANGED <<local, remote, landed>> PROVE DeliveryInv'
  BY <1>1 DEF DeliveryInv
<1>2. ASSUME Elsewhere, local' = <<>>, UNCHANGED <<remote, landed>> PROVE DeliveryInv'
  BY <1>2, AllEmpty DEF DeliveryInv
<1>3. CASE Claim \/ Configure \/ SaveBranch \/ AgentEdits \/ AgentEnds \/ AgentRaises
  BY <1>1, <1>3
  DEF Claim, Configure, SaveBranch, AgentEdits, AgentEnds, AgentRaises, Delivering
<1>4. CASE MakeBranch \/ Conclude \/ StartPublish \/ RunChecks
  BY <1>1, <1>4, GitFailsIs DEF MakeBranch, Conclude, StartPublish, RunChecks, Delivering
<1>5. CASE Settle \/ HandleFailure \/ Reclaim \/ Resume
  BY <1>1, <1>5 DEF Settle, HandleFailure, Reclaim, Resume, Delivering
<1>6. CASE Prepare
  BY <1>1, <1>2, <1>6 DEF Prepare, Cloned, Delivering
<1>7. CASE Cleanup
  BY <1>1, <1>2, <1>7 DEF Cleanup, Cloned, Delivering
<1>8. CASE Crash
  <2>1. local' \in {local, <<>>}
    BY <1>8, ClonedIs, GitBreaksOff DEF Crash
  <2>2. QED
    BY <1>1, <1>2, <1>8, <2>1 DEF Crash, Delivering
<1>9. CASE LinkBranch
  <2>1. Elsewhere /\ UNCHANGED <<local, landed>>
    BY <1>9 DEF LinkBranch, Delivering
  <2>2. CASE UNCHANGED remote
    BY <1>1, <2>1, <2>2
  <2>3. CASE remote' = [exists |-> TRUE, commits |-> <<>>]
    BY <2>1, <2>3, AllEmpty DEF DeliveryInv
  <2>4. QED
    BY <1>9, <2>2, <2>3 DEF LinkBranch
<1>10. CASE PushFirst
  BY <1>10, PushDelivers DEF PushFirst
<1>11. CASE PushBranch
  BY <1>11, PushDelivers DEF PushBranch
<1>12. CASE Commit
  <2>1. UNCHANGED <<remote, landed>> /\ pc = "commit"
    BY <1>12 DEF Commit
  <2>2. CASE local' = Append(local, CheckedOut.tree) /\ tree' = {} /\ pc' = "push"
    <3>1. CheckedOut.tree \subseteq Content
      BY CheckedOutIs DEF PublicationTypeOK
    <3>2. local \in Histories /\ CheckedOut.tree \in SUBSET (Content \cup {ByHuman})
          /\ ByHuman \notin CheckedOut.tree
      BY <3>1, PublicationAssumption DEF PublicationTypeOK, Content, Emptied, ByHuman
    <3>3. All(local') = All(local) \cup CheckedOut.tree
      BY <2>2, <3>2, AllAppend
    <3>4. QED
      BY <2>1, <2>2, <3>2, <3>3 DEF DeliveryInv, Delivering
  <2>3. CASE local' = local /\ tree' = {} /\ (pc' = "push" \/ (pc' = "settle" /\ local = <<>>))
    BY <2>1, <2>3, AllEmpty DEF DeliveryInv, Delivering
  <2>4. CASE GitFails
    BY <1>1, <2>1, <2>4, GitFailsIs DEF Delivering
  <2>5. QED
    BY <1>12, <2>2, <2>3, <2>4, CommitIs
<1>13. CASE Lookup \/ Create
  <2>1. UNCHANGED <<tree, local, remote, landed>> /\ Delivering
    BY <1>13 DEF Lookup, Create, Delivering
  <2>2. QED
    BY <2>1 DEF DeliveryInv
<1>14. CASE HumanEnds
  <2>1. UNCHANGED <<pc, error, tree, local, landed>>
    BY <1>14 DEF HumanEnds, Touch
  <2>2. remote' = remote \/ remote'.exists = FALSE
    BY <1>14 DEF HumanEnds
  <2>3. QED
    BY <2>1, <2>2 DEF DeliveryInv, Delivering
<1>15. CASE HumanPushes
  <2>1. UNCHANGED <<pc, error, tree, local, landed>>
    BY <1>15 DEF HumanPushes, Touch
  <2>2. remote.exists /\ remote.commits \in Histories
        /\ remote'.commits = Append(remote.commits, {ByHuman})
    BY <1>15 DEF HumanPushes, PublicationTypeOK, RemoteType
  <2>3. All(remote'.commits) = All(remote.commits) \cup {ByHuman}
    BY <2>2, AllAppend
  <2>4. QED
    BY <2>1, <2>2, <2>3 DEF DeliveryInv, Delivering
<1>16. CASE UNCHANGED pubvars
  BY <1>16 DEF pubvars, DeliveryInv, Delivering
<1>17. QED
  BY <1>3, <1>4, <1>5, <1>6, <1>7, <1>8, <1>9, <1>10, <1>11, <1>12, <1>13, <1>14, <1>15, <1>16
  DEF PublicationNext

-----------------------------------------------------------------------------
(* Retries *)

\* As long as nobody touches the branch, the clone is ahead of it.
ForwardInv ==
  job.status # "completed" /\ touches = 0 /\ remote.exists =>
    IsPrefix(remote.commits, local) /\ clone # "none"

LEMMA ForwardInit == PublicationInit => ForwardInv
BY DEF PublicationInit, ForwardInv

LEMMA CompletedStays ==
  ASSUME PublicationTypeOK, ControlInv, [PublicationNext]_pubvars, job.status = "completed"
  PROVE  job' = job
<1>1. pc \in {"idle", "cleanup"}
  BY DEF ControlInv
<1> USE DEF worker, clonevars, forgevars, bounds
<1>2. CASE pc = "idle"
  BY <1>2
  DEF PublicationNext, Claim, Prepare, Configure, MakeBranch, LinkBranch, PushFirst, SaveBranch,
      AgentEdits, AgentEnds, AgentRaises, Conclude, StartPublish, RunChecks, Commit, PushBranch,
      Lookup, Create, Settle, HandleFailure, Cleanup, Crash, Reclaim, Active, Resume, HumanEnds,
      HumanPushes, Touch, pubvars
<1>3. CASE pc = "cleanup"
  BY <1>3
  DEF PublicationNext, Claim, Prepare, Configure, MakeBranch, LinkBranch, PushFirst, SaveBranch,
      AgentEdits, AgentEnds, AgentRaises, Conclude, StartPublish, RunChecks, Commit, PushBranch,
      Lookup, Create, Settle, HandleFailure, Cleanup, Crash, Reclaim, Active, Resume, HumanEnds,
      HumanPushes, Touch, pubvars
<1>4. QED
  BY <1>1, <1>2, <1>3

LEMMA PushForwards ==
  ASSUME PublicationTypeOK, ControlInv, ForwardInv, pc \in {"first push", "push"},
         NEW next, Push(next)
  PROVE  ForwardInv'
<1>1. clone # "none" /\ clone' = clone /\ UNCHANGED <<job, local, touches>>
  BY DEF Push, clonevars, bounds, ControlInv, Working, Publishing
<1>2. remote' = [exists |-> TRUE, commits |-> local] \/ remote' = remote
  BY DEF Push
<1>3. IsPrefix(local, local)
  <2>1. Len(local) \in Nat
    BY LenProperties DEF PublicationTypeOK, Histories
  <2>2. QED
    BY <2>1, PrefixSelf
<1>4. CASE remote' = [exists |-> TRUE, commits |-> local]
  <2>1. remote'.commits = local
    BY <1>4
  <2>2. QED
    BY <1>1, <1>3, <2>1 DEF ForwardInv
<1>5. CASE remote' = remote
  BY <1>1, <1>5 DEF ForwardInv
<1>6. QED
  BY <1>2, <1>4, <1>5

LEMMA ForwardStep ==
  ASSUME PublicationTypeOK, ControlInv, ForwardInv, [PublicationNext]_pubvars
  PROVE  ForwardInv'
<1>1. job'.status # "completed" => job.status # "completed"
  BY CompletedStays
<1> DEFINE RemoteKept == UNCHANGED <<remote, touches>>
<1>2. ASSUME RemoteKept, local' = local, clone # "none" => clone' # "none" PROVE ForwardInv'
  BY <1>1, <1>2 DEF ForwardInv
<1>3. ASSUME RemoteKept, clone = "none" PROVE ForwardInv'
  BY <1>1, <1>3 DEF ForwardInv
<1> USE DEF worker, clonevars, forgevars, bounds
<1>4. CASE Claim \/ Configure \/ SaveBranch \/ AgentEdits \/ AgentEnds \/ AgentRaises
  BY <1>2, <1>4 DEF Claim, Configure, SaveBranch, AgentEdits, AgentEnds, AgentRaises
<1>5. CASE MakeBranch \/ Conclude \/ StartPublish \/ RunChecks
  BY <1>2, <1>5, GitFailsIs, CheckedOutIs DEF MakeBranch, Conclude, StartPublish, RunChecks
<1>6. CASE Lookup \/ Create \/ Settle \/ HandleFailure \/ Reclaim \/ Resume
  BY <1>2, <1>6 DEF Lookup, Create, Settle, HandleFailure, Reclaim, Resume
<1>7. CASE Prepare
  BY <1>2, <1>3, <1>7 DEF Prepare
<1>8. CASE Crash
  <2>1. clone = "none" \/ (local' = local /\ (clone' = "none" => clone = "none"))
    BY <1>8, GitBreaksOff DEF Crash
  <2>2. QED
    BY <1>2, <1>3, <1>8, <2>1 DEF Crash
<1>9. CASE Cleanup
  <2>1. CASE job.status = "completed"
    BY <2>1, CompletedStays DEF ForwardInv
  <2>2. CASE job.status # "completed"
    BY <1>2, <1>9, <2>2 DEF Cleanup
  <2>3. QED
    BY <2>1, <2>2
<1>10. CASE LinkBranch
  <2>1. clone # "none" /\ UNCHANGED <<job, local, clone, touches>>
    BY <1>10 DEF LinkBranch, ControlInv, Working
  <2>2. CASE UNCHANGED remote
    BY <1>2, <2>1, <2>2
  <2>3. CASE local = <<>> /\ remote' = [exists |-> TRUE, commits |-> <<>>]
    <3>1. local \in Seq(SUBSET (Content \cup {ByHuman}))
      BY DEF PublicationTypeOK, Histories
    <3>2. IsPrefix(<<>>, local)
      BY <3>1, PrefixEmpty
    <3>3. QED
      BY <2>1, <2>3, <3>2 DEF ForwardInv
  <2>4. QED
    BY <1>10, <2>2, <2>3 DEF LinkBranch
<1>11. CASE PushFirst
  BY <1>11, PushForwards DEF PushFirst
<1>12. CASE PushBranch
  BY <1>12, PushForwards DEF PushBranch
<1>13. CASE Commit
  <2>1. UNCHANGED <<job, remote, touches>>
    BY <1>13 DEF Commit
  <2>2. clone # "none" => clone' # "none"
    BY <1>13, CommitIs, GitFailsIs
  <2>3. CASE local' = Append(local, CheckedOut.tree)
    <3>1. remote.commits \in Histories /\ local \in Histories
          /\ CheckedOut.tree \in SUBSET (Content \cup {ByHuman})
      BY CheckedOutIs DEF PublicationTypeOK, RemoteType
    <3>2. IsPrefix(remote.commits, local) => IsPrefix(remote.commits, local')
      BY <2>3, <3>1, PrefixAppend DEF Histories
    <3>3. QED
      BY <2>1, <2>2, <3>2 DEF ForwardInv
  <2>4. CASE local' = local
    BY <1>2, <2>1, <2>2, <2>4
  <2>5. QED
    BY <1>13, <2>3, <2>4, CommitIs, GitFailsIs
<1>14. CASE HumanEnds \/ HumanPushes
  <2>1. touches' = touches + 1 /\ touches \in Nat
    BY <1>14 DEF HumanEnds, HumanPushes, Touch, PublicationTypeOK
  <2>2. touches' # 0
    BY <2>1
  <2>3. QED
    BY <2>2 DEF ForwardInv
<1>15. CASE UNCHANGED pubvars
  BY <1>2, <1>15 DEF pubvars
<1>16. QED
  BY <1>4, <1>5, <1>6, <1>7, <1>8, <1>9, <1>10, <1>11, <1>12, <1>13, <1>14, <1>15
  DEF PublicationNext

-----------------------------------------------------------------------------
(* Theorems *)

PubInv ==
  PublicationTypeOK /\ ControlInv /\ RequestInv /\ NamedInv /\ DeliveryInv /\ ForwardInv

\* Every behaviour keeps the types and the invariant that the theorems rest on.
THEOREM PublicationInvariant == PublicationSpec => []PubInv
<1>1. PublicationInit => PubInv
  BY PublicationTypeInit, ControlInit, RequestInit, NamedInit, DeliveryInit, ForwardInit
  DEF PubInv
<1>2. PubInv /\ [PublicationNext]_pubvars => PubInv'
  BY PublicationTypeStep, ControlStep, RequestStep, NamedStep, DeliveryStep, ForwardStep
  DEF PubInv
<1>3. QED
  BY <1>1, <1>2, PTL DEF PublicationSpec

\* However a publication is cut off and repeated, and whatever answers are lost,
\* no second change request is opened for a branch that has one.
THEOREM OneRequestAtATime == PublicationSpec => []OneOpenRequest
<1>1. PubInv => OneOpenRequest
  <2> SUFFICES ASSUME PubInv PROVE OneOpenRequest
    OBVIOUS
  <2>1. CASE OpenOnes = {}
    BY <2>1, FS_EmptySet DEF OneOpenRequest
  <2>2. CASE OpenOnes # {}
    <3>1. PICK i \in OpenOnes : TRUE
      BY <2>2
    <3>2. OpenOnes = {i}
      BY <3>1 DEF PubInv, RequestInv
    <3>3. Cardinality({i}) = 1
      BY FS_Singleton
    <3>4. QED
      BY <3>2, <3>3 DEF OneOpenRequest
  <2>3. QED
    BY <2>1, <2>2
<1>2. QED
  BY <1>1, PublicationInvariant, PTL

\* Whatever the service pushes is within the paths that are protected and a limit, its
\* Python parses where the gate looks unless a check writes, and it is no deletion of
\* the files that a clone lacks if the job is labeled or its manifest protected; from a
\* clone that was not cut off it is within the policy and passed the required checks.
THEOREM NothingUnsoundIsPushed == PublicationSpec => PushedIsSound
<1>1. PublicationInit => SoundInv
  BY SoundInit
<1>2. PubInv /\ SoundInv /\ [PublicationNext]_pubvars => SoundInv'
  BY SoundStep DEF PubInv
<1>3. ASSUME PubInv, SoundInv, [PublicationNext]_pubvars
      PROVE  \A c \in Range(remote'.commits) \ Range(remote.commits) : c = {ByHuman} \/ Sound(c)
  BY <1>3, PushedIsLocal DEF PubInv, SoundInv, LocalSound
<1>4. QED
  BY <1>1, <1>2, <1>3, PublicationInvariant, PTL DEF PublicationSpec, PushedIsSound

\* As long as nobody else touches the branch, what one attempt linked or pushed
\* never makes the forge refuse the push of another.
THEOREM RetriesAreAccepted == PublicationSpec => []RetriesFastForward
<1>1. PubInv => RetriesFastForward
  BY DEF PubInv, ForwardInv, RetriesFastForward, Accepts
<1>2. QED
  BY <1>1, PublicationInvariant, PTL

\* A publication that completes the job leaves nothing uncommitted or unpushed,
\* and names the change request for it.
THEOREM WorkIsDelivered == PublicationSpec => DeliveredWhenCompleted
<1>1. ASSUME PubInv, [PublicationNext]_pubvars, job.status = "publishing",
             job'.status = "completed"
      PROVE  /\ tree = {} /\ All(local) \subseteq landed
             /\ job'.publication.sha = local
             /\ spec.opens /\ local # <<>> => job'.publication.url # 0
  <2> USE DEF worker, clonevars, forgevars, bounds
  <2>1. PublicationTypeOK /\ ControlInv
    BY <1>1 DEF PubInv
  <2>2. pc \notin Working
    BY <1>1, <2>1 DEF ControlInv
  <2>3. \/ \E s : /\ job' = [job EXCEPT !.status = s]
                 /\ s \in {"running", "queued", "failed", ReclaimStatus(job, MaxAttempts)}
        \/ job' = job
        \/ Settle
    BY <1>1, <2>2
    DEF PublicationNext, Claim, Prepare, Configure, MakeBranch, LinkBranch, PushFirst, SaveBranch,
        AgentEdits, AgentEnds, AgentRaises, Conclude, StartPublish, RunChecks, Commit, PushBranch,
        Lookup, Create, HandleFailure, Saved, Cleanup, Crash, Reclaim, Resume, HumanEnds,
        HumanPushes, Touch, pubvars, Push, Working
  <2>4. Settle
    <3>1. ReclaimStatus(job, MaxAttempts) # "completed"
      BY DEF ReclaimStatus
    <3>2. ~ \E s : /\ job' = [job EXCEPT !.status = s]
                  /\ s \in {"running", "queued", "failed", ReclaimStatus(job, MaxAttempts)}
      <4>1. SUFFICES ASSUME NEW s, job' = [job EXCEPT !.status = s],
                            s \in {"running", "queued", "failed",
                                   ReclaimStatus(job, MaxAttempts)}
                     PROVE  FALSE
        OBVIOUS
      <4>2. [job EXCEPT !.status = s].status = s
        BY <2>1, JobUpdates
      <4>3. s = "completed"
        BY <1>1, <4>1, <4>2
      <4>4. QED
        BY <3>1, <4>1, <4>3
    <3>3. QED
      BY <1>1, <2>3, <3>2
  <2>5. pc = "settle" /\ goal = "completed"
    BY <1>1, <2>1, <2>4, JobUpdates DEF Settle
  <2>6. error = "none"
    BY <2>1, <2>5 DEF ControlInv
  <2>7. job'.publication = [sha |-> local, url |-> url]
    BY <2>1, <2>4, <2>6, JobUpdates DEF Settle
  <2>8. spec.opens /\ local # <<>> => url # 0
    BY <1>1, <2>5, <2>6 DEF PubInv, NamedInv
  <2>9. tree = {} /\ All(local) \subseteq landed
    BY <1>1, <2>5, <2>6 DEF PubInv, DeliveryInv, Delivering
  <2>10. QED
    BY <2>7, <2>8, <2>9
<1>2. QED
  BY <1>1, PublicationInvariant, PTL DEF PublicationSpec, DeliveredWhenCompleted

\* No attempt forgets a change request that the job names.
THEOREM RequestsAreRemembered == PublicationSpec => RequestRemembered
<1>1. ASSUME PubInv, [PublicationNext]_pubvars, job.publication.url # 0
      PROVE  job'.publication.url # 0
  <2> USE DEF worker, clonevars, forgevars, bounds
  <2>1. PublicationTypeOK /\ ControlInv /\ NamedInv
    BY <1>1 DEF PubInv
  <2>2. \/ job' = job
        \/ \E s : job' = [job EXCEPT !.status = s]
        \/ job' = [job EXCEPT !.status = "running", !.attempt = @ + 1]
        \/ job' = [job EXCEPT !.publication.sha = local]
        \/ Settle
    BY <1>1
    DEF PublicationNext, Claim, Prepare, Configure, MakeBranch, LinkBranch, PushFirst, SaveBranch,
        AgentEdits, AgentEnds, AgentRaises, Conclude, StartPublish, RunChecks, Commit, PushBranch,
        Lookup, Create, HandleFailure, Saved, Cleanup, Crash, Reclaim, Resume, HumanEnds,
        HumanPushes, Touch, pubvars, Push
  <2>3. CASE ~ Settle
    <3>1. CASE \E s : job' = [job EXCEPT !.status = s]
      BY <1>1, <2>1, <3>1, JobUpdates
    <3>2. CASE job' = [job EXCEPT !.status = "running", !.attempt = @ + 1]
      BY <1>1, <2>1, <3>2, JobUpdates
    <3>3. CASE job' = [job EXCEPT !.publication.sha = local]
      BY <1>1, <2>1, <3>3, JobUpdates
    <3>4. QED
      BY <1>1, <2>2, <2>3, <3>1, <3>2, <3>3
  <2>4. CASE Settle
    <3>1. pc = "settle" /\ job.status = "publishing"
      BY <2>1, <2>4 DEF Settle, ControlInv, Publishing
    <3>2. spec.opens /\ local # <<>>
      BY <1>1, <2>1, <3>1 DEF NamedInv
    <3>3. CASE error = "none"
      <4>1. job'.publication = [sha |-> local, url |-> url]
        BY <2>1, <2>4, <3>3, JobUpdates DEF Settle
      <4>2. url # 0
        BY <2>1, <3>1, <3>2, <3>3 DEF NamedInv
      <4>3. QED
        BY <4>1, <4>2
    <3>4. CASE error # "none"
      BY <1>1, <2>1, <2>4, <3>4, JobUpdates DEF Settle
    <3>5. QED
      BY <3>3, <3>4
  <2>5. QED
    BY <2>3, <2>4
<1>2. QED
  BY <1>1, PublicationInvariant, PTL DEF PublicationSpec, RequestRemembered

-----------------------------------------------------------------------------
(* The patches that the agent works with *)

LEMMA ShortTexts ==
  ASSUME NEW S \in SUBSET Lines, NEW n \in Nat
  PROVE  SeqOf(S, n) \in SUBSET Seq(Lines)
<1> SUFFICES ASSUME NEW m \in 0 .. n, NEW text \in [1 .. m -> S]
             PROVE  text \in Seq(Lines)
  BY DEF SeqOf
<1>1. text \in [1 .. m -> Lines] /\ m \in Nat
  OBVIOUS
<1> QED
  BY <1>1, SeqDef

LEMMA FewLines ==
  ASSUME NEW a \in Lines
  PROVE  /\ <<a>> \in Seq(Lines)
         /\ \A b \in Lines : <<a, b>> \in Seq(Lines) /\ \A c \in Lines : <<a, b, c>> \in Seq(Lines)
OBVIOUS

\* The files and hunks that TLC tries are such as the theorems are about.
LEMMA TriedPatchesLand == PatchLands
<1>1. {"a", "b"} \in SUBSET Lines /\ {"a", "bad"} \in SUBSET Lines
  BY MCPublicationAssumption
<1>m. MCTexts \in SUBSET Seq(Lines) /\ MCInserts \in SUBSET Seq(Lines)
  <2>1. "a" \in Lines /\ "b" \in Lines /\ "" \in Lines /\ "a " \in Lines /\ "-- p" \in Lines
        /\ "++ p" \in Lines
    BY MCPublicationAssumption, Zenon
  <2>2. {<<"a", "">>, <<"", "a ">>, <<"-- p", "b">>, <<"a", "-- p", "b">>} \in SUBSET Seq(Lines)
    BY <2>1, FewLines, Zenon
  <2>3. {<<"">>, <<"a ">>, <<"++ p">>} \in SUBSET Seq(Lines)
    BY <2>1, FewLines, Zenon
  <2>4. SeqOf({"a", "b"}, 3) \in SUBSET Seq(Lines) /\ SeqOf({"a", "bad"}, 1) \in SUBSET Seq(Lines)
    BY <1>1, ShortTexts
  <2> QED
    BY <2>2, <2>3, <2>4, Zenon DEF MCTexts, MCInserts
<1>2. EditsLand(MCTexts, MCInserts)
  BY <1>m, EditsAlwaysLand
<1>3. DriftedHunksLand(MCTexts, SeqOf({"a", "b"}, 2))
  <2>1. MCTexts \in SUBSET Seq(Lines) /\ SeqOf({"a", "b"}, 2) \in SUBSET Seq(Lines)
    BY <1>1, <1>m, ShortTexts
  <2> QED
    BY <2>1, DriftedHunksAlwaysLand
<1>4. AllOrNothing({<<"a">>, <<"b", "a">>}, MCHunks)
  <2>1. {<<"a">>, <<"b", "a">>} \in SUBSET Seq(Lines)
    BY <1>1
  <2>2. /\ Hunk(1, <<"a">>, <<"b">>) \in PatchHunks /\ Hunk(1, <<>>, <<"bad">>) \in PatchHunks
        /\ Hunk(0, <<>>, <<"a">>) \in PatchHunks
    BY <1>1 DEF Hunk, PatchHunks
  <2>3. MCHunks \in SUBSET Seq(PatchHunks)
    BY <2>2 DEF MCHunks
  <2> QED
    BY <2>1, <2>3, AlwaysAllOrNothing
<1> QED
  BY <1>2, <1>3, <1>4 DEF PatchLands

\* What the agent is told of its edits is what is in the clone it works in.
THEOREM PatchesAlwaysLand == PublicationSpec => []PatchesLand
<1>1. PatchesLand
  BY TriedPatchesLand DEF PatchesLand
<1> QED
  BY <1>1, PTL
=============================================================================
