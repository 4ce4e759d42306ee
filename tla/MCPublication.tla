--------------------------- MODULE MCPublication ----------------------------
(***************************************************************************)
(* Jobs for TLC: from a labeled issue, with required checks and a manifest *)
(* that is protected; without a manifest; with a manifest that is not      *)
(* protected and checks that write.  By the manifest, a commit may change  *)
(* one file.  By default it may change two, and two lines: which is all    *)
(* that the repository has, so a clone that was cut off may be published,  *)
(* or one edit of two lines.  And the files that patches are tried on: up  *)
(* to three lines of two kinds, so that a hunk fits in many places, with a *)
(* window that does not reach everywhere; and some with a line that is     *)
(* blank, ends in a blank or looks like the name of a file in a diff.      *)
(***************************************************************************)
EXTENDS Publication, Patch

ASSUME MCPublicationAssumption == {"a", "b", "bad", "", "a ", "-- p", "++ p"} \subseteq Lines

Spec(labeled, the_manifest, checks, opens) ==
  [labeled |-> labeled, links |-> TRUE, opens |-> opens, manifest |-> the_manifest, checks |-> checks]

MCSpecs ==
  {Spec(TRUE, "protected", "pure", TRUE), Spec(FALSE, "none", "none", TRUE),
   Spec(FALSE, "open", "writing", FALSE)}

Amount(files, lines) == [files |-> files, lines |-> lines]
MCLimits == Amount(1, 2)
MCDefaultLimits == Amount(2, 2)
MCSize == [e \in Content |-> CASE e = Emptied -> Amount(2, 2) [] e = "long" -> Amount(1, 2)
                              [] OTHER -> Amount(1, 1)]

MCTrim == [l \in Lines |-> IF l = "a " THEN "a" ELSE l]
MCNames == [l \in Dashed \cup Plussed |-> "p"]
MCTexts ==
  SeqOf({"a", "b"}, 3) \cup {<<"a", "">>, <<"", "a ">>, <<"-- p", "b">>, <<"a", "-- p", "b">>}
MCInserts == SeqOf({"a", "bad"}, 1) \cup {<<"">>, <<"a ">>, <<"++ p">>}
MCHunks ==
  {<<>>, <<Hunk(1, <<"a">>, <<"b">>)>>, <<Hunk(1, <<>>, <<"bad">>)>>, <<Hunk(0, <<>>, <<"a">>)>>}

PatchLands ==
  /\ EditsLand(MCTexts, MCInserts)
  /\ DriftedHunksLand(MCTexts, SeqOf({"a", "b"}, 2))
  /\ AllOrNothing({<<"a">>, <<"b", "a">>}, MCHunks)

\* What the agent is told of its edits is what is in the clone it works in: a
\* patch lands where its hunks belong, however the file repeats itself and though
\* hunks before have moved the lines or the file has grown since.  Of two files, a
\* patch that fits only one of them changes neither, and one that fits both leaves
\* the first changed and the second not only where a write fails.
PatchesLand == pc = "agent" => PatchLands
=============================================================================
