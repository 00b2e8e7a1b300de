---------------------------- MODULE CaptureBundle ----------------------------
(***************************************************************************)
(* Write of the package capture: the artifacts of a bundle and a manifest  *)
(* of them are written into a hidden directory beside the destination,     *)
(* each file and then the directory is synced, and the directory is        *)
(* renamed.  The captures modelled have the same destination: its name has *)
(* the resolution of a second.  Any call may fail, a process may be killed *)
(* between any two calls, and the machine may lose power.                  *)
(*                                                                         *)
(* A file is counted when it is closed; what a failed call leaves of it is *)
(* never published.  The directory above is never synced, so a power loss  *)
(* may undo the rename.                                                    *)
(***************************************************************************)
EXTENDS Naturals, Sequences

CONSTANTS
  Writers,   \* captures; also the bundle that each of them writes
  Nothing,   \* no entry at the destination
  Existing,  \* an entry that was there before
  Torn       \* a bundle that misses a file or a line of its manifest

ASSUME CaptureBundleAssumption ==
  /\ {Nothing, Existing, Torn} \cap Writers = {}
  /\ Nothing # Existing /\ Nothing # Torn /\ Existing # Torn

VARIABLES
  inputs,     \* what each capture was asked for, and whether a suspect was found
  step,       \* the call that each capture makes next
  written,    \* how many files of its bundle are there
  durable,    \* how many of them a power loss leaves there
  listed,     \* the files in its manifest
  temporary,  \* the captures whose hidden directory exists
  bundle,     \* the entry of the destination
  survivors   \* what that entry may be after a power loss

vars == <<inputs, step, written, durable, listed, temporary, bundle, survivors>>

\* Discovery evidence exists in discovery mode only, a suspect always otherwise.
Inputs == {i \in [discover : BOOLEAN, selected : BOOLEAN, ebpf : BOOLEAN] :
             i.discover \/ i.selected}

\* Mutant: without a selected suspect there is nothing to write about suspects.
ArtifactsOfSelection(i) ==
     <<"experiment-summary.txt", "incident-explanation.txt",
       IF i.selected THEN "trace-plan.txt" ELSE "victim-topology.txt",
       "storage-snapshot.txt", "qemu-io-summary.txt">>
  \o (IF i.discover /\ i.selected THEN <<"suspect-discovery.txt">> ELSE <<>>)
  \o (IF i.ebpf THEN <<"ebpf-block-latency.txt", "ebpf-vm-block-latency.json">> ELSE <<>>)
  \o <<"observe-snapshot.json", "diagnosis.txt", "evidence-summary.json",
       "incident-report.md", "metadata.txt">>

\* The artifacts of a bundle, in the order they are written.
Artifacts(i) ==
     <<"experiment-summary.txt", "incident-explanation.txt",
       IF i.selected THEN "trace-plan.txt" ELSE "victim-topology.txt",
       "storage-snapshot.txt", "qemu-io-summary.txt">>
  \o (IF i.discover THEN <<"suspect-discovery.txt">> ELSE <<>>)
  \o (IF i.ebpf THEN <<"ebpf-block-latency.txt", "ebpf-vm-block-latency.json">> ELSE <<>>)
  \o <<"observe-snapshot.json", "diagnosis.txt", "evidence-summary.json",
       "incident-report.md", "metadata.txt">>

Manifest == "manifest.json"

Elements(s) == {s[k] : k \in DOMAIN s}

\* The number of artifacts; the manifest is one file more.
Size(w) == Len(Artifacts(inputs[w]))

\* The files that metadata.txt tells its reader to look at.
MetadataNames(i) ==
  {"incident-report.md", "evidence-summary.json", "observe-snapshot.json", Manifest}
  \cup (IF i.discover THEN {"suspect-discovery.txt"} ELSE {})
  \cup (IF i.ebpf THEN {"ebpf-block-latency.txt", "ebpf-vm-block-latency.json"} ELSE {})

Ended == {"published", "failed", "killed"}
Steps ==
  {"check", "mkdir", "artifacts", "manifest", "sync", "recheck", "rename", "remove"} \cup Ended

Init ==
  /\ inputs \in [Writers -> Inputs]
  /\ step = [w \in Writers |-> "check"]
  /\ written = [w \in Writers |-> 0]
  /\ durable = [w \in Writers |-> 0]
  /\ listed = [w \in Writers |-> {}]
  /\ temporary = {}
  /\ bundle \in {Nothing, Existing}
  /\ survivors = {bundle}

\* w has made the call `now`; it makes `next` next.
Go(w, now, next) ==
  /\ step[w] = now
  /\ step' = [step EXCEPT ![w] = next]

CheckFinal(w) ==
  /\ \/ Go(w, "check", "mkdir") /\ bundle = Nothing
     \/ Go(w, "check", "failed")
  /\ UNCHANGED <<inputs, written, durable, listed, temporary, bundle, survivors>>

\* The directory is removed again when its mode cannot be set.
MakeTemporary(w) ==
  /\ \/ /\ Go(w, "mkdir", "artifacts") \/ Go(w, "mkdir", "remove")
        /\ temporary' = temporary \cup {w}
     \/ Go(w, "mkdir", "failed") /\ UNCHANGED temporary
  /\ UNCHANGED <<inputs, written, durable, listed, bundle, survivors>>

WriteArtifact(w) ==
  /\ \/ /\ Go(w, "artifacts", IF written[w] + 1 < Size(w) THEN "artifacts" ELSE "manifest")
        /\ written' = [written EXCEPT ![w] = @ + 1]
     \/ Go(w, "artifacts", "remove") /\ UNCHANGED written
  /\ UNCHANGED <<inputs, durable, listed, temporary, bundle, survivors>>

\* The artifacts are read back and listed, the manifest itself is not.
WriteManifest(w) ==
  /\ \/ /\ Go(w, "manifest", "sync")
        /\ listed' = [listed EXCEPT ![w] = Elements(Artifacts(inputs[w]))]
        /\ written' = [written EXCEPT ![w] = @ + 1]
     \/ Go(w, "manifest", "remove") /\ UNCHANGED <<listed, written>>
  /\ UNCHANGED <<inputs, durable, temporary, bundle, survivors>>

\* Mutant: only the files are synced.
SkipSyncDirectory(w) ==
  /\ Go(w, "sync", "recheck") \/ Go(w, "sync", "remove")
  /\ UNCHANGED <<inputs, written, durable, listed, temporary, bundle, survivors>>

SyncDirectory(w) ==
  /\ \/ Go(w, "sync", "recheck") /\ durable' = [durable EXCEPT ![w] = written[w]]
     \/ Go(w, "sync", "remove") /\ UNCHANGED durable
  /\ UNCHANGED <<inputs, written, listed, temporary, bundle, survivors>>

RecheckFinal(w) ==
  /\ \/ Go(w, "recheck", "rename") /\ bundle = Nothing
     \/ Go(w, "recheck", "remove")
  /\ UNCHANGED <<inputs, written, durable, listed, temporary, bundle, survivors>>

\* Mutant: a rename that replaces what another capture published meanwhile.
RenameOver(w) ==
  /\ \/ /\ Go(w, "rename", "published")
        /\ bundle' = w
        /\ survivors' = survivors \cup {w}
        /\ temporary' = temporary \ {w}
     \/ Go(w, "rename", "remove") /\ UNCHANGED <<bundle, survivors, temporary>>
  /\ UNCHANGED <<inputs, written, durable, listed>>

\* A directory is renamed over nothing: over a file, a link or a bundle, which is
\* never empty, the rename fails.
Rename(w) ==
  /\ \/ /\ Go(w, "rename", "published")
        /\ bundle = Nothing
        /\ bundle' = w
        /\ survivors' = survivors \cup {w}
        /\ temporary' = temporary \ {w}
     \/ Go(w, "rename", "remove") /\ UNCHANGED <<bundle, survivors, temporary>>
  /\ UNCHANGED <<inputs, written, durable, listed>>

\* The error of the removal is ignored.
Remove(w) ==
  /\ Go(w, "remove", "failed")
  /\ temporary' \in {temporary, temporary \ {w}}
  /\ UNCHANGED <<inputs, written, durable, listed, bundle, survivors>>

Kill(w) ==
  /\ step[w] \notin Ended
  /\ step' = [step EXCEPT ![w] = "killed"]
  /\ UNCHANGED <<inputs, written, durable, listed, temporary, bundle, survivors>>

\* A directory that was not synced loses its entries; a hidden directory may be
\* lost, and comes back where a rename was lost.
PowerLoss ==
  /\ step' = [w \in Writers |-> IF step[w] \in Ended THEN step[w] ELSE "killed"]
  /\ \E lost \in SUBSET Writers :
       written' = [w \in Writers |-> IF w \in lost THEN durable[w] ELSE written[w]]
  /\ bundle' \in survivors
  /\ survivors' = {bundle'}
  /\ temporary' \in SUBSET (temporary \cup ((Writers \cap survivors) \ {bundle'}))
  /\ UNCHANGED <<inputs, durable, listed>>

Terminated == (\A w \in Writers : step[w] \in Ended) /\ UNCHANGED vars

Write(w) ==
  \/ CheckFinal(w) \/ MakeTemporary(w) \/ WriteArtifact(w) \/ WriteManifest(w)
  \/ SyncDirectory(w) \/ RecheckFinal(w) \/ Rename(w) \/ Remove(w)

Next == (\E w \in Writers : Write(w) \/ Kill(w)) \/ PowerLoss \/ Terminated

Spec == Init /\ [][Next]_vars

-----------------------------------------------------------------------------
(* Properties.                                                             *)

TypeOK ==
  /\ inputs \in [Writers -> Inputs]
  /\ step \in [Writers -> Steps]
  /\ written \in [Writers -> Nat] /\ durable \in [Writers -> Nat]
  /\ DOMAIN listed = Writers
  /\ \A w \in Writers : listed[w] \in {{}, Elements(Artifacts(inputs[w]))}
  /\ temporary \subseteq Writers
  /\ bundle \in Writers \cup {Nothing, Existing}
  /\ survivors \subseteq Writers \cup {Nothing, Existing}

\* Every file is there and every artifact listed.
Whole(w) ==
  /\ written[w] = Size(w) + 1
  /\ listed[w] = Elements(Artifacts(inputs[w]))

\* Whoever finds a bundle, also after a power loss, finds in it every file that
\* metadata.txt and the manifest name, and every artifact in the manifest.
BundleAnswersItsMetadata ==
  \A w \in Writers \cap survivors :
    Whole(w) /\ MetadataNames(inputs[w]) \subseteq listed[w] \cup {Manifest}

\* Of the captures with one destination at most one reports success, and its
\* bundle is there unless a power loss took it.
SuccessIsTheBundle ==
  \A w \in Writers : step[w] = "published" =>
    /\ survivors \subseteq {w, Nothing}
    /\ \A x \in Writers \ {w} : step[x] # "published"

-----------------------------------------------------------------------------
(* The inductive invariant, in parts.                                      *)

\* How far a capture is with its files.
FilesFollowStep ==
  \A w \in Writers :
    /\ durable[w] <= written[w]
    /\ step[w] \in {"check", "mkdir"} => written[w] = 0
    /\ step[w] = "artifacts" => written[w] < Size(w)
    /\ step[w] = "manifest" => written[w] = Size(w)
    /\ step[w] \in {"sync", "recheck", "rename", "published"} => Whole(w)
    /\ step[w] \in {"recheck", "rename", "published"} => durable[w] = written[w]

\* A survivor is what was found, or whole and durable.
SurvivorIsWhole ==
  /\ bundle \in survivors
  /\ \A w \in Writers \cap survivors : Whole(w) /\ durable[w] = written[w]

\* Only one entry can follow nothing, and only the capture that reported it.  Where
\* its bundle is missing, a power loss has taken it and ended every capture.
SurvivorIsPublished ==
  /\ \A v \in survivors : v = bundle \/ v = Nothing
  /\ \A w \in Writers \cap survivors : step[w] = "published"
  /\ bundle = Nothing => survivors = {Nothing}
  /\ \A w \in Writers : step[w] = "published" /\ bundle # w => \A x \in Writers : step[x] \in Ended

Inv ==
  /\ TypeOK
  /\ FilesFollowStep
  /\ SurvivorIsWhole
  /\ SurvivorIsPublished
  /\ SuccessIsTheBundle

-----------------------------------------------------------------------------
(* The promise about the destination.                                      *)

Promise == INSTANCE Publication WITH
  Versions <- Writers \cup {Existing}, Replaceable <- FALSE,
  visible <- IF bundle \in Writers /\ ~Whole(bundle) THEN Torn ELSE bundle

\* A destination holds nothing, what was there before, or one whole bundle that
\* nothing replaces, whatever fails, dies or loses power.
ImplementsPublication == Promise!Spec

=============================================================================
