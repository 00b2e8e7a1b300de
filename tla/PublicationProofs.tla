-------------------------- MODULE PublicationProofs --------------------------
(***************************************************************************)
(* Proofs about the two implementations of Publication.  CaptureBundle,    *)
(* for any number of captures: the invariant and what a reader finds in a  *)
(* bundle.  PrivateFile, for any number of writers: the invariant and the  *)
(* durability of a reported save.                                          *)
(***************************************************************************)
EXTENDS CaptureBundle, PrivateFile, SequenceTheorems, TLAPS

-----------------------------------------------------------------------------
(* CaptureBundle.                                                          *)

USE CaptureBundleAssumption

\* Where the elements of a concatenation are.
LEMMA Concatenation ==
  ASSUME NEW N, NEW s \in Seq(N), NEW t \in Seq(N)
  PROVE  /\ s \o t \in Seq(N) /\ Len(s \o t) = Len(s) + Len(t)
         /\ \A k \in 1..Len(s) : (s \o t)[k] = s[k]
         /\ \A k \in 1..Len(t) : (s \o t)[Len(s) + k] = t[k]
<1>1. /\ s \o t \in Seq(N) /\ Len(s \o t) = Len(s) + Len(t)
      /\ \A k \in 1..Len(s) + Len(t) : (s \o t)[k] = IF k <= Len(s) THEN s[k] ELSE t[k - Len(s)]
  BY ConcatProperties
<1>2. Len(s) \in Nat /\ Len(t) \in Nat
  BY LenProperties
<1>3. ASSUME NEW k \in 1..Len(t) PROVE (s \o t)[Len(s) + k] = t[k]
  <2>1. Len(s) + k \in 1..Len(s) + Len(t) /\ ~(Len(s) + k <= Len(s)) /\ (Len(s) + k) - Len(s) = k
    BY <1>2
  <2> QED
    BY <1>1, <2>1
<1>4. ASSUME NEW k \in 1..Len(s) PROVE (s \o t)[k] = s[k]
  BY <1>1, <1>2
<1> QED
  BY <1>1, <1>3, <1>4

\* The same of four parts.
LEMMA FourParts ==
  ASSUME NEW N, NEW p \in Seq(N), NEW q \in Seq(N), NEW r \in Seq(N), NEW t \in Seq(N),
         NEW a, a = ((p \o q) \o r) \o t
  PROVE  /\ a \in Seq(N) /\ Len(a) = Len(p) + Len(q) + Len(r) + Len(t)
         /\ \A k \in 1..Len(q) : a[Len(p) + k] = q[k]
         /\ \A k \in 1..Len(r) : a[Len(p) + Len(q) + k] = r[k]
         /\ \A k \in 1..Len(t) : a[Len(p) + Len(q) + Len(r) + k] = t[k]
<1>1. Len(p) \in Nat /\ Len(q) \in Nat /\ Len(r) \in Nat /\ Len(t) \in Nat
  BY LenProperties
<1>2. PICK pq : pq = p \o q
  OBVIOUS
<1>3. PICK pqr : pqr = pq \o r
  OBVIOUS
<1>4. /\ pq \in Seq(N) /\ Len(pq) = Len(p) + Len(q)
      /\ \A k \in 1..Len(q) : pq[Len(p) + k] = q[k]
  BY <1>2, Concatenation
<1>5. /\ pqr \in Seq(N) /\ Len(pqr) = Len(pq) + Len(r)
      /\ \A k \in 1..Len(pq) : pqr[k] = pq[k]
      /\ \A k \in 1..Len(r) : pqr[Len(pq) + k] = r[k]
  <2>1. pqr \in Seq(N) /\ Len(pqr) = Len(pq) + Len(r)
    BY <1>3, <1>4, Concatenation
  <2>2. \A k \in 1..Len(pq) : pqr[k] = pq[k]
    BY <1>3, <1>4, Concatenation
  <2>3. \A k \in 1..Len(r) : pqr[Len(pq) + k] = r[k]
    BY <1>3, <1>4, Concatenation
  <2> QED
    BY <2>1, <2>2, <2>3
<1>6. /\ a \in Seq(N) /\ Len(a) = Len(pqr) + Len(t)
      /\ \A k \in 1..Len(pqr) : a[k] = pqr[k]
      /\ \A k \in 1..Len(t) : a[Len(pqr) + k] = t[k]
  <2>1. a = pqr \o t
    BY <1>2, <1>3
  <2>2. a \in Seq(N) /\ Len(a) = Len(pqr) + Len(t)
    BY <2>1, <1>5, Concatenation
  <2>3. \A k \in 1..Len(pqr) : a[k] = pqr[k]
    BY <2>1, <1>5, Concatenation
  <2>4. \A k \in 1..Len(t) : a[Len(pqr) + k] = t[k]
    BY <2>1, <1>5, Concatenation
  <2> QED
    BY <2>2, <2>3, <2>4
<1>7. ASSUME NEW k \in 1..Len(q) PROVE a[Len(p) + k] = q[k]
  <2>1. Len(p) + k \in 1..Len(pq) /\ Len(p) + k \in 1..Len(pqr)
    BY <1>1, <1>4, <1>5
  <2> QED
    BY <2>1, <1>4, <1>5, <1>6
<1>8. ASSUME NEW k \in 1..Len(r) PROVE a[Len(p) + Len(q) + k] = r[k]
  <2>1. Len(p) + Len(q) + k \in 1..Len(pqr)
    BY <1>1, <1>4, <1>5
  <2> QED
    BY <2>1, <1>4, <1>5, <1>6
<1>9. ASSUME NEW k \in 1..Len(t) PROVE a[Len(p) + Len(q) + Len(r) + k] = t[k]
  BY <1>4, <1>5, <1>6
<1> QED
  BY <1>4, <1>5, <1>6, <1>7, <1>8, <1>9

\* A bundle has artifacts, and every file its metadata names is one of them.
LEMMA ArtifactsAnswer ==
  ASSUME NEW i \in Inputs
  PROVE  /\ Len(Artifacts(i)) \in Nat \ {0}
         /\ MetadataNames(i) \subseteq Elements(Artifacts(i)) \cup {Manifest}
<1> DEFINE plan == IF i.selected THEN "trace-plan.txt" ELSE "victim-topology.txt"
           first == <<"experiment-summary.txt", "incident-explanation.txt", plan,
                      "storage-snapshot.txt", "qemu-io-summary.txt">>
           suspects == IF i.discover THEN <<"suspect-discovery.txt">> ELSE <<>>
           latency == IF i.ebpf THEN <<"ebpf-block-latency.txt", "ebpf-vm-block-latency.json">>
                      ELSE <<>>
           last == <<"observe-snapshot.json", "diagnosis.txt", "evidence-summary.json",
                     "incident-report.md", "metadata.txt">>
<1>1. Artifacts(i) = ((first \o suspects) \o latency) \o last
  BY DEF Artifacts
<1> DEFINE papers == {"experiment-summary.txt", "incident-explanation.txt", "trace-plan.txt",
                     "victim-topology.txt", "storage-snapshot.txt", "qemu-io-summary.txt",
                     "suspect-discovery.txt", "ebpf-block-latency.txt",
                     "ebpf-vm-block-latency.json", "observe-snapshot.json", "diagnosis.txt",
                     "evidence-summary.json", "incident-report.md", "metadata.txt"}
<1>2. /\ first \in Seq(papers) /\ suspects \in Seq(papers) /\ latency \in Seq(papers)
      /\ last \in Seq(papers)
  <2>1. plan \in papers
    OBVIOUS
  <2>2. first \in Seq(papers)
    <3>1. first \in [1..5 -> papers]
      BY <2>1
    <3> QED
      BY <3>1
  <2>3. suspects \in Seq(papers) /\ latency \in Seq(papers)
    <3>1. <<"suspect-discovery.txt">> \in Seq(papers)
      OBVIOUS
    <3>2. <<"ebpf-block-latency.txt", "ebpf-vm-block-latency.json">> \in Seq(papers)
      OBVIOUS
    <3>3. << >> \in Seq(papers)
      OBVIOUS
    <3> QED
      BY <3>1, <3>2, <3>3
  <2>4. last \in Seq(papers)
    OBVIOUS
  <2> QED
    BY <2>2, <2>3, <2>4
<1>3. /\ Len(first) = 5 /\ Len(last) = 5 /\ Len(suspects) \in {0, 1} /\ Len(latency) \in {0, 2}
  OBVIOUS
<1> HIDE DEF papers, first, suspects, latency, last
<1>4. PICK a : a = Artifacts(i)
  OBVIOUS
<1>5. /\ a \in Seq(papers) /\ Len(a) = Len(first) + Len(suspects) + Len(latency) + Len(last)
      /\ \A k \in 1..Len(suspects) : a[Len(first) + k] = suspects[k]
      /\ \A k \in 1..Len(latency) : a[Len(first) + Len(suspects) + k] = latency[k]
      /\ \A k \in 1..Len(last) : a[Len(first) + Len(suspects) + Len(latency) + k] = last[k]
  BY <1>1, <1>2, <1>4, FourParts
<1>6. \A k \in 1..Len(a) : a[k] \in Elements(a)
  BY <1>5 DEF Elements
<1>7. {"incident-report.md", "evidence-summary.json", "observe-snapshot.json"} \subseteq Elements(a)
  BY <1>3, <1>5, <1>6 DEF last
<1>8. i.discover => "suspect-discovery.txt" \in Elements(a)
  <2> SUFFICES ASSUME i.discover PROVE "suspect-discovery.txt" \in Elements(a)
    OBVIOUS
  <2>1. Len(suspects) = 1 /\ suspects[1] = "suspect-discovery.txt"
    BY DEF suspects
  <2> QED
    BY <2>1, <1>3, <1>5, <1>6
<1>9. i.ebpf => {"ebpf-block-latency.txt", "ebpf-vm-block-latency.json"} \subseteq Elements(a)
  <2> SUFFICES ASSUME i.ebpf
               PROVE  {"ebpf-block-latency.txt", "ebpf-vm-block-latency.json"} \subseteq Elements(a)
    OBVIOUS
  <2>1. /\ Len(latency) = 2
        /\ latency[1] = "ebpf-block-latency.txt" /\ latency[2] = "ebpf-vm-block-latency.json"
    BY DEF latency
  <2> QED
    BY <2>1, <1>3, <1>5, <1>6
<1> QED
  BY <1>3, <1>4, <1>5, <1>7, <1>8, <1>9 DEF MetadataNames

LEMMA SizeIsPositive ==
  ASSUME TypeOK, NEW w \in Writers
  PROVE  Size(w) \in Nat \ {0}
BY ArtifactsAnswer DEF TypeOK, Size

LEMMA InitInv == Init => Inv
BY DEF Init, Inv, TypeOK, Steps, Ended, FilesFollowStep, SurvivorIsWhole, SurvivorIsPublished,
       SuccessIsTheBundle

\* A call of one capture moves that capture only.
LEMMA GoMovesOne ==
  ASSUME step \in [Writers -> Steps], NEW w \in Writers, NEW now, NEW next \in Steps,
         Go(w, now, next)
  PROVE  /\ step[w] = now /\ step'[w] = next
         /\ \A x \in Writers \ {w} : step'[x] = step[x]
         /\ step' \in [Writers -> Steps]
BY DEF Go

\* What a call leaves alone when it neither writes nor renames.
LEMMA FilesAlone ==
  ASSUME Inv, UNCHANGED <<inputs, written, durable, listed, bundle, survivors>>,
         step' \in [Writers -> Steps], temporary' \subseteq Writers,
         NEW w \in Writers, step[w] \notin {"published", "killed", "failed"},
         step'[w] # "published", \A x \in Writers \ {w} : step'[x] = step[x]
  PROVE  /\ TypeOK' /\ SurvivorIsWhole' /\ SurvivorIsPublished' /\ SuccessIsTheBundle'
         /\ \A x \in Writers : Size(x)' = Size(x) /\ (Whole(x)' <=> Whole(x))
<1>1. TypeOK'
  BY DEF Inv, TypeOK
<1>2. \A x \in Writers : Size(x)' = Size(x) /\ (Whole(x)' <=> Whole(x))
  BY DEF Size, Whole
<1>3. SurvivorIsWhole'
  BY <1>2 DEF Inv, SurvivorIsWhole
<1>4. SurvivorIsPublished'
  BY DEF Inv, SurvivorIsPublished, Ended
<1>5. SuccessIsTheBundle'
  BY DEF Inv, SuccessIsTheBundle
<1> QED
  BY <1>1, <1>2, <1>3, <1>4, <1>5

\* What a call leaves alone when it writes a file of its own hidden directory.
LEMMA OthersAlone ==
  ASSUME Inv, UNCHANGED <<inputs, temporary, bundle, survivors>>,
         step' \in [Writers -> Steps], written' \in [Writers -> Nat], durable' \in [Writers -> Nat],
         DOMAIN listed' = Writers,
         NEW w \in Writers, listed'[w] \in {{}, Elements(Artifacts(inputs[w]))},
         step[w] \notin {"published", "killed", "failed"}, step'[w] # "published",
         \A x \in Writers \ {w} :
           /\ step'[x] = step[x] /\ written'[x] = written[x]
           /\ durable'[x] = durable[x] /\ listed'[x] = listed[x]
  PROVE  /\ TypeOK' /\ SurvivorIsWhole' /\ SurvivorIsPublished' /\ SuccessIsTheBundle'
         /\ \A x \in Writers : Size(x)' = Size(x)
         /\ \A x \in Writers \ {w} : Whole(x)' <=> Whole(x)
<1>1. TypeOK'
  BY DEF Inv, TypeOK
<1>2. \A x \in Writers : Size(x)' = Size(x)
  BY DEF Size
<1>3. \A x \in Writers \ {w} : Whole(x)' <=> Whole(x)
  BY DEF Size, Whole
<1>4. w \notin survivors
  BY DEF Inv, SurvivorIsPublished
<1>5. SurvivorIsWhole'
  BY <1>3, <1>4 DEF Inv, SurvivorIsWhole
<1>6. SurvivorIsPublished'
  BY <1>4 DEF Inv, SurvivorIsPublished, Ended
<1>7. SuccessIsTheBundle'
  BY DEF Inv, SuccessIsTheBundle
<1> QED
  BY <1>1, <1>2, <1>3, <1>5, <1>6, <1>7

\* Every call of a capture keeps the invariant.
LEMMA WriteInv ==
  ASSUME Inv, NEW w \in Writers, Write(w)
  PROVE  Inv'
<1>0. {"check", "mkdir", "artifacts", "manifest", "sync", "recheck", "rename", "remove",
       "published", "failed", "killed"} = Steps
  BY DEF Steps, Ended
<1>t. TypeOK /\ FilesFollowStep
  BY DEF Inv
<1>s. \A x \in Writers : Size(x) \in Nat \ {0}
  BY <1>t, SizeIsPositive
<1>1. CASE CheckFinal(w) \/ MakeTemporary(w) \/ RecheckFinal(w) \/ Remove(w)
  <2>1. /\ step[w] \in {"check", "mkdir", "recheck", "remove"}
        /\ <<step[w], step'[w]>> \in
             {<<"check", "mkdir">>, <<"mkdir", "artifacts">>, <<"recheck", "rename">>}
             \/ step'[w] \in {"failed", "remove"}
        /\ \A x \in Writers \ {w} : step'[x] = step[x]
        /\ step' \in [Writers -> Steps]
    BY <1>0, <1>1, <1>t, GoMovesOne DEF CheckFinal, MakeTemporary, RecheckFinal, Remove, TypeOK
  <2>2. /\ UNCHANGED <<inputs, written, durable, listed, bundle, survivors>>
        /\ temporary' \subseteq Writers
    BY <1>1, <1>t DEF CheckFinal, MakeTemporary, RecheckFinal, Remove, TypeOK
  <2>3. /\ TypeOK' /\ SurvivorIsWhole' /\ SurvivorIsPublished' /\ SuccessIsTheBundle'
        /\ \A x \in Writers : Size(x)' = Size(x) /\ (Whole(x)' <=> Whole(x))
    BY <2>1, <2>2, FilesAlone
  <2>4. FilesFollowStep'
    BY <1>s, <1>t, <2>1, <2>2, <2>3 DEF FilesFollowStep
  <2> QED
    BY <2>3, <2>4 DEF Inv
<1>2. CASE WriteArtifact(w)
  <2>1. /\ step[w] = "artifacts"
        /\ \/ /\ step'[w] = (IF written[w] + 1 < Size(w) THEN "artifacts" ELSE "manifest")
              /\ written' = [written EXCEPT ![w] = @ + 1]
           \/ step'[w] = "remove" /\ written' = written
        /\ \A x \in Writers \ {w} : step'[x] = step[x]
        /\ step' \in [Writers -> Steps]
    BY <1>0, <1>2, <1>t, GoMovesOne DEF WriteArtifact, TypeOK
  <2>2. UNCHANGED <<inputs, durable, listed, temporary, bundle, survivors>>
    BY <1>2 DEF WriteArtifact
  <2>3. written' \in [Writers -> Nat] /\ \A x \in Writers \ {w} : written'[x] = written[x]
    BY <1>t, <2>1 DEF TypeOK
  <2>4. /\ TypeOK' /\ SurvivorIsWhole' /\ SurvivorIsPublished' /\ SuccessIsTheBundle'
        /\ \A x \in Writers : Size(x)' = Size(x)
        /\ \A x \in Writers \ {w} : Whole(x)' <=> Whole(x)
    BY <1>t, <2>1, <2>2, <2>3, OthersAlone DEF TypeOK
  <2>5. /\ written[w] < Size(w) /\ durable[w] <= written[w]
        /\ written'[w] \in {written[w], written[w] + 1} /\ durable'[w] = durable[w]
        /\ step'[w] = "artifacts" => written'[w] < Size(w)
        /\ step'[w] = "manifest" => written'[w] = Size(w)
        /\ step'[w] \in {"artifacts", "manifest", "remove"}
    BY <1>s, <1>t, <2>1, <2>2 DEF FilesFollowStep, TypeOK
  <2>6. FilesFollowStep'
    BY <1>s, <1>t, <2>1, <2>2, <2>3, <2>4, <2>5 DEF FilesFollowStep, TypeOK
  <2> QED
    BY <2>4, <2>6 DEF Inv
<1>3. CASE WriteManifest(w)
  <2>1. /\ step[w] = "manifest"
        /\ \/ /\ step'[w] = "sync"
              /\ listed' = [listed EXCEPT ![w] = Elements(Artifacts(inputs[w]))]
              /\ written' = [written EXCEPT ![w] = @ + 1]
           \/ step'[w] = "remove" /\ written' = written /\ listed' = listed
        /\ \A x \in Writers \ {w} : step'[x] = step[x]
        /\ step' \in [Writers -> Steps]
    BY <1>0, <1>3, <1>t, GoMovesOne DEF WriteManifest, TypeOK
  <2>2. UNCHANGED <<inputs, durable, temporary, bundle, survivors>>
    BY <1>3 DEF WriteManifest
  <2>3. /\ written' \in [Writers -> Nat] /\ DOMAIN listed' = Writers
        /\ listed'[w] \in {{}, Elements(Artifacts(inputs[w]))}
        /\ \A x \in Writers \ {w} : written'[x] = written[x] /\ listed'[x] = listed[x]
    BY <1>t, <2>1 DEF TypeOK
  <2>4. /\ TypeOK' /\ SurvivorIsWhole' /\ SurvivorIsPublished' /\ SuccessIsTheBundle'
        /\ \A x \in Writers : Size(x)' = Size(x)
        /\ \A x \in Writers \ {w} : Whole(x)' <=> Whole(x)
    BY <1>t, <2>1, <2>2, <2>3, OthersAlone DEF TypeOK
  <2>5. step'[w] = "sync" => Whole(w)'
    BY <1>s, <1>t, <2>1, <2>2 DEF FilesFollowStep, TypeOK, Whole, Size
  <2>6. FilesFollowStep'
    BY <1>s, <1>t, <2>1, <2>2, <2>3, <2>4, <2>5 DEF FilesFollowStep, TypeOK
  <2> QED
    BY <2>4, <2>6 DEF Inv
<1>4. CASE SyncDirectory(w)
  <2>1. /\ step[w] = "sync"
        /\ \/ step'[w] = "recheck" /\ durable' = [durable EXCEPT ![w] = written[w]]
           \/ step'[w] = "remove" /\ durable' = durable
        /\ \A x \in Writers \ {w} : step'[x] = step[x]
        /\ step' \in [Writers -> Steps]
    BY <1>0, <1>4, <1>t, GoMovesOne DEF SyncDirectory, TypeOK
  <2>2. UNCHANGED <<inputs, written, listed, temporary, bundle, survivors>>
    BY <1>4 DEF SyncDirectory
  <2>3. durable' \in [Writers -> Nat] /\ \A x \in Writers \ {w} : durable'[x] = durable[x]
    BY <1>t, <2>1 DEF TypeOK
  <2>4. /\ TypeOK' /\ SurvivorIsWhole' /\ SurvivorIsPublished' /\ SuccessIsTheBundle'
        /\ \A x \in Writers : Size(x)' = Size(x)
        /\ \A x \in Writers \ {w} : Whole(x)' <=> Whole(x)
    BY <1>t, <2>1, <2>2, <2>3, OthersAlone DEF TypeOK
  <2>5. Whole(w) /\ Whole(w)' /\ durable[w] <= written[w]
    BY <1>t, <2>1, <2>2 DEF FilesFollowStep, Whole, Size
  <2>6. FilesFollowStep'
    BY <1>s, <1>t, <2>1, <2>2, <2>3, <2>4, <2>5 DEF FilesFollowStep, TypeOK
  <2> QED
    BY <2>4, <2>6 DEF Inv
<1>5. CASE Rename(w)
  <2>1. CASE Go(w, "rename", "remove") /\ UNCHANGED <<bundle, survivors, temporary>>
    <3>1. /\ step[w] = "rename" /\ step'[w] = "remove"
          /\ \A x \in Writers \ {w} : step'[x] = step[x]
          /\ step' \in [Writers -> Steps]
      BY <1>0, <1>t, <2>1, GoMovesOne DEF TypeOK
    <3>2. /\ UNCHANGED <<inputs, written, durable, listed, bundle, survivors>>
          /\ temporary' \subseteq Writers
      BY <1>5, <1>t, <2>1 DEF Rename, TypeOK
    <3>3. /\ TypeOK' /\ SurvivorIsWhole' /\ SurvivorIsPublished' /\ SuccessIsTheBundle'
          /\ \A x \in Writers : Size(x)' = Size(x) /\ (Whole(x)' <=> Whole(x))
      BY <3>1, <3>2, FilesAlone
    <3>4. FilesFollowStep'
      BY <1>s, <1>t, <3>1, <3>2, <3>3 DEF FilesFollowStep
    <3> QED
      BY <3>3, <3>4 DEF Inv
  <2>2. CASE /\ Go(w, "rename", "published") /\ bundle = Nothing
             /\ bundle' = w /\ survivors' = survivors \cup {w} /\ temporary' = temporary \ {w}
    <3>1. /\ step[w] = "rename" /\ step'[w] = "published"
          /\ \A x \in Writers \ {w} : step'[x] = step[x]
          /\ step' \in [Writers -> Steps]
      BY <1>0, <1>t, <2>2, GoMovesOne DEF TypeOK
    <3>2. UNCHANGED <<inputs, written, durable, listed>>
      BY <1>5 DEF Rename
    <3>3. TypeOK'
      BY <1>t, <2>2, <3>1, <3>2 DEF TypeOK
    <3>4. \A x \in Writers : Size(x)' = Size(x) /\ (Whole(x)' <=> Whole(x))
      BY <3>2 DEF Size, Whole
    <3>5. FilesFollowStep'
      BY <1>s, <1>t, <3>1, <3>2, <3>4 DEF FilesFollowStep
    <3>6. survivors = {Nothing} /\ survivors' = {Nothing, w}
      BY <2>2 DEF Inv, SurvivorIsPublished
    <3>7. Whole(w) /\ durable[w] = written[w]
      BY <1>t, <3>1 DEF FilesFollowStep
    <3>8. SurvivorIsWhole'
      BY <2>2, <3>2, <3>4, <3>6, <3>7 DEF SurvivorIsWhole
    <3>9. \A x \in Writers \ {w} : step[x] # "published"
      BY <2>2, <3>1 DEF Inv, SurvivorIsPublished, Ended
    <3>10. SurvivorIsPublished'
      BY <2>2, <3>1, <3>6, <3>9 DEF SurvivorIsPublished
    <3>11. SuccessIsTheBundle'
      BY <2>2, <3>1, <3>6, <3>9 DEF SuccessIsTheBundle
    <3> QED
      BY <3>3, <3>5, <3>8, <3>10, <3>11 DEF Inv
  <2> QED
    BY <1>5, <2>1, <2>2 DEF Rename
<1> QED
  BY <1>1, <1>2, <1>3, <1>4, <1>5 DEF Write

\* So do a kill and a loss of power.
LEMMA FaultInv ==
  ASSUME Inv, (\E w \in Writers : Kill(w)) \/ PowerLoss
  PROVE  Inv'
<1>0. {"check", "mkdir", "artifacts", "manifest", "sync", "recheck", "rename", "remove",
       "published", "failed", "killed"} = Steps
  BY DEF Steps, Ended
<1>t. TypeOK /\ FilesFollowStep
  BY DEF Inv
<1>1. ASSUME NEW w \in Writers, Kill(w) PROVE Inv'
  <2>1. /\ step[w] \notin {"published", "killed", "failed"} /\ step'[w] = "killed"
        /\ \A x \in Writers \ {w} : step'[x] = step[x]
        /\ step' \in [Writers -> Steps]
    BY <1>0, <1>1, <1>t DEF Kill, TypeOK, Ended
  <2>2. /\ UNCHANGED <<inputs, written, durable, listed, bundle, survivors>>
        /\ temporary' \subseteq Writers
    BY <1>1, <1>t DEF Kill, TypeOK
  <2>3. /\ TypeOK' /\ SurvivorIsWhole' /\ SurvivorIsPublished' /\ SuccessIsTheBundle'
        /\ \A x \in Writers : Size(x)' = Size(x) /\ (Whole(x)' <=> Whole(x))
    BY <2>1, <2>2, FilesAlone
  <2>4. FilesFollowStep'
    BY <1>t, <2>1, <2>2, <2>3 DEF FilesFollowStep
  <2> QED
    BY <2>3, <2>4 DEF Inv
<1>2. CASE PowerLoss
  <2>1. /\ step' = [w \in Writers |-> IF step[w] \in Ended THEN step[w] ELSE "killed"]
        /\ bundle' \in survivors /\ survivors' = {bundle'}
        /\ temporary' \subseteq Writers
        /\ UNCHANGED <<inputs, durable, listed>>
    BY <1>2, <1>t DEF PowerLoss, TypeOK
  <2>2. PICK lost \in SUBSET Writers :
          written' = [w \in Writers |-> IF w \in lost THEN durable[w] ELSE written[w]]
    BY <1>2 DEF PowerLoss
  <2>3. /\ written' \in [Writers -> Nat]
        /\ \A w \in Writers : durable[w] <= written'[w]
        /\ \A w \in Writers : durable[w] = written[w] => written'[w] = written[w]
    BY <1>t, <2>2 DEF TypeOK, FilesFollowStep
  <2>4. /\ \A w \in Writers : step'[w] \in Ended
        /\ \A w \in Writers : step'[w] = "published" <=> step[w] = "published"
        /\ step' \in [Writers -> Steps]
    BY <1>0, <1>t, <2>1 DEF TypeOK, Ended
  <2>5. TypeOK'
    BY <1>t, <2>1, <2>3, <2>4 DEF TypeOK
  <2>6. \A w \in Writers : durable[w] = written[w] => (Whole(w)' <=> Whole(w))
    BY <2>1, <2>3 DEF Whole, Size
  <2>7. FilesFollowStep'
    BY <1>t, <2>1, <2>3, <2>4, <2>6 DEF FilesFollowStep, Ended
  <2>8. SurvivorIsWhole'
    BY <2>1, <2>3, <2>6 DEF Inv, SurvivorIsWhole
  <2>9. SurvivorIsPublished'
    BY <2>1, <2>4 DEF Inv, SurvivorIsPublished
  <2>10. SuccessIsTheBundle'
    BY <2>1, <2>4 DEF Inv, SuccessIsTheBundle
  <2> QED
    BY <2>5, <2>7, <2>8, <2>9, <2>10 DEF Inv
<1> QED
  BY <1>1, <1>2

LEMMA StepInv == Inv /\ [Next]_vars => Inv'
<1> SUFFICES ASSUME Inv, [Next]_vars PROVE Inv'
  OBVIOUS
<1>1. ASSUME NEW w \in Writers, Write(w) PROVE Inv'
  BY <1>1, WriteInv
<1>2. CASE (\E w \in Writers : Kill(w)) \/ PowerLoss
  BY <1>2, FaultInv
<1>3. CASE UNCHANGED vars
  BY <1>3 DEF vars, Inv, TypeOK, FilesFollowStep, SurvivorIsWhole, SurvivorIsPublished,
              SuccessIsTheBundle, Whole, Size
<1> QED
  BY <1>1, <1>2, <1>3 DEF Next, Terminated

\* Inv is an invariant of any number of captures with one destination.
THEOREM Invariance == Spec => []Inv
  BY InitInv, StepInv, PTL DEF Spec

\* What metadata.txt and the manifest of a bundle name is in the bundle.
THEOREM BundlesAnswer == Spec => []BundleAnswersItsMetadata
<1>1. Inv => BundleAnswersItsMetadata
  <2> SUFFICES ASSUME Inv, NEW w \in Writers \cap survivors
               PROVE  Whole(w) /\ MetadataNames(inputs[w]) \subseteq listed[w] \cup {Manifest}
    BY DEF BundleAnswersItsMetadata
  <2>1. Whole(w) /\ inputs[w] \in Inputs
    BY DEF Inv, TypeOK, SurvivorIsWhole
  <2>2. MetadataNames(inputs[w]) \subseteq Elements(Artifacts(inputs[w])) \cup {Manifest}
    BY <2>1, ArtifactsAnswer
  <2>3. listed[w] = Elements(Artifacts(inputs[w]))
    BY <2>1 DEF Whole
  <2> QED
    BY <2>1, <2>2, <2>3
<1> QED
  BY <1>1, Invariance, PTL

\* One capture of a destination succeeds, and the bundle is its own.
THEOREM SuccessIsUnique == Spec => []SuccessIsTheBundle
<1>1. Inv => SuccessIsTheBundle
  BY DEF Inv
<1> QED
  BY <1>1, Invariance, PTL

-----------------------------------------------------------------------------

\* What a reader finds is the entry itself: no bundle is torn.
LEMMA StepPromise == Inv /\ Inv' /\ [Next]_vars => [Promise!Next]_(Promise!contents)
<1> SUFFICES ASSUME Inv, Inv', [Next]_vars
             PROVE  Promise!Next \/ UNCHANGED Promise!contents
  OBVIOUS
<1> DEFINE seen == IF bundle \in Writers /\ ~Whole(bundle) THEN Torn ELSE bundle
<1>0. seen = bundle /\ seen' = bundle'
  <2>1. \A w \in Writers : w = bundle => Whole(w)
    BY DEF Inv, SurvivorIsWhole
  <2>2. \A w \in Writers : w = bundle' => Whole(w)'
    BY DEF Inv, SurvivorIsWhole
  <2> QED
    BY <2>1, <2>2
<1> USE DEF Promise!Next, Promise!contents
<1>1. CASE UNCHANGED <<bundle, survivors>>
  BY <1>0, <1>1
<1>2. ASSUME NEW w \in Writers, Rename(w), ~UNCHANGED <<bundle, survivors>>
      PROVE  Promise!Next
  <2>1. bundle = Nothing /\ bundle' = w /\ survivors' = survivors \cup {w}
    BY <1>2 DEF Rename
  <2> QED
    BY <1>0, <2>1 DEF Promise!Publish
<1>3. CASE PowerLoss
  <2>1. bundle' \in survivors /\ survivors' = {bundle'}
    BY <1>3 DEF PowerLoss
  <2> QED
    BY <1>0, <2>1 DEF Promise!PowerLoss
<1>4. ASSUME NEW w \in Writers, (Write(w) /\ ~Rename(w)) \/ Kill(w)
      PROVE  UNCHANGED <<bundle, survivors>>
  BY <1>4 DEF Write, CheckFinal, MakeTemporary, WriteArtifact, WriteManifest, SyncDirectory,
              RecheckFinal, Remove, Kill
<1>5. CASE UNCHANGED vars
  BY <1>1, <1>5 DEF vars
<1> QED
  BY <1>1, <1>2, <1>3, <1>4, <1>5 DEF Next, Terminated

\* Captures implement the publication of whole bundles, without replacement.
THEOREM ImplementsSinglePublication == Spec => ImplementsPublication
<1>1. Init => Promise!Start
  BY DEF Init, Promise!Start
<1>2. Inv /\ Inv' /\ [Next]_vars => [Promise!Next]_(Promise!contents)
  BY StepPromise
<1> QED
  BY <1>1, <1>2, Invariance, PTL DEF Spec, ImplementsPublication, Promise!Spec

-----------------------------------------------------------------------------
(* PrivateFile.                                                            *)

USE PrivateFileAssumption

LEMMA FileInitInv == FileInit => FileInv
BY DEF FileInit, FileInv, FileTypeOK, Calls, SaveEnds, TemporaryIsHidden, RenamedIsSynced, NamesFollowStep,
       OtherIsKept, SavedIsDurable

\* A call of one writer moves that writer only.
LEMMA MovesOne ==
  ASSUME call \in [Savers -> Calls], NEW w \in Savers, NEW now, NEW next \in Calls,
         Moves(w, now, next)
  PROVE  /\ call[w] = now /\ call'[w] = next
         /\ \A x \in Savers \ {w} : call'[x] = call[x]
         /\ call' \in [Savers -> Calls]
BY DEF Moves

\* Every call of a save keeps the invariant.
LEMMA SaveInv ==
  ASSUME FileInv, NEW w \in Savers, Save(w)
  PROVE  FileInv'
<1> USE DEF FileInv, FileTypeOK, TemporaryIsHidden, RenamedIsSynced, NamesFollowStep, OtherIsKept,
            SavedIsDurable
<1>0. {"check", "create", "render", "sync", "recheck", "rename", "sync_parent", "cleanup",
       "saved", "failed", "killed"} = Calls
  BY DEF Calls, SaveEnds
<1>1. CASE CheckTarget(w)
  BY <1>0, <1>1, MovesOne DEF CheckTarget, rejectUnsafeOutputTargetAt
<1>2. CASE CreateTemporary(w)
  <2>1. CASE Moves(w, "create", "failed")
    BY <1>0, <1>2, <2>1, MovesOne DEF CreateTemporary
  <2>2. CASE Moves(w, "create", "render")
    <3>1. /\ call[w] = "create" /\ call'[w] = "render"
          /\ \A x \in Savers \ {w} : call'[x] = call[x]
          /\ call' \in [Savers -> Calls]
      BY <1>0, <2>2, MovesOne
    <3>2. /\ names' = names \cup {w} /\ file' = [file EXCEPT ![w] = "partial"]
          /\ target' = target /\ remains' = remains
      BY <1>2, <2>2, <3>1 DEF CreateTemporary, Moves
    <3>3. w \notin remains /\ Other \notin remains
      BY <3>1
    <3>4. FileTypeOK' /\ TemporaryIsHidden' /\ (target \in remains)'
      BY <3>1, <3>2, <3>3
    <3>5. RenamedIsSynced' /\ SavedIsDurable'
      BY <3>1, <3>2, <3>3
    <3>6. NamesFollowStep' /\ OtherIsKept'
      BY <3>1, <3>2, <3>3
    <3> QED
      BY <3>4, <3>5, <3>6
  <2> QED
    BY <1>2, <2>1, <2>2 DEF CreateTemporary
<1>3. CASE Render(w)
  BY <1>0, <1>3, MovesOne DEF Render
<1>4. CASE SyncFile(w)
  BY <1>0, <1>4, MovesOne DEF SyncFile
<1>5. CASE Recheck(w)
  BY <1>0, <1>5, MovesOne DEF Recheck, rejectUnsafeOutputTargetAt
<1>6. CASE RenameFile(w)
  BY <1>0, <1>6, MovesOne DEF RenameFile
<1>7. CASE SyncParent(w)
  <2>1. /\ call[w] = "sync_parent" /\ call'[w] \in {"saved", "failed"}
        /\ \A x \in Savers \ {w} : call'[x] = call[x]
        /\ call' \in [Savers -> Calls]
    BY <1>0, <1>7, MovesOne DEF SyncParent
  <2>2. /\ remains' \in {remains, {target}}
        /\ call'[w] = "saved" => remains' = {target}
        /\ file' = file /\ names' = names /\ target' = target
    BY <1>7, <2>1 DEF SyncParent, Moves
  <2>3. Other \notin remains
    BY <2>1
  <2>4. target \in remains' /\ remains' \subseteq remains
    BY <2>2
  <2>5. FileTypeOK' /\ TemporaryIsHidden' /\ RenamedIsSynced'
    BY <2>1, <2>2, <2>4
  <2>6. NamesFollowStep' /\ OtherIsKept'
    BY <2>1, <2>2, <2>3, <2>4
  <2>7. SavedIsDurable'
    BY <2>1, <2>2, <2>3, <2>4
  <2> QED
    BY <2>2, <2>4, <2>5, <2>6, <2>7
<1>8. CASE Cleanup(w)
  BY <1>0, <1>8, MovesOne DEF Cleanup
<1> QED
  BY <1>1, <1>2, <1>3, <1>4, <1>5, <1>6, <1>7, <1>8 DEF Save

\* So do a kill and a loss of power.
LEMMA FileFaultInv ==
  ASSUME FileInv, (\E w \in Savers : KillSave(w)) \/ LosePower
  PROVE  FileInv'
<1> USE DEF FileInv, FileTypeOK, TemporaryIsHidden, RenamedIsSynced, NamesFollowStep, OtherIsKept,
            SavedIsDurable, Calls, SaveEnds
<1>1. ASSUME NEW w \in Savers, KillSave(w) PROVE FileInv'
  BY <1>1 DEF KillSave
<1>2. CASE LosePower
  <2>1. target' \in remains /\ remains' = {target'}
    BY <1>2 DEF LosePower
  <2>2. /\ call' = [w \in Savers |-> IF call[w] \in SaveEnds THEN call[w] ELSE "killed"]
        /\ names' \subseteq names \cup {w \in Savers : w \in remains \ {target'} /\ call[w] # "saved"}
        /\ file' = file
    BY <1>2 DEF LosePower
  <2>3. FileTypeOK'
    BY <2>1, <2>2
  <2>4. /\ \A w \in Savers : call'[w] \in {"saved", "failed", "killed"}
        /\ \A w \in Savers : call'[w] = "saved" => call[w] = "saved"
    BY <2>2
  <2>5. TemporaryIsHidden' /\ RenamedIsSynced' /\ SavedIsDurable'
    BY <2>1, <2>2, <2>4
  <2>6. NamesFollowStep' /\ OtherIsKept'
    BY <2>1, <2>2, <2>4
  <2> QED
    BY <2>1, <2>3, <2>5, <2>6
<1> QED
  BY <1>1, <1>2

LEMMA FileStepInv == FileInv /\ [FileNext]_fileVars => FileInv'
<1> SUFFICES ASSUME FileInv, [FileNext]_fileVars PROVE FileInv'
  OBVIOUS
<1>1. ASSUME NEW w \in Savers, Save(w) PROVE FileInv'
  BY <1>1, SaveInv
<1>2. CASE (\E w \in Savers : KillSave(w)) \/ LosePower
  BY <1>2, FileFaultInv
<1>3. CASE UNCHANGED fileVars
  BY <1>3 DEF fileVars, FileInv, FileTypeOK, TemporaryIsHidden, RenamedIsSynced, NamesFollowStep, OtherIsKept,
              SavedIsDurable
<1> QED
  BY <1>1, <1>2, <1>3 DEF FileNext, AllSaved

\* Inv is an invariant of any number of saves to one destination.
THEOREM FileInvariance == FileSpec => []FileInv
  BY FileInitInv, FileStepInv, PTL DEF FileSpec

\* What a reported save replaced never comes back, and an entry that is no
\* regular file is never replaced.
THEOREM SavesAreDurable == FileSpec => []SavedIsDurable
<1>1. FileInv => SavedIsDurable
  BY DEF FileInv
<1> QED
  BY <1>1, FileInvariance, PTL

-----------------------------------------------------------------------------

LEMMA InitReplaces == FileInit => Replacement!Start
BY DEF FileInit, Replacement!Start

LEMMA StepReplaces == FileInv /\ FileInv' /\ [FileNext]_fileVars => [Replacement!Next]_(Replacement!contents)
<1> SUFFICES ASSUME FileInv, FileInv', [FileNext]_fileVars
             PROVE  Replacement!Next \/ UNCHANGED Replacement!contents
  OBVIOUS
<1> DEFINE same == UNCHANGED <<target, remains>>
<1> USE DEF Replacement!Next, Replacement!contents
<1>1. CASE same
  BY <1>1
<1>2. ASSUME NEW w \in Savers, RenameFile(w) PROVE Replacement!Next \/ same
  BY <1>2 DEF RenameFile, Replacement!Publish
<1>3. ASSUME NEW w \in Savers, SyncParent(w) PROVE Replacement!Next \/ same
  <2>1. CASE remains' = remains
    BY <1>3, <2>1 DEF SyncParent
  <2>2. CASE remains' = {target}
    BY <1>3, <2>2 DEF SyncParent, Replacement!Persist
  <2> QED
    BY <1>3, <2>1, <2>2 DEF SyncParent
<1>4. CASE LosePower
  <2>1. target' \in remains /\ remains' = {target'}
    BY <1>4 DEF LosePower, FileInv, RenamedIsSynced
  <2> QED
    BY <2>1 DEF Replacement!PowerLoss
<1>5. ASSUME NEW w \in Savers, (Save(w) /\ ~RenameFile(w) /\ ~SyncParent(w)) \/ KillSave(w)
      PROVE  same
  BY <1>5 DEF Save, CheckTarget, CreateTemporary, Render, SyncFile, Recheck, Cleanup, KillSave
<1>6. CASE UNCHANGED fileVars
  BY <1>6 DEF fileVars
<1> QED
  BY <1>1, <1>2, <1>3, <1>4, <1>5, <1>6 DEF FileNext, AllSaved

\* Saving implements the publication of whole versions, with replacement.
THEOREM SavingReplaces == FileSpec => ImplementsReplacement
<1>1. FileInit => Replacement!Start
  BY InitReplaces
<1>2. FileInv /\ FileInv' /\ [FileNext]_fileVars => [Replacement!Next]_(Replacement!contents)
  BY StepReplaces
<1> QED
  BY <1>1, <1>2, FileInvariance, PTL DEF FileSpec, ImplementsReplacement, Replacement!Spec

=============================================================================
